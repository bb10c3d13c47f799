----------------------------- MODULE MCDespacho -----------------------------
(***************************************************************************)
(* The instance of Despacho for TLC.                                       *)
(***************************************************************************)
EXTENDS Despacho, TLC

Simetria == Permutations(Hilos)
=============================================================================
