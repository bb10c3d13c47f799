----------------------------- MODULE MCUsuarios -----------------------------
(***************************************************************************)
(* The instances of UsuariosConectados for TLC: the users and requests of  *)
(* MCServidor.                                                             *)
(***************************************************************************)
EXTENDS MCServidor, UsuariosConectados

(* Both users come and go and write to each other.                         *)
PeticionesIrYVenir ==
  PeticionesAlta \cup {Simple("DISCONNECT", luis), Simple("DISCONNECT", ana), Simple("UNREGISTER", ana), Envia(luis, ana)}

(* One of them is on line already.                                         *)
InitConAna == InitAnaEnLinea /\ InitL
SpecConAna == InitConAna /\ [][NextL]_varsL
=============================================================================
