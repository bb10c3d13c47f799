------------------------- MODULE MCServidorEnSerie -------------------------
(***************************************************************************)
(* The instance of ServidorEnSerie for TLC.                                *)
(***************************************************************************)
EXTENDS ServidorEnSerie

CONSTANTS ana, luis, equipo1, puerto1, puerto2

DosAlias == {ana, luis}
P(op, a, b, port) == [op |-> op, alias |-> a, dest |-> b, IP |-> equipo1, port |-> port]

PeticionesTodas ==
  {P(op, luis, luis, puerto1) : op \in {"REGISTER", "UNREGISTER", "DISCONNECT"}}
    \cup {P("CONNECT", luis, luis, puerto2), P("CONNECT", ana, ana, puerto1)}
    \cup {P("SEND", ana, luis, puerto1), P("SEND", luis, ana, puerto1), P("SEND", ana, ana, puerto1)}

(* Never seen: no profile is read before the one REGISTER writes it.        *)
BasuraPerfil  == {[status |-> "otro", IP |-> SinIP, port |-> SinPuerto, last_id |-> 7, vivos |-> FALSE]}
BasuraMensaje == {Hueco}
=============================================================================
