----------------------------- MODULE MCCliente -----------------------------
(***************************************************************************)
(* The instance of Cliente for TLC.                                        *)
(***************************************************************************)
EXTENDS Cliente

Alfabeto ==
  Ops \cup Oyentes \cup Resultados \cup Ids \cup {OK, "?", "2", "3"}
    \cup {NUL, NL, BLANCO, RARO, "SEND_MESSAGE", "j", "o", "s", "a", "b", "d", "x", "y"}

(* A name longer than the buffer, and a text of two words and a newline.   *)
Registro     == <<<<"REGISTER">>, <<"j", "o", "s">>, <<"a">>, <<"d">>>>
Conexion     == <<<<"CONNECT">>, <<"a">>>>
Desconexion  == <<<<"DISCONNECT">>, <<"a">>>>
Envio        == <<<<"SEND">>, <<"a">>, <<"b">>, <<NL, "x", BLANCO, NL, "y">>>>
Usuarios     == <<<<"CONNECTEDUSERS">>, <<"a">>>>

PeticionesTodas == {Registro, Conexion, Desconexion, Envio, Usuarios}

(* Only the text of a SEND has a newline (client.py:477-480, 549-550).              *)
ASSUME EnUnaLinea == UnaLinea

Cifras == <<"0", "1", "2", "3">>

(* One name, and two of which the client cannot decode the second.         *)
ListasCortas == {<<<<"a">>>>, <<<<"a">>, <<RARO>>>>}

(* A text, and one that the client cannot decode.                          *)
EntregasDos ==
  {<<<<"SEND_MESSAGE">>, <<"b">>, <<"7">>, <<"x">>>>, <<<<"SEND_MESSAGE">>, <<"b">>, <<"7">>, <<"x", RARO>>>>}

(* The user has registered.                                                *)
InitConAlias ==
  /\ ventana = "quieta" /\ n = 0 /\ con_alias = TRUE /\ corriendo = FALSE
  /\ con = [i \in 1..MaxPet |-> Libre] /\ oy = [o \in Oyentes |-> OyenteLibre] /\ ent = <<>>
  /\ servidor = "vivo" /\ fuera = FALSE /\ fallos = 0
FairSpecConAlias == InitConAlias /\ [][Next]_vars /\ Equidad
=============================================================================
