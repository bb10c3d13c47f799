----------------------------- MODULE MCServidor -----------------------------
(***************************************************************************)
(* Small instances of Servidor for TLC: two users, one or two hosts, and   *)
(* the sets of requests each run lets the clients make.                    *)
(***************************************************************************)
EXTENDS Servidor, TLC

CONSTANTS ana, luis, equipo1, equipo2, puerto1, puerto2

DosAlias   == {ana, luis}
UnEquipo   == {equipo1}
DosEquipos == {equipo1, equipo2}
Simetria    == Permutations(Hilos)

P(op, a, b, ip, port) == [op |-> op, alias |-> a, dest |-> b, IP |-> ip, port |-> port]
Simple(op, a)  == P(op, a, a, equipo1, puerto1)
Envia(a, b)    == P("SEND", a, b, equipo1, puerto1)
Conecta(a, ip, port) == P("CONNECT", a, a, ip, port)

PuertoDe(a) == IF a = ana THEN puerto1 ELSE puerto2
EnLineaEn(ip, port) == [PerfilNuevo EXCEPT !.status = Conectado, !.IP = ip, !.port = port]

(* What an uninitialised struct holds: bytes that are no status at all, or *)
(* the profile of a user, any user, that an earlier request left on the    *)
(* stack; and a message nobody sent.                                       *)
BasuraPerfil == {[status |-> "otro", IP |-> SinIP, port |-> SinPuerto, last_id |-> 7, vivos |-> FALSE]}
                  \cup {EnLineaEn(equipo1, PuertoDe(a)) : a \in Alias}
BasuraMensaje == {[id |-> 7, remitente |-> Nadie, mensaje |-> 0]}

(* A user that comes and goes while the other writes to it.                *)
PeticionesAlta ==
  {Simple("REGISTER", luis), Simple("UNREGISTER", luis), Conecta(luis, equipo1, puerto2),
   Conecta(ana, equipo1, puerto1), Envia(ana, luis)}

PeticionesTodas ==
  {Simple(op, luis) : op \in {"REGISTER", "UNREGISTER", "DISCONNECT"}}
    \cup {Conecta(luis, equipo1, puerto2), Conecta(ana, equipo1, puerto1), Simple("DISCONNECT", ana)}
    \cup {Envia(ana, luis), Envia(luis, ana), Envia(ana, ana), Simple("INVALIDA", ana)}

(* A disconnected user is written to, connects and disconnects.            *)
PeticionesCharla == {Simple("DISCONNECT", luis), Conecta(luis, equipo1, puerto2), Envia(ana, luis)}

(* Two connected users write to each other and one of them leaves.         *)
PeticionesDialogo ==
  {Envia(ana, luis), Envia(luis, ana), Simple("DISCONNECT", luis), Conecta(luis, equipo1, puerto2),
   Conecta(ana, equipo1, puerto1)}

(* Both users write to one of them, who does not come or go.               *)
PeticionesCartas == {Envia(ana, luis), Envia(luis, luis)}

(* One user asks for an account while the other writes to it.              *)
PeticionesEstreno == {Simple("REGISTER", luis), Conecta(luis, equipo1, puerto2), Envia(ana, luis)}

(* The clients of the two users run on different hosts and happen to       *)
(* listen on the same port number.                                         *)
ConectanDosEquipos   == {Conecta(luis, equipo2, puerto1), Conecta(ana, equipo1, puerto1)}
PeticionesDosEquipos == ConectanDosEquipos \cup {Envia(ana, luis)}
PeticionesCruzadas   == ConectanDosEquipos \cup {Envia(ana, luis), Envia(luis, ana)}

(* States of the server in which no request is being served and users have *)
(* connected: both, on one host or on two; or ana only.                    *)
InitCon(conectados, ip(_), port(_)) ==
  /\ perfiles = [a \in Alias |-> IF a \in conectados THEN EnLineaEn(ip(a), port(a))
                                 ELSE IF a \in Registrados THEN PerfilNuevo ELSE NoHay]
  /\ mensajes = [a \in Alias |-> IF a \in conectados \cup Registrados THEN <<>> ELSE NoHay]
  /\ escuchando = {<<ip(a), port(a)>> : a \in conectados}
  /\ Arranque

InitEnLinea     == InitCon(Alias, LAMBDA a : equipo1, PuertoDe)
InitDosEquipos  == InitCon(Alias, LAMBDA a : IF a = ana THEN equipo1 ELSE equipo2, LAMBDA a : puerto1)
InitAnaEnLinea  == InitCon({ana}, LAMBDA a : equipo1, PuertoDe)

SpecEnLinea     == InitEnLinea /\ [][Next]_vars
FairSpecEnLinea == SpecEnLinea /\ Equidad
SpecDosEquipos  == InitDosEquipos /\ [][Next]_vars
SpecAnaEnLinea  == InitAnaEnLinea /\ [][Next]_vars
=============================================================================
