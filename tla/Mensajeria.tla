----------------------------- MODULE Mensajeria -----------------------------
(***************************************************************************)
(* What the service promises (README.md:15-19), with no files, threads or  *)
(* sockets: users register, open and close sessions, and those who have a  *)
(* session send messages, which wait in a queue per receiver and are all   *)
(* delivered, in order, to the address of the receiver's session.  Apart,  *)
(* in SpecConSalvedades, the two things the code does besides.             *)
(***************************************************************************)
EXTENDS Integers, Sequences

CONSTANTS
  Alias,      \* users
  Dirs,       \* addresses at which clients listen
  Textos,     \* texts; no two messages carry the same one
  SinAlta,    \* the session of somebody who is not a user
  SinSesion   \* the session of a user that is not connected

VARIABLES
  sesion,      \* the address of each user's session
  cola,        \* messages waiting for each user
  entregados,  \* what each address has received
  oyentes      \* addresses at which somebody listens
vars == <<sesion, cola, entregados, oyentes>>

Mensaje == [remitente : Alias, mensaje : Textos]

Registrar(a) ==
  /\ sesion[a] = SinAlta
  /\ sesion' = [sesion EXCEPT ![a] = SinSesion]
  /\ UNCHANGED <<cola, entregados, oyentes>>

Borrar(a) ==
  /\ sesion[a] # SinAlta
  /\ sesion' = [sesion EXCEPT ![a] = SinAlta]
  /\ cola' = [cola EXCEPT ![a] = <<>>]
  /\ UNCHANGED <<entregados, oyentes>>

Conectar(a, d) ==
  /\ sesion[a] = SinSesion
  /\ sesion' = [sesion EXCEPT ![a] = d]
  /\ UNCHANGED <<cola, entregados, oyentes>>

Desconectar(a) ==
  /\ sesion[a] \in Dirs
  /\ sesion' = [sesion EXCEPT ![a] = SinSesion]
  /\ UNCHANGED <<cola, entregados, oyentes>>

Encolar(r, a, t) ==
  /\ sesion[a] # SinAlta
  /\ cola' = [cola EXCEPT ![a] = Append(@, [remitente |-> r, mensaje |-> t])]
  /\ UNCHANGED <<sesion, entregados, oyentes>>

(* README.md:17: to send messages, a user must be connected.               *)
Enviar(r, a, t) == sesion[r] \in Dirs /\ Encolar(r, a, t)

Entregar(a) ==
  /\ cola[a] # <<>> /\ sesion[a] \in oyentes
  /\ entregados' = [entregados EXCEPT ![sesion[a]] = Append(@, Head(cola[a]))]
  /\ cola' = [cola EXCEPT ![a] = Tail(@)]
  /\ UNCHANGED <<sesion, oyentes>>

Escuchar(d) == oyentes' = oyentes \cup {d} /\ UNCHANGED <<sesion, cola, entregados>>
Morir(d)    == oyentes' = oyentes \ {d} /\ UNCHANGED <<sesion, cola, entregados>>

Init ==
  /\ sesion \in [Alias -> {SinAlta, SinSesion}]
  /\ cola = [a \in Alias |-> <<>>]
  /\ entregados = [d \in Dirs |-> <<>>]
  /\ oyentes = {}

Next ==
  \/ \E a \in Alias : \/ Registrar(a) \/ Borrar(a) \/ Desconectar(a) \/ Entregar(a)
                      \/ \E d \in Dirs : Conectar(a, d)
                      \/ \E r \in Alias, t \in Textos : Enviar(r, a, t)
  \/ \E d \in Dirs : Escuchar(d) \/ Morir(d)

Spec == Init /\ [][Next]_vars

-----------------------------------------------------------------------------
(* A user that is registered sends without a session.                      *)
EnviarSinSesion(r, a, t) == sesion[r] = SinSesion /\ Encolar(r, a, t)

(* Messages at the head of a queue are lost on their way to a session at   *)
(* whose address nobody listens any more.                                  *)
Perder(a) ==
  /\ sesion[a] \in Dirs \ oyentes
  /\ \E k \in 1..Len(cola[a]) : cola' = [cola EXCEPT ![a] = SubSeq(@, k + 1, Len(@))]
  /\ UNCHANGED <<sesion, entregados, oyentes>>

Salvedades ==
  \E a \in Alias : Perder(a) \/ \E r \in Alias, t \in Textos : EnviarSinSesion(r, a, t)

SpecConSalvedades == Init /\ [][Next \/ Salvedades]_vars
=============================================================================
