------------------------------ MODULE Cliente ------------------------------
(***************************************************************************)
(* A client and the threads of the server at the other end of its sockets: *)
(* the window, which serves one button at a time; a listener thread for    *)
(* each CONNECT; the server's threads that read the requests and reply,    *)
(* and those that deliver texts and acknowledgements to the listeners.     *)
(* What the server answers is any result: Servidor says which one.         *)
(***************************************************************************)
EXTENDS Trama

CONSTANTS
  Peticiones,      \* what the user may ask: sequences of fields, the operation first
  Oyentes,         \* ports to listen on, one for each CONNECT
  Resultados,      \* result codes of the server
  Ids,             \* ids of texts
  Cifra,           \* how 0, 1, 2... are written
  Listas,          \* lists of names that CONNECTEDUSERS answers
  Entregas,        \* what may be delivered: sequences of fields
  MaxPet, MaxEnt,  \* bounds: requests and deliveries
  MaxFallos        \* bound: kills of the client, failures of server and web service

Ops == {"REGISTER", "UNREGISTER", "CONNECT", "DISCONNECT", "SEND", "CONNECTEDUSERS"}
OK == "0"
CERO == "id 0"    \* int.from_bytes of no bytes
SinId == "sin id"
Nada == [campos |-> <<>>, id |-> SinId]
SinLeer == <<"?">> \* a buffer of the stack that nobody has written
Cuantos == 0..(Len(Cifra) - 1)
Num(k) == Cifra[k + 1]

Op(pet) == pet[1][1]
NumCampos == [op \in Ops |-> CASE op \in {"REGISTER", "SEND"} -> 4 [] op = "CONNECT" -> 3 [] OTHER -> 2]

(* What a listener reads: an acknowledgement or a text.                    *)
Completa(campos) ==
  campos # <<>> /\ Len(campos) = IF campos[1] = <<"SEND_MESS_ACK">> THEN 2 ELSE 4

(* Codes, ports, results, numbers and ids are one symbol each, and there   *)
(* is a number for any list.  CONNECT adds the port to what the user gave. *)
ASSUME ClienteSano ==
  /\ MaxPet \in Nat /\ MaxEnt \in Nat /\ MaxFallos \in Nat /\ MAXSIZE >= 2
  /\ Ops \cup Oyentes \cup Resultados \cup Ids \cup {OK, "?"} \subseteq Simbolos \ {NUL, NL}
  /\ Cifra \in Seq(Simbolos \ {NUL}) /\ \A j, k \in DOMAIN Cifra : Cifra[j] = Cifra[k] => j = k
  /\ SinId \notin Ids
  /\ Peticiones \subseteq Seq(Texto)
  /\ \A p \in Peticiones : /\ p # <<>> /\ p[1] \in {<<op>> : op \in Ops}
                           /\ Len(p) = IF Op(p) = "CONNECT" THEN 2 ELSE NumCampos[Op(p)]
  /\ Listas \subseteq Seq(Texto) /\ \A l \in Listas : Len(l) \in Cuantos
  /\ Entregas \subseteq Seq(Texto) /\ \A d \in Entregas : Completa(d)

(* All that the user gives is typed in one line, but the text of a SEND.   *)
UnaLinea ==
  \A p \in Peticiones : \A j \in DOMAIN p : p[j] \in Linea \/ (Op(p) = "SEND" /\ j = 4)

VARIABLES
  ventana,     \* what the window is at
  n,           \* requests so far; the last is the window's
  con_alias,   \* client._alias has been given
  corriendo,   \* client._keep_running
  con,         \* each request and its connection, both ends
  oy,          \* each listener
  ent,         \* deliveries, in the order they connected
  servidor,    \* "vivo", or what ended the process
  fuera,       \* history: DISCONNECT was answered 0 and CONNECT not asked again
  fallos       \* failures so far

vars == <<ventana, n, con_alias, corriendo, con, oy, ent, servidor, fuera, fallos>>

Pcs == {"nada", "sin_hilo", "lee", "escribe", "fin"}
(* Client's end: pet, falta (still to send), visto (what was shown) and    *)
(* cortada (closed); server's end: pc, leidos, resp (what it decided to    *)
(* answer), escribe (still to send) and cerrada; between them two streams. *)
Libre == [pet |-> <<>>, falta |-> <<>>, visto |-> Nada, cortada |-> FALSE,
          pc |-> "nada", leidos |-> <<>>, resp |-> Nada, escribe |-> <<>>, cerrada |-> FALSE,
          ida |-> <<>>, vuelta |-> <<>>]

(* dejado: history, a DISCONNECT was answered 0 since the thread began.    *)
OyenteLibre == [pc |-> "libre", cola |-> <<>>, e |-> 0, mostrados |-> <<>>,
                tras |-> 0, dejado |-> FALSE]
PcsOyente == {"libre", "mira", "acepta", "lee", "colgado", "fin", "muerto"}
Escucha(o) == oy[o].pc \in {"mira", "acepta", "lee", "colgado"}

-----------------------------------------------------------------------------
Falla == fallos < MaxFallos /\ fallos' = fallos + 1

(* What gets through of the piece being written when the writer ends: a    *)
(* byte, if it is not the whole piece.                                     *)
Trozo(falta) == IF falta = <<>> \/ Len(Head(falta)) = 1 THEN <<>> ELSE <<<<Head(Head(falta))>>>>

Cortada(campos) == [j \in DOMAIN campos |-> IF j = Len(campos) THEN Front(campos[j]) ELSE Piezas(campos)[j]]

(* The server's process ends: the sockets close where they are.  Of a text *)
(* that was on its way nothing, or all but its end, gets through.          *)
Cae(causa) ==
  /\ servidor' = causa
  /\ con' = [i \in 1..MaxPet |->
               [con[i] EXCEPT !.vuelta = IF con[i].cortada THEN <<>> ELSE @ \o Trozo(con[i].escribe),
                              !.cerrada = @ \/ con[i].pc # "nada"]]
  /\ \E llega \in BOOLEAN :
       ent' = [e \in DOMAIN ent |-> IF ent[e].cerrado THEN ent[e]
                 ELSE [ent[e] EXCEPT !.flujo = IF llega THEN Cortada(ent[e].campos) ELSE @, !.cerrado = TRUE]]

CaeConTodos(causa) == Cae(causa) /\ UNCHANGED <<ventana, n, con_alias, corriendo, oy, fuera, fallos>>

-----------------------------------------------------------------------------
(* The server accepts and gives the connection a thread, or can create no  *)
(* thread: then nobody reads it, answers or closes it.                     *)
Acoge(pc) ==
  \/ servidor # "vivo" /\ pc = "nada" /\ UNCHANGED fallos
  \/ servidor = "vivo" /\ pc = "lee" /\ UNCHANGED fallos
  \/ servidor = "vivo" /\ pc = "sin_hilo" /\ Falla

(* The operation connects at once; a refused connect is an exception that  *)
(* ends the window.                                                        *)
Pide(pet) ==
  /\ n' = n + 1
  /\ \E pc \in Pcs :
       /\ Acoge(pc)
       /\ con' = [con EXCEPT ![n + 1] = [Libre EXCEPT !.pet = pet, !.falta = Piezas(pet), !.pc = pc]]
  /\ ventana' = IF servidor = "vivo" THEN "envia" ELSE "acabada"
  /\ con_alias' = TRUE
  /\ UNCHANGED <<ent, servidor>>

(* A button of the window; none works before REGISTER has asked for the    *)
(* alias.                                                                  *)
Pulsar ==
  /\ ventana = "quieta" /\ n < MaxPet
  /\ \E p \in Peticiones :
       /\ con_alias \/ Op(p) = "REGISTER"
       /\ Op(p) \notin {"CONNECT", "SEND"}
       /\ Pide(p)
  /\ UNCHANGED <<oy, corriendo, fuera>>

(* SEND asks the web service first, whose failure nobody catches.          *)
PulsarSend ==
  /\ ventana = "quieta" /\ n < MaxPet /\ con_alias
  /\ \E p \in Peticiones : Op(p) = "SEND" /\ Pide([p EXCEPT ![4] = modify_text(p[4])])
  /\ UNCHANGED <<oy, corriendo, fuera>>

SinServicioWeb ==
  /\ Falla /\ ventana = "quieta" /\ n < MaxPet /\ con_alias
  /\ ventana' = "acabada"
  /\ UNCHANGED <<n, con_alias, corriendo, con, oy, ent, servidor, fuera>>

(* CONNECT opens a port and starts its listener before it asks the server. *)
PulsarConnect ==
  /\ ventana = "quieta" /\ n < MaxPet /\ con_alias
  /\ \E p \in Peticiones :
       LET o == CHOOSE q \in Oyentes : oy[q].pc = "libre"
       IN
       /\ Op(p) = "CONNECT" /\ \E q \in Oyentes : oy[q].pc = "libre"
       /\ oy' = [q \in Oyentes |-> IF q = o THEN [OyenteLibre EXCEPT !.pc = "mira"]
                                            ELSE [oy[q] EXCEPT !.tras = 0]]
       /\ Pide(Append(p, <<o>>))
  /\ corriendo' = TRUE /\ fuera' = FALSE

(* The window goes on, and its request with it.                            *)
Ventana(sig, c) ==
  /\ ventana' = sig
  /\ con' = [con EXCEPT ![n] = c]
  /\ UNCHANGED <<n, con_alias, ent, servidor, fallos>>
SinCambios == UNCHANGED <<corriendo, oy, fuera>>

EnviaHasta(restan) ==
  /\ ventana = "envia"
  /\ \/ Ventana(IF Len(con[n].falta) <= restan + 1 THEN "espera" ELSE "envia",
                [con[n] EXCEPT !.ida = @ \o Head(con[n].falta), !.falta = Tail(@)])
     \/ servidor # "vivo" /\ Ventana("espera", con[n])
  /\ SinCambios

(* Mutant: the last field is not sent.                                     *)
EnviarSinUltimo == EnviaHasta(1)

(* sendall, a field and its NUL at a time.  Its errors are caught.         *)
Enviar == EnviaHasta(0)

(* Fields of the answer: the result and, if CONNECTEDUSERS went well, how  *)
(* many names there are and the names.                                     *)
CamposDeRespuesta(op, leido, menos) ==
  IF op # "CONNECTEDUSERS" \/ leido = <<>> \/ leido[1] # <<OK>> THEN 1
  ELSE IF Len(leido) = 1 THEN 2
  ELSE 2 + (CHOOSE k \in Cuantos : <<Num(k)>> = leido[2]) - menos

(* Mutant: the last name is not read.                                      *)
EsperadosMenosUno(op, leido) == CamposDeRespuesta(op, leido, 1)

Esperados(op, leido) == CamposDeRespuesta(op, leido, 0)

(* As in the listener, the reads up to the end of the answer are one step. *)
Leido   == Campos(con[n].vuelta)
OpDe(i) == Op(con[i].pet)
Respondida == ventana = "espera" /\ Len(Leido) >= Esperados(OpDe(n), Leido)

(* The answer is shown and the connection closed.                          *)
Muestra(id, sigue) ==
  /\ Ventana("quieta", [con[n] EXCEPT !.visto = [campos |-> SubSeq(Leido, 1, Esperados(OpDe(n), Leido)), id |-> id],
                                      !.cortada = TRUE, !.vuelta = <<>>])
  /\ IF OpDe(n) = "DISCONNECT" /\ Leido[1] = <<OK>>
       THEN /\ corriendo' = sigue /\ fuera' = TRUE
            /\ oy' = [o \in Oyentes |-> [oy[o] EXCEPT !.dejado = TRUE]]
       ELSE SinCambios

(* Mutant: DISCONNECT leaves _keep_running as it was.                      *)
MostrarSinParar == Respondida /\ OpDe(n) # "SEND" /\ Muestra(SinId, corriendo)

Mostrar == Respondida /\ OpDe(n) # "SEND" /\ Muestra(SinId, FALSE)

(* The connection fails with an exception, which ends the window.          *)
Rompe == Ventana("acabada", [con[n] EXCEPT !.cortada = TRUE]) /\ SinCambios

(* The four bytes of the id; recv returns none if the server has closed.   *)
MostrarConId ==
  /\ Respondida /\ OpDe(n) = "SEND"
  /\ \/ Len(con[n].vuelta) = 2 /\ Muestra(con[n].vuelta[2][1], FALSE)
     \/ Len(con[n].vuelta) = 1 /\ con[n].cerrada /\ Muestra(CERO, FALSE)
     \/ Len(con[n].vuelta) = 1 /\ con[n].cerrada /\ servidor # "vivo" /\ Rompe

LeerRespuestaRara == ventana = "espera" /\ ~Respondida /\ Indescifrable(con[n].vuelta) /\ Rompe

(* The server has closed: readLine never returns, unless recv raises.      *)
LeerRespuestaCortada ==
  /\ ventana = "espera" /\ ~Respondida /\ ~Indescifrable(con[n].vuelta) /\ con[n].cerrada
  /\ \/ Ventana("colgada", con[n]) /\ SinCambios
     \/ servidor # "vivo" /\ Rompe

(* QUIT, or the window is closed; the listeners live on.                   *)
Salir ==
  /\ ventana = "quieta"
  /\ ventana' = "acabada"
  /\ UNCHANGED <<n, con_alias, corriendo, con, oy, ent, servidor, fuera, fallos>>

(* The client's process is killed and another one started.                 *)
Matar ==
  /\ Falla
  /\ ventana' = "quieta" /\ con_alias' = FALSE /\ corriendo' = FALSE /\ fuera' = FALSE
  /\ \E trozo \in {<<>>} \cup (IF ventana = "envia" THEN ToSet(Trozo(con[n].falta)) ELSE {}) :
       con' = [i \in 1..MaxPet |->
                IF i # n \/ con[i].cortada THEN con[i] ELSE [con[i] EXCEPT !.cortada = TRUE, !.ida = @ \o trozo]]
  /\ oy' = [o \in Oyentes |-> [oy[o] EXCEPT !.pc = IF Escucha(o) THEN "muerto" ELSE @]]
  /\ ent' = [e \in DOMAIN ent |-> [ent[e] EXCEPT !.roto = TRUE]]
  /\ UNCHANGED <<n, servidor>>

ventana_sigue == Enviar \/ Mostrar \/ MostrarConId \/ LeerRespuestaRara \/ LeerRespuestaCortada

-----------------------------------------------------------------------------
(* The server's thread for request i.                                      *)
EnHilo(i, etiqueta) == servidor = "vivo" /\ con[i].pc = etiqueta

Hilo(i, c) ==
  /\ con' = [con EXCEPT ![i] = c]
  /\ UNCHANGED <<ventana, n, con_alias, corriendo, oy, ent, servidor, fuera, fallos>>

(* What k calls of readLine leave: their fields and what is left to read.  *)
Lecturas(s, k) ==
  LET f[j \in 0..k] ==
        IF j = 0 THEN {[campos |-> <<>>, resto |-> s]}
        ELSE {LET r == readLine(p.resto, SinLeer)
              IN  [campos |-> Append(p.campos, r.campo), resto |-> r.resto] : p \in f[j - 1]}
  IN  f[k]

(* The code a thread goes by.  One cut short may be no code at all; a      *)
(* buffer that nothing was read into may still hold the code of a request  *)
(* whose thread had the same stack.                                        *)
Codigos(i) ==
  LET leido == readLine(con[i].ida, SinLeer).campo[1]
  IN  IF Terminada(con[i].ida) THEN {leido}
      ELSE IF con[i].ida # <<>> THEN {leido, "?"}
      ELSE {"?"} \cup {con[j].leidos[1][1] : j \in {j \in 1..MaxPet : con[j].leidos # <<>>}}

PuedeLeer(i, op) ==
  con[i].cortada \/ Cardinality({j \in DOMAIN con[i].ida : con[i].ida[j] \in {NUL, NL}}) >= NumCampos[op]

(* The fields and the id that the server may answer.                       *)
Respuestas(op) ==
  CASE op = "SEND" -> [campos : {<<<<r>>>> : r \in Resultados}, id : Ids]
    [] op = "CONNECTEDUSERS" ->
         [campos : {<<<<r>>>> : r \in Resultados \ {OK}} \cup {<<<<OK>>, <<Num(Len(l))>>>> \o l : l \in Listas},
          id : {SinId}]
    [] OTHER -> [campos : {<<<<r>>>> : r \in Resultados}, id : {SinId}]

(* recibir_msj_socket reads the code and its fields, waiting for them or   *)
(* for the client to close; the request is carried out and what is to be   *)
(* answered is known.                                                      *)
Atender(i) ==
  /\ EnHilo(i, "lee") /\ HayLinea(con[i].ida, con[i].cortada)
  /\ \E op \in Codigos(i) \cap Ops :
       /\ PuedeLeer(i, op)
       /\ \E l \in Lecturas(con[i].ida, NumCampos[op]), r \in Respuestas(op) :
            Hilo(i, [con[i] EXCEPT !.pc = "escribe", !.ida = l.resto, !.leidos = [l.campos EXCEPT ![1] = <<op>>],
                     !.resp = r, !.escribe = Piezas(r.campos) \o (IF r.id = SinId THEN <<>> ELSE <<<<r.id>>>>)])

CodigoNoValido(i) ==
  /\ EnHilo(i, "lee") /\ HayLinea(con[i].ida, con[i].cortada)
  /\ ~(Codigos(i) \subseteq Ops)
  /\ CaeConTodos("exit(-1)")

RespondeYCierra(i, cierra) ==
  /\ EnHilo(i, "escribe") /\ ~con[i].cortada
  /\ LET queda == Tail(con[i].escribe)
     IN  Hilo(i, [con[i] EXCEPT !.vuelta = Append(@, Head(con[i].escribe)),
                                !.escribe = queda, !.cerrada = (cierra /\ queda = <<>>),
                                !.pc = IF queda = <<>> THEN "fin" ELSE "escribe"])

(* Mutant: no close.                                                       *)
ResponderSinCerrar(i) == RespondeYCierra(i, FALSE)

(* sendMessage, write and close.                                           *)
Responder(i) == RespondeYCierra(i, TRUE)

ResponderEnVano(i) ==
  /\ EnHilo(i, "escribe") /\ con[i].cortada
  /\ \/ Hilo(i, [con[i] EXCEPT !.pc = "fin", !.escribe = <<>>, !.cerrada = TRUE])
     \/ CaeConTodos("SIGPIPE")

hilo(i) == Atender(i) \/ CodigoNoValido(i) \/ Responder(i) \/ ResponderEnVano(i)

(* Whatever else may end the server.                                       *)
CaerServidor ==
  /\ Falla /\ servidor = "vivo"
  /\ Cae("fallo")
  /\ UNCHANGED <<ventana, n, con_alias, corriendo, oy, fuera>>

-----------------------------------------------------------------------------
(* A thread of the server that has a port it was told of connects to it;   *)
(* the kernel queues the connection for the listener.                      *)
Entregar ==
  /\ servidor = "vivo" /\ Len(ent) < MaxEnt
  /\ \E o \in Oyentes, d \in Entregas :
       /\ Escucha(o) /\ \E i \in 1..MaxPet : Len(con[i].leidos) = 3 /\ con[i].leidos[3] = <<o>>
       /\ ent' = Append(ent, [o |-> o, campos |-> d, flujo |-> <<>>, entera |-> FALSE,
                              cerrado |-> FALSE, roto |-> FALSE])
       /\ oy' = [oy EXCEPT ![o].cola = Append(@, Len(ent) + 1)]
  /\ UNCHANGED <<ventana, n, con_alias, corriendo, con, servidor, fuera, fallos>>

Escribiendo(e) == servidor = "vivo" /\ e \in DOMAIN ent /\ ~ent[e].cerrado

(* The writes of a text are one step: the listener waits for all of them.  *)
EscribirEntrega(e) ==
  /\ Escribiendo(e) /\ ~ent[e].roto
  /\ ent' = [ent EXCEPT ![e].flujo = Piezas(ent[e].campos), ![e].entera = TRUE, ![e].cerrado = TRUE]
  /\ UNCHANGED <<ventana, n, con_alias, corriendo, con, oy, servidor, fuera, fallos>>

(* To a connection that the client has closed it writes for nothing, gets  *)
(* an error or dies of it.                                                 *)
EscribirEnVano(e) ==
  /\ Escribiendo(e) /\ ent[e].roto
  /\ \/ ent' = [ent EXCEPT ![e].cerrado = TRUE] /\ UNCHANGED <<con, servidor>>
     \/ Cae("SIGPIPE")
  /\ UNCHANGED <<ventana, n, con_alias, corriendo, oy, fuera, fallos>>

-----------------------------------------------------------------------------
(* A listener.                                                             *)
EnOyente(o, etiqueta) == oy[o].pc = etiqueta

Oyente(o, r) ==
  /\ oy' = [oy EXCEPT ![o] = r]
  /\ UNCHANGED <<ventana, n, con_alias, corriendo, con, servidor, fuera, fallos>>

MiraSi(o, sigue) == EnOyente(o, "mira") /\ Oyente(o, [oy[o] EXCEPT !.pc = IF sigue THEN "acepta" ELSE "fin"])
                    /\ UNCHANGED ent

(* Mutant: one connection and no more.                                     *)
MirarUnaVez(o) == MiraSi(o, corriendo /\ oy[o].mostrados = <<>>)

(* The while looks at _keep_running; when it ends the port closes.         *)
Mirar(o) == MiraSi(o, corriendo)

Aceptar(o) ==
  /\ EnOyente(o, "acepta") /\ oy[o].cola # <<>>
  /\ Oyente(o, [oy[o] EXCEPT !.pc = "lee", !.e = Head(oy[o].cola), !.cola = Tail(@)])
  /\ UNCHANGED ent

Flujo(o) == ent[oy[o].e].flujo

(* The reads up to the end of the text change nothing that others see, and *)
(* are one step: to show it, for good or never to end.  What cannot be     *)
(* decoded is an exception that ends the thread.                           *)
LeerEntrega(o) ==
  /\ EnOyente(o, "lee") /\ Completa(Campos(Flujo(o)))
  /\ Oyente(o, [oy[o] EXCEPT !.pc = "mira", !.tras = IF fuera THEN @ + 1 ELSE @,
                             !.mostrados = Append(@, [e |-> oy[o].e, campos |-> Campos(Flujo(o))])])
  /\ UNCHANGED ent

LeerRara(o) ==
  /\ EnOyente(o, "lee") /\ ~Completa(Campos(Flujo(o))) /\ Indescifrable(Flujo(o))
  /\ Oyente(o, [oy[o] EXCEPT !.pc = "muerto"])
  /\ ent' = [ent EXCEPT ![oy[o].e].roto = TRUE]

(* The server closed before the end; recv may raise if it died.            *)
LeerCortada(o) ==
  /\ EnOyente(o, "lee") /\ ~Completa(Campos(Flujo(o))) /\ ~Indescifrable(Flujo(o)) /\ ent[oy[o].e].cerrado
  /\ \/ Oyente(o, [oy[o] EXCEPT !.pc = "colgado"])
     \/ servidor # "vivo" /\ Oyente(o, [oy[o] EXCEPT !.pc = "muerto"])
  /\ UNCHANGED ent

oyente(o) == Mirar(o) \/ Aceptar(o) \/ LeerEntrega(o) \/ LeerRara(o) \/ LeerCortada(o)

-----------------------------------------------------------------------------
Init ==
  /\ ventana = "quieta" /\ n = 0 /\ con_alias = FALSE /\ corriendo = FALSE
  /\ con = [i \in 1..MaxPet |-> Libre] /\ oy = [o \in Oyentes |-> OyenteLibre] /\ ent = <<>>
  /\ servidor = "vivo" /\ fuera = FALSE /\ fallos = 0

(* What is under way.                                                      *)
Sigue ==
  \/ ventana_sigue
  \/ \E i \in 1..MaxPet : hilo(i)
  \/ \E e \in 1..MaxEnt : EscribirEntrega(e) \/ EscribirEnVano(e)
  \/ \E o \in Oyentes : oyente(o)

Next ==
  \/ Pulsar \/ PulsarSend \/ PulsarConnect \/ SinServicioWeb \/ Salir \/ Matar
  \/ CaerServidor \/ Entregar \/ Sigue

Spec == Init /\ [][Next]_vars

(* Some call under way goes on, while there is one that can.  This is weak *)
(* fairness of each thread too: what is under way at any moment is finite. *)
(* Nobody has to press a button, nothing has to fail, no text has to come. *)
Equidad == WF_vars(Sigue)
FairSpec == Spec /\ Equidad

-----------------------------------------------------------------------------
(* The variables have values of their kind; what is left to send and what  *)
(* has been read belong to a request.                                      *)
TypeOK ==
  /\ ventana \in {"quieta", "envia", "espera", "colgada", "acabada"}
  /\ n \in 0..MaxPet /\ {con_alias, corriendo, fuera} \subseteq BOOLEAN /\ fallos \in 0..MaxFallos
  /\ servidor \in {"vivo", "exit(-1)", "SIGPIPE", "fallo"}
  /\ \A i \in 1..MaxPet :
       /\ con[i].pc \in Pcs /\ (i > n => con[i] = Libre)
       /\ Len(con[i].leidos) <= 4
       /\ con[i].pc \in {"escribe", "fin"} <=> con[i].resp # Nada
       /\ con[i].pc = "fin" => con[i].escribe = <<>> /\ con[i].cerrada
  /\ \A o \in Oyentes :
       oy[o].pc \in PcsOyente /\ ToSet(oy[o].cola) \subseteq DOMAIN ent
  /\ \A e \in DOMAIN ent : ent[e].cerrado \/ servidor = "vivo"

(* The fields of request i that left the client whole.                     *)
Mandado(i, j) == j + Len(con[i].falta) <= Len(con[i].pet)

(* The server acts on the fields the user gave, each cut to its buffer, in *)
(* their places, whatever the segments they came in (server.c:113-204).    *)
PeticionFiel ==
  \A i \in 1..MaxPet : \A j \in DOMAIN con[i].leidos :
    Mandado(i, j) => con[i].leidos[j] = Recorta(con[i].pet[j])

(* The server exits for an unknown operation only if a client went before  *)
(* its code was through (server.c:347-348).                                *)
SoloCaeSiCortan == servidor = "exit(-1)" => \E i \in 1..MaxPet : con[i].cortada /\ con[i].leidos = <<>> /\ ~Mandado(i, 1)

(* What the window shows is all of what the server answered; only the id   *)
(* may be a zero, if the server ended before it wrote it (client.py:323).  *)
RespuestaFiel ==
  \A i \in 1..MaxPet : con[i].visto # Nada =>
    /\ con[i].visto.campos = con[i].resp.campos
    /\ con[i].visto.id = con[i].resp.id \/ (servidor # "vivo" /\ con[i].visto.id = CERO)

(* A listener shows whole texts, each once and in the order in which they  *)
(* connected, whatever became of the server (client.py:426-442).           *)
SoloEnteras ==
  \A o \in Oyentes : \A k \in DOMAIN oy[o].mostrados :
    LET m == oy[o].mostrados[k]
    IN  /\ ent[m.e].o = o /\ m.campos = ent[m.e].campos
        /\ \A l \in 1..(k - 1) : oy[o].mostrados[l].e < m.e

(* After DISCONNECT has been answered OK a listener shows one text more,   *)
(* at most, until the user connects again (client.py:258, 423).            *)
UnaTrasDesconectar == \A o \in Oyentes : oy[o].tras <= 1

(* The window always gets back to its buttons, or ends, unless the server  *)
(* has ended or could create no thread for the request: no other answer is *)
(* waited for in vain (client.py:455-464, server.c:388, 466).              *)
SinHilo         == n > 0 /\ con[n].pc = "sin_hilo"
VentanaContesta == []<>(ventana \in {"quieta", "acabada"} \/ servidor # "vivo" \/ SinHilo)

(* What can keep a listener from showing a text that was sent to it whole: *)
(* DISCONNECT, the end of the server, and the end of its thread, which is  *)
(* killed with its process or by a text that it cannot decode.             *)
Excusa(o) == oy[o].dejado \/ oy[o].pc = "muerto" \/ servidor # "vivo"

(* Any other is shown in the end (client.py:423-442).                      *)
Mostrada(e) == \E m \in ToSet(oy[ent[e].o].mostrados) : m.e = e
SeMuestra   == []<>(\A e \in DOMAIN ent : ent[e].entera => Mostrada(e) \/ Excusa(ent[e].o))
=============================================================================
