-------------------------- MODULE ServidorEnSerie --------------------------
(***************************************************************************)
(* The server, serving one request at a time in a single run of the        *)
(* process, against Mensajeria: the mapping of its files and of the batch  *)
(* in the hands of its thread to sessions and queues.                      *)
(***************************************************************************)
EXTENDS Servidor

CONSTANTS SinAlta, SinSesion

ASSUME SesionesAparte == SinAlta \notin Dirs /\ SinSesion \notin Dirs /\ SinAlta # SinSesion

Sesion(a) == IF ~Completo(a) THEN SinAlta
             ELSE IF perfiles[a].status = Conectado THEN <<perfiles[a].IP, perfiles[a].port>>
             ELSE SinSesion

(* Only the sender and the text of a message are seen by the abstract      *)
(* specification.                                                          *)
Vistos(lote) == [i \in DOMAIN lote |-> [remitente |-> lote[i].remitente, mensaje |-> lote[i].mensaje]]

(* Once the mailbox is emptied, the batch of the thread that emptied it    *)
(* comes before what the mailbox holds.                                    *)
EnMano(a) == {h \in Hilos : pc[h] \in {"resolver", "conectar", "entregar"} /\ Destino(h) = a}
Cola(a) ==
  IF ~Completo(a) THEN <<>>
  ELSE (IF EnMano(a) = {} THEN <<>> ELSE Vistos(loc[CHOOSE h \in EnMano(a) : TRUE].lote))
         \o (IF mensajes[a] = NoHay THEN <<>> ELSE Vistos(mensajes[a]))

EsTexto(r) == r.tipo = "SEND_MESSAGE"

M == INSTANCE Mensajeria WITH
       Textos <- 1..MaxPeticiones,
       sesion <- [a \in Alias |-> Sesion(a)],
       cola <- [a \in Alias |-> Cola(a)],
       entregados <- [d \in Dirs |-> Vistos(SelectSeq(recibidos[d], EsTexto))],
       oyentes <- escuchando

(* Served one at a time, the requests have the effect README.md:15-19      *)
(* describes but for two things: who sends need not be connected (nothing  *)
(* at gestiones.c:303-308 looks whether he is), and what a session whose   *)
(* client has died was to be given may be lost (server.c:63-66).           *)
ImplementaConSalvedades == M!SpecConSalvedades

(* README.md:17, "In order for an user to receive and send messages, it    *)
(* must be connected to the system".                                       *)
ImplementaMensajeria == M!Spec
=============================================================================
