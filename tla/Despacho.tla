------------------------------ MODULE Despacho ------------------------------
(***************************************************************************)
(* How main hands each accepted connection to a thread of its own          *)
(* (server.c:458-475 and 223-229).  The threads get a pointer to main's    *)
(* variable sd_client; main waits for the new thread to copy it before it  *)
(* accepts, and overwrites it, again.  Connections, the files and sockets  *)
(* a request has open while it is served, and those it never closes take   *)
(* descriptors, of which there are MaxFD.                                  *)
(***************************************************************************)
EXTENDS Integers, FiniteSets

CONSTANTS
  Hilos,          \* threads the system can give: pthread_create fails beyond
  Main, Nadie,    \* the main thread; the owner of a free mutex
  FallosES,       \* TRUE: accept and pthread_create may fail
  MaxFD,          \* descriptors there are for all this
  Uso,            \* files and sockets a request may have open at one time
  Fugas,          \* how many of them it may leave open: at most 3
  MaxConexiones,  \* bound: connections clients open
  MaxEspurios     \* bound: spurious wake-ups

ASSUME HilosAparte ==
  /\ Main \notin Hilos /\ Nadie \notin Hilos /\ Main # Nadie
  /\ FallosES \in BOOLEAN /\ MaxConexiones \in Nat /\ MaxEspurios \in Nat
  /\ MaxFD \in Nat /\ Uso \in Nat /\ Fugas \in Nat /\ IsFiniteSet(Hilos)

VARIABLES
  sd_client,           \* main's variable: the connection accepted last
  mensaje_no_copiado,
  mutex_mensaje,       \* the owner of the mutex
  pcMain, pc,          \* next step of main and of each thread
  sd,                  \* each thread's own copy of the descriptor
  para,                \* history: the connection each thread was created for
  llegadas,            \* connections accepted so far; they number themselves
  abiertas,            \* connections main has accepted and nobody has closed
  hablado,             \* connections whose client has sent a request, or closed
  usa,                 \* files and sockets that each thread has open
  fugas,               \* files and sockets that requests left open
  sin_hilo,            \* history: connections whose pthread_create failed
  espurios             \* spurious wake-ups so far
copia == <<sd_client, mensaje_no_copiado, mutex_mensaje, sd, para>>
fds   == <<abiertas, hablado, usa, fugas, sin_hilo>>
vars  == <<copia, fds, pcMain, pc, llegadas, espurios>>

PcsMain  == {"accept", "crear", "lock", "while", "wait", "despierta", "reset", "fin", "agotado"}
PcsHilo  == {"libre", "lock", "copiar", "unlock", "lee", "sirve"}

-----------------------------------------------------------------------------
(* One pair for each file and socket of a request in service.              *)
Ficheros == {f \in Hilos \X (1..Uso) : f[2] <= usa[f[1]]}

EnUso == Cardinality(abiertas) + Cardinality(Ficheros) + fugas

(* accept; a failure ends main, and the process with it.                   *)
Aceptar ==
  /\ pcMain = "accept" /\ llegadas < MaxConexiones
  /\ \/ /\ EnUso < MaxFD
        /\ llegadas' = llegadas + 1
        /\ sd_client' = llegadas + 1
        /\ abiertas' = abiertas \cup {llegadas + 1}
        /\ pcMain' = "crear"
     \/ /\ \/ EnUso >= MaxFD /\ pcMain' = "agotado"
           \/ FallosES /\ pcMain' = "fin"
        /\ UNCHANGED <<sd_client, llegadas, abiertas>>
  /\ UNCHANGED <<mensaje_no_copiado, mutex_mensaje, pc, sd, para, espurios, hablado, usa, fugas, sin_hilo>>

Crear(sig) ==
  /\ pcMain = "crear"
  /\ \/ \E h \in Hilos :
          /\ pc[h] = "libre"
          /\ pc' = [pc EXCEPT ![h] = "lock"]
          /\ para' = [para EXCEPT ![h] = sd_client]
          /\ pcMain' = sig
          /\ UNCHANGED sin_hilo
     \/ /\ FallosES \/ \A h \in Hilos : pc[h] # "libre"
        /\ pcMain' = "accept"
        /\ sin_hilo' = sin_hilo \cup {sd_client}
        /\ UNCHANGED <<pc, para>>
  /\ UNCHANGED <<sd_client, mensaje_no_copiado, mutex_mensaje, sd, llegadas, espurios, abiertas, hablado, usa, fugas>>

(* Mutant: main does not wait for the copy.                                *)
CrearHiloSinEsperar == Crear("accept")

(* pthread_create; after a failure main accepts again, with the connection *)
(* still open and nobody to serve it.                                      *)
CrearHilo == Crear("lock")

MainLock ==
  /\ pcMain = "lock" /\ mutex_mensaje = Nadie
  /\ mutex_mensaje' = Main
  /\ pcMain' = "while"
  /\ UNCHANGED <<sd_client, mensaje_no_copiado, pc, sd, para, llegadas, espurios, fds>>

Espera(duenno) ==
  /\ pcMain = "while"
  /\ \/ mensaje_no_copiado /\ mutex_mensaje' = duenno /\ pcMain' = "wait"
     \/ ~mensaje_no_copiado /\ UNCHANGED mutex_mensaje /\ pcMain' = "reset"
  /\ UNCHANGED <<sd_client, mensaje_no_copiado, pc, sd, para, llegadas, espurios, fds>>

(* Mutant: main waits with the mutex in its hands.                         *)
MainWhileReteniendo == Espera(Main)

(* pthread_cond_wait gives the mutex up.                                   *)
MainWhile == Espera(Nadie)

(* A wait may end with no signal.                                          *)
Espurio ==
  /\ pcMain = "wait" /\ espurios < MaxEspurios
  /\ espurios' = espurios + 1
  /\ pcMain' = "despierta"
  /\ UNCHANGED <<sd_client, mensaje_no_copiado, mutex_mensaje, pc, sd, para, llegadas, fds>>

MainRecupera(sig) ==
  /\ pcMain = "despierta" /\ mutex_mensaje = Nadie
  /\ mutex_mensaje' = Main
  /\ pcMain' = sig
  /\ UNCHANGED <<sd_client, mensaje_no_copiado, pc, sd, para, llegadas, espurios, fds>>

(* Mutant: an if in place of the while.                                    *)
MainDespiertaSinMirar == MainRecupera("reset")

MainDespierta == MainRecupera("while")

MainReset ==
  /\ pcMain = "reset"
  /\ mensaje_no_copiado' = TRUE
  /\ mutex_mensaje' = Nadie
  /\ pcMain' = "accept"
  /\ UNCHANGED <<sd_client, pc, sd, para, llegadas, espurios, fds>>

main == Aceptar \/ CrearHilo \/ MainLock \/ MainWhile \/ MainDespierta \/ MainReset

-----------------------------------------------------------------------------
(* When main returns the process ends and no thread goes on.               *)
En(h, etiqueta) == pcMain \notin {"fin", "agotado"} /\ pc[h] = etiqueta

HiloLock(h) ==
  /\ En(h, "lock") /\ mutex_mensaje = Nadie
  /\ mutex_mensaje' = h
  /\ pc' = [pc EXCEPT ![h] = "copiar"]
  /\ UNCHANGED <<sd_client, mensaje_no_copiado, pcMain, sd, para, llegadas, espurios, fds>>

Copia(h, sigMain) ==
  /\ En(h, "copiar")
  /\ sd' = [sd EXCEPT ![h] = sd_client]
  /\ mensaje_no_copiado' = FALSE
  /\ pcMain' = sigMain
  /\ pc' = [pc EXCEPT ![h] = "unlock"]
  /\ UNCHANGED <<sd_client, mutex_mensaje, para, llegadas, espurios, fds>>

(* Mutant: the signal is missing.                                          *)
HiloCopiaSinSenal(h) == Copia(h, pcMain)

(* The copy, the flag and the signal, which wakes main if it is waiting.   *)
HiloCopia(h) == Copia(h, IF pcMain = "wait" THEN "despierta" ELSE pcMain)

HiloUnlock(h) ==
  /\ En(h, "unlock")
  /\ mutex_mensaje' = Nadie
  /\ pc' = [pc EXCEPT ![h] = "lee"]
  /\ UNCHANGED <<sd_client, mensaje_no_copiado, pcMain, sd, para, llegadas, espurios, fds>>

(* The client sends its request, or closes: when it likes, if ever.        *)
Hablar(c) ==
  /\ pcMain \notin {"fin", "agotado"} /\ c \in abiertas \ hablado
  /\ hablado' = hablado \cup {c}
  /\ UNCHANGED <<copia, pcMain, pc, llegadas, espurios, abiertas, usa, fugas, sin_hilo>>

(* readLine has no timeout: the thread waits for its client.               *)
HiloLee(h) ==
  /\ En(h, "lee") /\ sd[h] \in hablado
  /\ pc' = [pc EXCEPT ![h] = "sirve"]
  /\ UNCHANGED <<copia, pcMain, llegadas, espurios, fds>>

(* While it serves the request the thread opens and closes files and       *)
(* sockets (Servidor and UsuariosConectados say which).                    *)
HiloAbre(h) ==
  /\ En(h, "sirve") /\ usa[h] < Uso /\ EnUso < MaxFD
  /\ usa' = [usa EXCEPT ![h] = @ + 1]
  /\ UNCHANGED <<copia, pcMain, pc, llegadas, espurios, abiertas, hablado, fugas, sin_hilo>>

HiloCierra(h) ==
  /\ En(h, "sirve") /\ usa[h] > 0
  /\ usa' = [usa EXCEPT ![h] = @ - 1]
  /\ UNCHANGED <<copia, pcMain, pc, llegadas, espurios, abiertas, hablado, fugas, sin_hilo>>

Termina(h, quedan) ==
  /\ En(h, "sirve")
  /\ pc' = [pc EXCEPT ![h] = "libre"]
  /\ abiertas' = quedan
  /\ \E k \in 0..Fugas : k <= usa[h] /\ fugas' = fugas + k
  /\ usa' = [usa EXCEPT ![h] = 0]
  /\ UNCHANGED <<copia, pcMain, llegadas, espurios, hablado, sin_hilo>>

(* Mutant: the thread ends without close.                                  *)
HiloTerminaSinCerrar(h) == Termina(h, abiertas)

(* The request has been served: its connection is closed, but not the      *)
(* files that is_connected, and connect, disconnect and                    *)
(* connected_users_gestiones where they return early, leave open.          *)
HiloTermina(h) == Termina(h, abiertas \ {sd[h]})

entrega(h) == HiloLock(h) \/ HiloCopia(h) \/ HiloUnlock(h) \/ HiloLee(h)
hilo(h)    == entrega(h) \/ HiloAbre(h) \/ HiloCierra(h) \/ HiloTermina(h)

Init ==
  /\ sd_client = 0 /\ mensaje_no_copiado = TRUE /\ mutex_mensaje = Nadie
  /\ pcMain = "accept" /\ pc = [h \in Hilos |-> "libre"]
  /\ sd = [h \in Hilos |-> 0] /\ para = [h \in Hilos |-> 0] /\ llegadas = 0 /\ espurios = 0
  /\ abiertas = {} /\ hablado = {} /\ usa = [h \in Hilos |-> 0] /\ fugas = 0 /\ sin_hilo = {}

Next ==
  \/ main \/ Espurio
  \/ \E h \in Hilos : hilo(h)
  \/ \E c \in abiertas : Hablar(c)

Spec == Init /\ [][Next]_vars

(* The scheduler runs main and every thread that can take a step, and a    *)
(* request that has been read comes to its end, as TodaPeticionTermina of  *)
(* Servidor says.  Nobody has to connect or to say anything once connected *)
(* and nothing is assumed of spurious wake-ups, except that there are      *)
(* finitely many.                                                          *)
FairSpec ==
  /\ Spec /\ WF_vars(main /\ pcMain # "accept")
  /\ \A h \in Hilos : WF_vars(entrega(h)) /\ WF_vars(HiloTermina(h))

-----------------------------------------------------------------------------
(* Main owns the mutex, or a thread does, exactly at the steps between its *)
(* lock and its unlock.                                                    *)
Mutex ==
  /\ mutex_mensaje = Main <=> pcMain \in {"while", "reset"}
  /\ \A h \in Hilos : mutex_mensaje = h <=> pc[h] \in {"copiar", "unlock"}

(* Every variable holds a value of its kind, and the mutex has the owner   *)
(* that the code of main and of the threads says (server.c:223-229,        *)
(* 468-473).                                                               *)
TypeOK ==
  /\ sd_client \in Nat /\ mensaje_no_copiado \in BOOLEAN
  /\ mutex_mensaje \in Hilos \cup {Main, Nadie}
  /\ pcMain \in PcsMain /\ pc \in [Hilos -> PcsHilo]
  /\ sd \in [Hilos -> Nat] /\ para \in [Hilos -> Nat] /\ llegadas \in Nat /\ espurios \in Nat
  /\ abiertas \subseteq Nat /\ hablado \subseteq Nat /\ sin_hilo \subseteq abiertas
  /\ usa \in [Hilos -> 0..Uso] /\ fugas \in Nat
  /\ Mutex

Copiado(h) == pc[h] \in {"unlock", "lee", "sirve"}

(* Every thread serves the connection it was created for, although all of  *)
(* them read the descriptor from the same variable of main.                *)
SuConexion == \A h \in Hilos : Copiado(h) => sd[h] = para[h]

(* No two threads serve the same connection.                               *)
UnaPorHilo == \A h, g \in Hilos : Copiado(h) /\ Copiado(g) /\ h # g => sd[h] # sd[g]

(* Main is not left waiting for a signal given before it waited: it always *)
(* goes back to accept connections (server.c:458-475), whatever the        *)
(* clients do, unless the process ends.                                    *)
Acabado == pcMain \in {"fin", "agotado"}
VuelveAAceptar == pcMain # "accept" ~> pcMain = "accept" \/ Acabado

(* Main runs out of descriptors (server.c:460-464) only when the requests  *)
(* being served, the files that earlier ones left open (gestiones.c:258)   *)
(* and the connections that got no thread (server.c:466) take them all:    *)
(* what was served and closed weighs nothing, however much it was.         *)
Vivos == {h \in Hilos : pc[h] # "libre"}
SeAgotaPorCarga ==
  pcMain = "agotado" => MaxFD <= Cardinality(sin_hilo) + fugas + (1 + Uso) * Cardinality(Vivos)

(* A connection whose client has spoken is closed in the end, which is     *)
(* what that client waits for (client.py:169), unless its pthread_create   *)
(* failed or the process ends; a client that stays silent delays no other. *)
SeCierra ==
  \A c \in 1..MaxConexiones :
    c \in abiertas /\ c \in hablado ~> c \notin abiertas \/ c \in sin_hilo \/ Acabado
=============================================================================
