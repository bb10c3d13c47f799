------------------------------ MODULE Servidor ------------------------------
(***************************************************************************)
(* The worker threads of the server (tratar_mensaje in server.c) and the   *)
(* operations they run on the data base (gestiones.c).  No lock protects   *)
(* the files: a step of a thread is one access to a file, to one of the    *)
(* two static buffers shared by all threads, or to a socket, and the steps *)
(* of different threads interleave freely.                                 *)
(***************************************************************************)
EXTENDS Almacen, FiniteSets

CONSTANTS
  Hilos,           \* worker threads alive at the same time
  Peticiones,      \* the requests clients may make
  Registrados,     \* users an earlier run of the server left registered
  SinPeticion,     \* the request of an idle thread
  Cerrado,         \* the open file of a thread that has none
  Disciplina,      \* TRUE: one client application per alias
  FallosES,        \* TRUE: fopen and socket may fail (no descriptor left)
  PerfilesBasura,  \* what an uninitialised struct perfil may hold
  MensajesBasura,  \* what an uninitialised struct mensaje may hold
  MaxPeticiones,   \* bound: requests in a behaviour
  MaxArranques,    \* bound: restarts of the server
  MaxMuertes       \* bound: deaths of client processes

Ops  == {"REGISTER", "UNREGISTER", "CONNECT", "DISCONNECT", "SEND", "INVALIDA"}
Dirs == IPs \X Puertos

(* A request as recibir_msj_socket reads it: dest matters to SEND only, IP *)
(* (where the connection came from) and port to CONNECT only.              *)
Peticion == [op : Ops, alias : Alias, dest : Alias, IP : IPs, port : Puertos]

ASSUME Parametros ==
  /\ Peticiones \subseteq Peticion
  /\ SinPeticion \notin Peticion
  /\ Registrados \subseteq Alias
  /\ Disciplina \in BOOLEAN /\ FallosES \in BOOLEAN
  /\ PerfilesBasura \subseteq Perfil /\ MensajesBasura \subseteq Mensaje
  /\ MaxPeticiones \in Nat /\ MaxArranques \in Nat /\ MaxMuertes \in Nat
  /\ IPs # {} /\ PerfilesBasura # {} /\ MensajesBasura # {}

Ficheros == {"perfil", "mensajes"} \X Alias
ASSUME CerradoAparte == Cerrado \notin Ficheros

VARIABLES
  \* the data base
  perfiles,        \* DDBB/perfiles/<alias>.dat
  mensajes,        \* DDBB/mensajes/<alias>_mensajes.dat
  \* memory all threads share
  address_thread,  \* server.c's global socket address (its IP)
  hostent,         \* the static result of gethostbyname (its IP)
  estado,          \* "activo", or what ended the server process
  \* the threads
  pc,              \* next step of each thread
  pet,             \* the request each thread serves
  abierto,         \* the file each thread has open for writing
  loc,             \* local variables of each thread
  \* the clients
  escuchando,      \* addresses where a client listens
  recibidos,       \* what each address has been sent, in order
  \* history and bounds
  enviados,        \* the SEND requests made so far
  aceptados,       \* the SEND requests answered 0
  bajas,           \* users an UNREGISTER has begun to remove
  n_pet, arranques, muertes

disco      == <<perfiles, mensajes>>
estaticas  == <<address_thread, hostent>>
hilos      == <<pc, pet, abierto, loc>>
clientes   == <<escuchando, recibidos>>
historia   == <<enviados, aceptados, bajas>>
cotas      == <<n_pet, arranques, muertes>>
vars       == <<disco, estaticas, estado, hilos, clientes, historia, cotas>>

-----------------------------------------------------------------------------
(* The states of tratar_mensaje, in the order of the code.                 *)
PcRegister   == {"reg_access", "reg_perfil", "reg_mensajes", "reg_solo_mensajes", "reg_escribir"}
PcUnregister == {"baja_access_perfil", "baja_access_mensajes", "baja_perfil", "baja_mensajes"}
PcConnect    == {"con_ntop", "con_access", "con_leer", "con_escribir"}
PcDisconnect == {"des_access", "des_leer", "des_escribir"}
PcSend       == {"env_remitente", "env_mensajes", "env_perfil", "env_leer", "env_escribir",
                 "env_abrir", "env_anexar"}
PcEntrega    == {"is_connected", "num", "contar", "ids", "remitentes", "mensajes", "vaciar",
                 "resolver", "conectar", "entregar"}
PcAck        == {"ack_is_connected", "ack_resolver", "ack_conectar", "ack_id_access",
                 "ack_id_leer", "ack_enviar"}
PcFin        == {"responder", "id_access", "id_leer", "cerrar", "op_invalida"}
Pcs == {"libre"} \cup PcRegister \cup PcUnregister \cup PcConnect \cup PcDisconnect
         \cup PcSend \cup PcEntrega \cup PcAck \cup PcFin

(* Local variables: resultado, the profile struct read from disk, the      *)
(* file offset, IP and port from is_connected, contador, the batch being   *)
(* extracted or sent, the address a socket is connected to, the id given   *)
(* to the new message, and the reply: its code and the number that         *)
(* obtener_ultimo_id gave last.                                            *)
Local == [uid : Nat, res : 0..3, reg : Perfil, pos : Nat, IP : IPs \cup {SinIP},
          port : Puertos \cup {SinPuerto}, n : Nat, lote : Seq(Mensaje),
          dir : (IPs \cup {SinIP}) \X (Puertos \cup {SinPuerto}), id : Int,
          codigo : 0..3, ultimo : Int]

LocalInicial ==
  [uid |-> 0, res |-> 0, reg |-> PerfilNuevo, pos |-> 0, IP |-> SinIP, port |-> SinPuerto,
   n |-> 0, lote |-> <<>>, dir |-> <<SinIP, SinPuerto>>, id |-> 0, codigo |-> 0, ultimo |-> 0]

Entrada(op) == CASE op = "REGISTER"   -> "reg_access"
                 [] op = "UNREGISTER" -> "baja_access_perfil"
                 [] op = "CONNECT"    -> "con_ntop"
                 [] op = "DISCONNECT" -> "des_access"
                 [] op = "SEND"       -> "env_remitente"
                 [] OTHER             -> "op_invalida"

alias(h) == pet[h].alias
dest(h)  == pet[h].dest

(* Whose pending messages a CONNECT or a SEND goes on to deliver.          *)
Destino(h) == IF pet[h].op = "SEND" THEN dest(h) ELSE alias(h)

En(h, etiqueta) == estado = "activo" /\ pc[h] = etiqueta

(* Thread h moves to step sig with local variables l.  Va also leaves      *)
(* everything outside the thread alone.                                    *)
Mueve(h, sig, l) == /\ pc' = [pc EXCEPT ![h] = sig]
                    /\ loc' = [loc EXCEPT ![h] = l]
Va(h, sig, l)    == /\ Mueve(h, sig, l)
                    /\ UNCHANGED <<disco, estaticas, estado, pet, abierto, clientes, historia, cotas>>
Sigue(h, sig)    == Va(h, sig, loc[h])
Devuelve(h, res, sig) == Va(h, sig, [loc[h] EXCEPT !.res = res])

(* The server process ends: its threads and its memory are gone, the files *)
(* stay as they are and the pointers stored in them dangle.                *)
Cae(causa) ==
  /\ estado' = causa
  /\ pc' = [h \in Hilos |-> "libre"]
  /\ pet' = [h \in Hilos |-> SinPeticion]
  /\ abierto' = [h \in Hilos |-> Cerrado]
  /\ loc' = [h \in Hilos |-> LocalInicial]
  /\ perfiles' = SinProceso(perfiles)
  /\ UNCHANGED <<mensajes, estaticas, clientes, historia, cotas>>

(* What fread yields on a profile file that fopen has opened.              *)
Lecturas(a) == IF perfiles[a] = NoHay THEN {}
               ELSE IF perfiles[a] = Vacio THEN PerfilesBasura
               ELSE {perfiles[a]}

(* A pointer to an IP string is dereferenced: dangling, it may yield no    *)
(* address at all, or stop the process.                                    *)
IPde(reg) == IF reg.vivos THEN reg.IP ELSE SinIP

-----------------------------------------------------------------------------
(* Users with a request being served.                                      *)
EnCurso == {alias(g) : g \in {g \in Hilos : pet[g] # SinPeticion}}

(* recibir_msj_socket: the thread reads one request.  The client of a      *)
(* CONNECT has opened its listening socket before it asks.                 *)
Recibir(h) ==
  /\ En(h, "libre")
  /\ n_pet < MaxPeticiones
  /\ n_pet' = n_pet + 1
  /\ \E p \in Peticiones :
       /\ Disciplina => p.alias \notin EnCurso
       /\ Mueve(h, Entrada(p.op), [LocalInicial EXCEPT !.uid = n_pet + 1])
       /\ pet' = [pet EXCEPT ![h] = p]
       /\ address_thread' = IF p.op = "CONNECT" THEN p.IP ELSE address_thread
       /\ escuchando' = IF p.op = "CONNECT" THEN escuchando \cup {<<p.IP, p.port>>} ELSE escuchando
       /\ enviados' = IF p.op = "SEND"
                      THEN enviados \cup {[remitente |-> p.alias, dest |-> p.dest, mensaje |-> n_pet + 1]}
                      ELSE enviados
  /\ UNCHANGED <<disco, hostent, estado, abierto, recibidos, aceptados, bajas, arranques, muertes>>

(* An operation code the server does not know ends the whole process.      *)
OpInvalida(h) == En(h, "op_invalida") /\ Cae("op_invalida")

-----------------------------------------------------------------------------
(* access(F_OK) on a file that hay says is there or not.                   *)
Access(h, etiqueta, hay, si, no) ==
  /\ En(h, etiqueta)
  /\ \/ hay /\ Sigue(h, si)
     \/ ~hay /\ Devuelve(h, 1, no)

(* register_gestiones.  Both files are created before either result of     *)
(* fopen is looked at, and the profile stays empty until it is closed.     *)
RegAccess(h) ==
  /\ En(h, "reg_access")
  /\ \/ perfiles[alias(h)] # NoHay /\ Devuelve(h, 1, "responder")
     \/ perfiles[alias(h)] = NoHay /\ Sigue(h, "reg_perfil")

CreaPerfil(h, sig) ==
  /\ perfiles' = [perfiles EXCEPT ![alias(h)] = Vacio]
  /\ abierto' = [abierto EXCEPT ![h] = <<"perfil", alias(h)>>]
  /\ Mueve(h, sig, loc[h])
  /\ UNCHANGED <<mensajes, estaticas, estado, pet, clientes, historia, cotas>>

CreaMensajes(h, sig, bien, mal) ==
  \/ /\ mensajes' = [mensajes EXCEPT ![alias(h)] = <<>>]
     /\ Mueve(h, sig, [loc[h] EXCEPT !.res = bien])
     /\ UNCHANGED <<perfiles, estaticas, estado, pet, abierto, clientes, historia, cotas>>
  \/ FallosES /\ Devuelve(h, mal, sig)

(* Mutants: the mailbox is not created; its fopen is not looked at.        *)
RegPerfilSolo(h)       == En(h, "reg_perfil") /\ CreaPerfil(h, "reg_escribir")
RegMensajesSinMirar(h) == En(h, "reg_mensajes") /\ CreaMensajes(h, "reg_escribir", 0, 0)

RegPerfil(h) ==
  /\ En(h, "reg_perfil")
  /\ \/ CreaPerfil(h, "reg_mensajes")
     \/ FallosES /\ Sigue(h, "reg_solo_mensajes")

RegMensajes(h) == En(h, "reg_mensajes") /\ CreaMensajes(h, "reg_escribir", 0, 2)

(* The profile could not be created: the mailbox is, all the same.         *)
RegSoloMensajes(h) == En(h, "reg_solo_mensajes") /\ CreaMensajes(h, "responder", 2, 2)

(* A write through a handle reaches the directory's file only if that file *)
(* has not been removed since it was opened.                               *)
EscribePerfil(h, a, p) ==
  /\ perfiles' = IF abierto[h] = <<"perfil", a>> THEN [perfiles EXCEPT ![a] = p] ELSE perfiles
  /\ abierto' = [abierto EXCEPT ![h] = Cerrado]
  /\ UNCHANGED <<mensajes, estaticas, estado, pet, clientes, historia, cotas>>

RegEscribir(h) ==
  /\ En(h, "reg_escribir")
  /\ EscribePerfil(h, alias(h), PerfilNuevo)
  /\ Mueve(h, "responder", loc[h])

register_gestiones(h) ==
  RegAccess(h) \/ RegPerfil(h) \/ RegMensajes(h) \/ RegSoloMensajes(h) \/ RegEscribir(h)

-----------------------------------------------------------------------------
(* unregister_gestiones.  A removed file that some thread still has open   *)
(* lives on without a name: what is written to it is lost.                 *)
Desenlaza(f) == abierto' = [g \in Hilos |-> IF abierto[g] = f THEN Cerrado ELSE abierto[g]]

BajaAccessPerfil(h) ==
  Access(h, "baja_access_perfil", perfiles[alias(h)] # NoHay, "baja_access_mensajes", "responder")
BajaAccessMensajes(h) ==
  Access(h, "baja_access_mensajes", mensajes[alias(h)] # NoHay, "baja_perfil", "responder")

BajaPerfil(h) ==
  /\ En(h, "baja_perfil")
  /\ \/ perfiles[alias(h)] = NoHay /\ Devuelve(h, 2, "responder")
     \/ /\ perfiles[alias(h)] # NoHay
        /\ perfiles' = [perfiles EXCEPT ![alias(h)] = NoHay]
        /\ Desenlaza(<<"perfil", alias(h)>>)
        /\ bajas' = bajas \cup {alias(h)}
        /\ Mueve(h, "baja_mensajes", loc[h])
        /\ UNCHANGED <<mensajes, estaticas, estado, pet, clientes, enviados, aceptados, cotas>>

BajaMensajes(h) ==
  /\ En(h, "baja_mensajes")
  /\ \/ mensajes[alias(h)] = NoHay /\ Devuelve(h, 2, "responder")
     \/ /\ mensajes[alias(h)] # NoHay
        /\ mensajes' = [mensajes EXCEPT ![alias(h)] = NoHay]
        /\ Desenlaza(<<"mensajes", alias(h)>>)
        /\ Mueve(h, "responder", [loc[h] EXCEPT !.res = 0])
        /\ UNCHANGED <<perfiles, estaticas, estado, pet, clientes, historia, cotas>>

unregister_gestiones(h) ==
  BajaAccessPerfil(h) \/ BajaAccessMensajes(h) \/ BajaPerfil(h) \/ BajaMensajes(h)

-----------------------------------------------------------------------------
(* connect_gestiones.  The peer's address goes through a global: it is     *)
(* written when the request arrives and read here.  Whatever the result,   *)
(* tratar_mensaje goes on to is_connected.                                 *)
TomaDireccion(h, IP) ==
  En(h, "con_ntop") /\ Va(h, "con_access", [loc[h] EXCEPT !.IP = IP, !.port = pet[h].port])

(* Mutant: the IP is left as it was.                                       *)
ConNtopSinIP(h) == TomaDireccion(h, loc[h].IP)

ConNtop(h) == TomaDireccion(h, address_thread)

ConAccess(h) == Access(h, "con_access", perfiles[alias(h)] # NoHay, "con_leer", "is_connected")

(* fopen and fread; the file is then held open until it is rewritten.      *)
AbrePerfil(h, a, sig, reg) ==
  /\ abierto' = [abierto EXCEPT ![h] = <<"perfil", a>>]
  /\ Mueve(h, sig, [loc[h] EXCEPT !.reg = reg])
  /\ UNCHANGED <<disco, estaticas, estado, pet, clientes, historia, cotas>>

ConLeer(h) ==
  /\ En(h, "con_leer")
  /\ \/ (perfiles[alias(h)] = NoHay \/ FallosES) /\ Devuelve(h, 3, "is_connected")
     \/ \E reg \in Lecturas(alias(h)) :
          \/ reg.status = Conectado /\ Devuelve(h, 2, "is_connected")
          \/ reg.status # Conectado /\ AbrePerfil(h, alias(h), "con_escribir", reg)

EscribeConexion(h, port, last_id, sig) ==
  /\ En(h, "con_escribir")
  /\ EscribePerfil(h, alias(h), [status |-> Conectado, IP |-> loc[h].IP, port |-> port,
                                 last_id |-> last_id, vivos |-> TRUE])
  /\ Mueve(h, sig, [loc[h] EXCEPT !.res = 0])

(* Mutants: a CONNECT that does not look for pending messages, one that    *)
(* forgets the message counter, one that keeps the port of the old profile.*)
ConEscribirSinMirar(h)  == EscribeConexion(h, loc[h].port, loc[h].reg.last_id, "responder")
ConEscribirSinId(h)     == EscribeConexion(h, loc[h].port, 0, "is_connected")
ConEscribirSinPuerto(h) == EscribeConexion(h, loc[h].reg.port, loc[h].reg.last_id, "is_connected")

ConEscribir(h) == EscribeConexion(h, loc[h].port, loc[h].reg.last_id, "is_connected")

connect_gestiones(h) == ConNtop(h) \/ ConAccess(h) \/ ConLeer(h) \/ ConEscribir(h)

-----------------------------------------------------------------------------
(* disconnect_gestiones                                                    *)
DesAccess(h) == Access(h, "des_access", perfiles[alias(h)] # NoHay, "des_leer", "responder")

DesLeer(h) ==
  /\ En(h, "des_leer")
  /\ \/ (perfiles[alias(h)] = NoHay \/ FallosES) /\ Devuelve(h, 3, "responder")
     \/ \E reg \in Lecturas(alias(h)) :
          \/ reg.status = Desconectado /\ Devuelve(h, 2, "responder")
          \/ reg.status # Desconectado /\ AbrePerfil(h, alias(h), "des_escribir", reg)

(* The request of a DISCONNECT carries neither IP nor port.                *)
DesEscribir(h) ==
  /\ En(h, "des_escribir")
  /\ EscribePerfil(h, alias(h), [PerfilNuevo EXCEPT !.last_id = loc[h].reg.last_id])
  /\ Mueve(h, "responder", [loc[h] EXCEPT !.res = 0])

disconnect_gestiones(h) == DesAccess(h) \/ DesLeer(h) \/ DesEscribir(h)

-----------------------------------------------------------------------------
(* send_to_server_gestiones.  The receiver's profile is read, its last_id  *)
(* raised and the whole struct written back; then the message is written   *)
(* at what was the end of the mailbox when it was opened.  The sender need *)
(* only have a mailbox.                                                    *)
EnvRemitente(h) ==
  Access(h, "env_remitente", mensajes[alias(h)] # NoHay, "env_mensajes", "is_connected")
EnvMensajes(h) == Access(h, "env_mensajes", mensajes[dest(h)] # NoHay, "env_perfil", "is_connected")
EnvPerfil(h)   == Access(h, "env_perfil", perfiles[dest(h)] # NoHay, "env_leer", "is_connected")

EnvLeer(h) ==
  /\ En(h, "env_leer")
  /\ \/ (perfiles[dest(h)] = NoHay \/ FallosES) /\ Devuelve(h, 2, "is_connected")
     \/ \E reg \in Lecturas(dest(h)) : AbrePerfil(h, dest(h), "env_escribir", reg)

EscribeContador(h, last_id) ==
  /\ En(h, "env_escribir")
  /\ EscribePerfil(h, dest(h), [loc[h].reg EXCEPT !.last_id = last_id])
  /\ Mueve(h, "env_abrir", [loc[h] EXCEPT !.id = loc[h].reg.last_id + 1])

(* Mutant: the message is numbered but the profile is written back as read.*)
EnvEscribirSinSubir(h) == EscribeContador(h, loc[h].reg.last_id)

EnvEscribir(h) == EscribeContador(h, loc[h].reg.last_id + 1)

EnvAbrir(h) ==
  /\ En(h, "env_abrir")
  /\ \/ (mensajes[dest(h)] = NoHay \/ FallosES) /\ Devuelve(h, 2, "is_connected")
     \/ /\ mensajes[dest(h)] # NoHay
        /\ abierto' = [abierto EXCEPT ![h] = <<"mensajes", dest(h)>>]
        /\ Mueve(h, "env_anexar", [loc[h] EXCEPT !.pos = Len(mensajes[dest(h)]) + 1])
        /\ UNCHANGED <<disco, estaticas, estado, pet, clientes, historia, cotas>>

EnvAnexar(h) ==
  /\ En(h, "env_anexar")
  /\ LET m == [id |-> loc[h].id, remitente |-> alias(h), mensaje |-> loc[h].uid]
     IN  mensajes' = IF abierto[h] = <<"mensajes", dest(h)>>
                     THEN [mensajes EXCEPT ![dest(h)] = EscribirEn(@, loc[h].pos, m)]
                     ELSE mensajes
  /\ abierto' = [abierto EXCEPT ![h] = Cerrado]
  /\ Mueve(h, "is_connected", [loc[h] EXCEPT !.res = 0])
  /\ UNCHANGED <<perfiles, estaticas, estado, pet, clientes, historia, cotas>>

send_to_server_gestiones(h) ==
  \/ EnvRemitente(h) \/ EnvMensajes(h) \/ EnvPerfil(h) \/ EnvLeer(h)
  \/ EnvEscribir(h) \/ EnvAbrir(h) \/ EnvAnexar(h)

-----------------------------------------------------------------------------
(* is_connected(a): the thread does sin if a is not connected, or goes on  *)
(* to sig with the address of a.                                           *)
is_connected(h, a, sin, sig, res) ==
  \/ (perfiles[a] = NoHay \/ FallosES) /\ sin
  \/ \E reg \in Lecturas(a) :
       \/ reg.status # Conectado /\ sin
       \/ /\ reg.status = Conectado
          /\ Va(h, sig, [loc[h] EXCEPT !.IP = IPde(reg), !.port = reg.port, !.res = res])
       \/ reg.status = Conectado /\ ~reg.vivos /\ Cae("SIGSEGV")

(* After both CONNECT and SEND the server looks whether the receiver is    *)
(* connected (server.c:253, 272).                                          *)
IsConnected(h) ==
  En(h, "is_connected") /\ is_connected(h, Destino(h), Sigue(h, "responder"), "num", loc[h].res)

(* fopen of a mailbox to read it: without the file the process exits.      *)
Lee(h, etiqueta, paso) ==
  /\ En(h, etiqueta)
  /\ \/ (mensajes[Destino(h)] = NoHay \/ FallosES) /\ Cae("exit(1)")
     \/ mensajes[Destino(h)] # NoHay /\ paso

(* The test for pending messages (server.c:254, 276).                      *)
NumMayorQue(h, k) ==
  \/ Len(mensajes[Destino(h)]) > k /\ Sigue(h, "contar")
  \/ Len(mensajes[Destino(h)]) <= k /\ Sigue(h, "responder")

(* Mutant: a single pending message is not enough.                         *)
NumMensajesMasDeUno(h) == Lee(h, "num", NumMayorQue(h, 1))

NumMensajesPendientes(h) == Lee(h, "num", NumMayorQue(h, 0))

(* envio_mensajes_pendientes counts again, then reads the mailbox once for *)
(* the ids, once for the senders and once for the texts, and empties it.   *)
ContarComo(h, n) ==
  Lee(h, "contar", Va(h, "ids", [loc[h] EXCEPT !.n = n, !.lote = [i \in 1..n |-> Hueco]]))

(* Mutant: the count is one short.                                         *)
ContarUnoMenos(h) == ContarComo(h, Len(mensajes[Destino(h)]) - 1)

Contar(h) == ContarComo(h, Len(mensajes[Destino(h)]))

Leidas(h) == {Leidos(mensajes[Destino(h)], loc[h].n, resto) : resto \in MensajesBasura}

(* fopen(..., "wb"): empties the mailbox, and creates it if it is not      *)
(* there.                                                                  *)
DejaBuzon(h, buzon, sig, l) ==
  /\ mensajes' = [mensajes EXCEPT ![Destino(h)] = buzon]
  /\ Mueve(h, sig, l)
  /\ UNCHANGED <<perfiles, estaticas, estado, pet, abierto, clientes, historia, cotas>>

ExtraerIDs(h) ==
  Lee(h, "ids", \E l \in Leidas(h) : Va(h, "remitentes", [loc[h] EXCEPT !.lote = ConIDs(@, l)]))

ExtraerRemitentes(h) ==
  Lee(h, "remitentes", \E l \in Leidas(h) : Va(h, "mensajes", [loc[h] EXCEPT !.lote = ConRemitentes(@, l)]))

ExtraerMensajes(h) ==
  Lee(h, "mensajes", \E l \in Leidas(h) : Va(h, "vaciar", [loc[h] EXCEPT !.lote = ConMensajes(@, l)]))

(* Mutants: the mailbox is removed, or left as it is.                      *)
VaciarBorrando(h) == En(h, "vaciar") /\ DejaBuzon(h, NoHay, "resolver", loc[h])
VaciarNada(h)     == En(h, "vaciar") /\ Sigue(h, "resolver")

(* A failure to open the file is passed to fclose as a null pointer.       *)
VaciarMensajes(h) ==
  /\ En(h, "vaciar")
  /\ \/ DejaBuzon(h, <<>>, "resolver", [loc[h] EXCEPT !.n = 0])
     \/ FallosES /\ Cae("SIGSEGV")

-----------------------------------------------------------------------------
(* envio_mensajes_pendientes, one connection per message.  The batch is no *)
(* longer on disk: what is not delivered is lost.  FinEnvio is the return, *)
(* whose value a SEND overwrites.                                          *)
FinEnvio(h, res) ==
  \/ pet[h].op = "SEND" /\ Va(h, "ack_is_connected", [loc[h] EXCEPT !.lote = <<>>])
  \/ pet[h].op # "SEND" /\ Va(h, "responder", [loc[h] EXCEPT !.lote = <<>>, !.res = res])

(* gethostbyname leaves its result in a static buffer.  It finds no host   *)
(* for a name that is none, and the null result is dereferenced.           *)
Resuelve(h, sig, l) ==
  \/ loc[h].IP = SinIP /\ Cae("SIGSEGV")
  \/ /\ loc[h].IP # SinIP
     /\ hostent' = loc[h].IP
     /\ Mueve(h, sig, l)
     /\ UNCHANGED <<disco, address_thread, estado, pet, abierto, clientes, historia, cotas>>

EnvioResolver(h) ==
  /\ En(h, "resolver")
  /\ \/ loc[h].lote = <<>> /\ FinEnvio(h, 0)
     \/ loc[h].lote # <<>> /\ FallosES /\ FinEnvio(h, 3)
     \/ loc[h].lote # <<>> /\ Resuelve(h, "conectar", loc[h])

(* connect goes to whatever address the static buffer holds by now.        *)
EnvioConectar(h) ==
  LET dir == <<hostent, loc[h].port>>
  IN  /\ En(h, "conectar")
      /\ \/ dir \notin escuchando /\ FinEnvio(h, 3)
         \/ dir \in escuchando /\ Va(h, "entregar", [loc[h] EXCEPT !.dir = dir])

(* The four fields of a SEND_MESSAGE are written to the socket.            *)
Transmite(h, texto, sig, l) ==
  /\ loc[h].dir \in escuchando
  /\ recibidos' = [recibidos EXCEPT ![loc[h].dir] = Append(@, texto)]
  /\ Mueve(h, sig, l)
  /\ UNCHANGED <<disco, estaticas, estado, pet, abierto, escuchando, historia, cotas>>

(* If the receiver died after the connection was made, the writes may all  *)
(* be accepted by the local kernel, one may fail, or one may raise SIGPIPE.*)
EnvioEntregar(h) ==
  LET resto == [loc[h] EXCEPT !.lote = Tail(@)]
      m     == Head(loc[h].lote)
  IN  /\ En(h, "entregar")
      /\ \/ Transmite(h, [tipo |-> "SEND_MESSAGE", id |-> m.id, remitente |-> m.remitente,
                           mensaje |-> m.mensaje], "resolver", resto)
         \/ /\ loc[h].dir \notin escuchando
            /\ Va(h, "resolver", resto) \/ FinEnvio(h, 3) \/ Cae("SIGPIPE")

envio_mensajes_pendientes(h) ==
  \/ Contar(h) \/ ExtraerIDs(h) \/ ExtraerRemitentes(h) \/ ExtraerMensajes(h) \/ VaciarMensajes(h)
  \/ EnvioResolver(h) \/ EnvioConectar(h) \/ EnvioEntregar(h)

-----------------------------------------------------------------------------
(* The acknowledgement to the sender of a SEND that delivered its batch.   *)
AckIsConnected(h) ==
  /\ En(h, "ack_is_connected")
  /\ is_connected(h, alias(h), Devuelve(h, 2, "responder"), "ack_resolver", 0)

AckResolver(h) ==
  /\ En(h, "ack_resolver")
  /\ \/ Resuelve(h, "ack_conectar", loc[h])
     \/ FallosES /\ Resuelve(h, "responder", [loc[h] EXCEPT !.res = 3])

(* Mutant: the connection to the sender is tried until it succeeds.        *)
AckConectarInsiste(h) ==
  LET dir == <<hostent, loc[h].port>>
  IN  /\ En(h, "ack_conectar")
      /\ \/ dir \notin escuchando /\ Sigue(h, "ack_resolver")
         \/ dir \in escuchando /\ Va(h, "ack_id_access", [loc[h] EXCEPT !.dir = dir])

(* A failed connect does not stop the writes: the first one, on a socket   *)
(* that was never connected, raises SIGPIPE.                               *)
AckConectar(h) ==
  LET dir == <<hostent, loc[h].port>>
  IN  /\ En(h, "ack_conectar")
      /\ \/ dir \notin escuchando /\ Cae("SIGPIPE")
         \/ dir \in escuchando /\ Va(h, "ack_id_access", [loc[h] EXCEPT !.dir = dir])

(* obtener_ultimo_id of the receiver: access, then fopen and fread.  Each  *)
(* failure gives a number that looks like an id.                           *)
IdAccess(h, etiqueta, leer, sig) ==
  /\ En(h, etiqueta)
  /\ \/ perfiles[dest(h)] # NoHay /\ Sigue(h, leer)
     \/ perfiles[dest(h)] = NoHay /\ Va(h, sig, [loc[h] EXCEPT !.ultimo = 1])

IdLeer(h, etiqueta, sig) ==
  /\ En(h, etiqueta)
  /\ \/ \E reg \in Lecturas(dest(h)) : Va(h, sig, [loc[h] EXCEPT !.ultimo = reg.last_id])
     \/ (perfiles[dest(h)] = NoHay \/ FallosES) /\ Va(h, sig, [loc[h] EXCEPT !.ultimo = 2])

AckIdAccess(h) == IdAccess(h, "ack_id_access", "ack_id_leer", "ack_enviar")
AckIdLeer(h)   == IdLeer(h, "ack_id_leer", "ack_enviar")

(* The two fields of the acknowledgement, written as one step: reading the *)
(* id between them changes nothing that others see.                        *)
AckEnviar(h) ==
  /\ En(h, "ack_enviar")
  /\ \/ Transmite(h, [tipo |-> "SEND_MESS_ACK", id |-> loc[h].ultimo, remitente |-> Nadie,
                      mensaje |-> 0], "responder", loc[h])
     \/ /\ loc[h].dir \notin escuchando
        /\ Sigue(h, "responder") \/ Devuelve(h, 3, "responder") \/ Cae("SIGPIPE")

envio_ack(h) ==
  \/ AckIsConnected(h) \/ AckResolver(h) \/ AckConectar(h) \/ AckIdAccess(h) \/ AckIdLeer(h)
  \/ AckEnviar(h)

-----------------------------------------------------------------------------
(* The reply: the result code and, after a SEND, the last id of the        *)
(* receiver; then the thread ends.                                         *)
Responder(h) ==
  /\ En(h, "responder")
  /\ Va(h, IF pet[h].op = "SEND" THEN "id_access" ELSE "cerrar", [loc[h] EXCEPT !.codigo = loc[h].res])

UltimoIdAccess(h) == IdAccess(h, "id_access", "id_leer", "cerrar")
UltimoIdLeer(h)   == IdLeer(h, "id_leer", "cerrar")

Cerrar(h) ==
  /\ En(h, "cerrar")
  /\ Mueve(h, "libre", LocalInicial)
  /\ pet' = [pet EXCEPT ![h] = SinPeticion]
  /\ aceptados' = IF pet[h].op = "SEND" /\ loc[h].codigo = 0
                  THEN aceptados \cup {loc[h].uid} ELSE aceptados
  /\ UNCHANGED <<disco, estaticas, estado, abierto, clientes, enviados, bajas, cotas>>

-----------------------------------------------------------------------------
(* The surroundings.  A client process dies and its port closes; the       *)
(* server process is killed; it is started again on the files it left      *)
(* (main does not clear them).                                             *)
ClienteMuere(d) ==
  /\ d \in escuchando /\ muertes < MaxMuertes
  /\ escuchando' = escuchando \ {d}
  /\ muertes' = muertes + 1
  /\ UNCHANGED <<disco, estaticas, estado, hilos, recibidos, historia, n_pet, arranques>>

Matar == estado = "activo" /\ arranques < MaxArranques /\ Cae("SIGKILL")

Reiniciar ==
  /\ estado # "activo" /\ arranques < MaxArranques
  /\ estado' = "activo"
  /\ arranques' = arranques + 1
  /\ UNCHANGED <<disco, estaticas, hilos, clientes, historia, n_pet, muertes>>

-----------------------------------------------------------------------------
(* Memory when the process starts: no thread, nothing in the buffers that  *)
(* anybody reads before it is written.                                     *)
Arranque ==
  /\ address_thread \in IPs /\ hostent \in IPs
  /\ estado = "activo"
  /\ pc = [h \in Hilos |-> "libre"]
  /\ pet = [h \in Hilos |-> SinPeticion]
  /\ abierto = [h \in Hilos |-> Cerrado]
  /\ loc = [h \in Hilos |-> LocalInicial]
  /\ recibidos = [d \in Dirs |-> <<>>]
  /\ enviados = {} /\ aceptados = {} /\ bajas = {}
  /\ n_pet = 0 /\ arranques = 0 /\ muertes = 0

Init ==
  /\ perfiles = [a \in Alias |-> IF a \in Registrados
                                 THEN [PerfilNuevo EXCEPT !.vivos = FALSE] ELSE NoHay]
  /\ mensajes = [a \in Alias |-> IF a \in Registrados THEN <<>> ELSE NoHay]
  /\ escuchando = {}
  /\ Arranque

(* What tratar_mensaje does once a request has been read.                  *)
tratar_mensaje(h) ==
  \/ register_gestiones(h) \/ unregister_gestiones(h) \/ connect_gestiones(h)
  \/ disconnect_gestiones(h) \/ send_to_server_gestiones(h)
  \/ IsConnected(h) \/ NumMensajesPendientes(h) \/ envio_mensajes_pendientes(h)
  \/ envio_ack(h) \/ OpInvalida(h) \/ Responder(h) \/ UltimoIdAccess(h) \/ UltimoIdLeer(h)
  \/ Cerrar(h)

Next ==
  \/ \E h \in Hilos : Recibir(h) \/ tratar_mensaje(h)
  \/ \E d \in Dirs : ClienteMuere(d)
  \/ Matar \/ Reiniciar

Spec == Init /\ [][Next]_vars

(* The system schedules every thread that can take a step; nobody has to   *)
(* send a request, die or start the server again.                          *)
Equidad  == \A h \in Hilos : WF_vars(tratar_mensaje(h))
FairSpec == Spec /\ Equidad

-----------------------------------------------------------------------------
Texto == [tipo : {"SEND_MESSAGE", "SEND_MESS_ACK"}, id : Int,
          remitente : Alias \cup {Nadie}, mensaje : Nat]
Envio == [remitente : Alias, dest : Alias, mensaje : Nat]
Estados == {"activo", "exit(1)", "SIGSEGV", "SIGPIPE", "SIGKILL", "op_invalida"}

(* A thread is at a step of the operation it was asked for: the string     *)
(* comparisons of tratar_mensaje keep the branches apart.                  *)
Control ==
  \A h \in Hilos :
    /\ pc[h] = "libre" <=> pet[h] = SinPeticion
    /\ pc[h] \in PcRegister   => pet[h].op = "REGISTER"
    /\ pc[h] \in PcUnregister => pet[h].op = "UNREGISTER"
    /\ pc[h] \in PcConnect    => pet[h].op = "CONNECT"
    /\ pc[h] \in PcDisconnect => pet[h].op = "DISCONNECT"
    /\ pc[h] \in PcSend \cup PcAck \cup {"id_access", "id_leer"} => pet[h].op = "SEND"
    /\ pc[h] \in PcEntrega    => pet[h].op \in {"CONNECT", "SEND"}

(* Every variable holds a value of its kind: what the files, the threads   *)
(* and the clients of the server may contain; and every thread is at a     *)
(* step of the operation it was asked for.                                 *)
TypeOK ==
  /\ perfiles \in [Alias -> FicherosPerfil]
  /\ mensajes \in [Alias -> FicherosMensajes]
  /\ address_thread \in IPs /\ hostent \in IPs
  /\ estado \in Estados
  /\ pc \in [Hilos -> Pcs]
  /\ pet \in [Hilos -> Peticiones \cup {SinPeticion}]
  /\ abierto \in [Hilos -> Ficheros \cup {Cerrado}]
  /\ loc \in [Hilos -> Local]
  /\ escuchando \subseteq Dirs
  /\ recibidos \in [Dirs -> Seq(Texto)]
  /\ enviados \subseteq Envio /\ aceptados \subseteq Nat /\ bajas \subseteq Alias
  /\ n_pet \in Nat /\ arranques \in Nat /\ muertes \in Nat
  /\ Control

(* The profile says that a can be reached, and by this server process.     *)
Completo(a) == perfiles[a] \notin {NoHay, Vacio}
EnLinea(a)  == Completo(a) /\ perfiles[a].status = Conectado /\ perfiles[a].vivos
ConPendientes(a) == mensajes[a] \notin {NoHay, <<>>}

(* The steps at which a thread has still to look at the mailbox of a: it   *)
(* is about to append to it, or has not emptied it yet.                    *)
PcAtiende == {"env_abrir", "env_anexar", "is_connected", "num", "contar", "ids", "remitentes",
              "mensajes", "vaciar"}
Atiende(h, a) == pc[h] \in PcAtiende /\ Destino(h) = a

(* No message is left behind: whenever a connected user has pending        *)
(* messages, some thread is on its way to deliver them.  CONNECT marks the *)
(* user and then looks for messages, SEND stores the message and then      *)
(* looks whether the user is connected; were either order reversed, a      *)
(* CONNECT and a SEND could each miss the other (server.c:250-258,         *)
(* 271-277).                                                               *)
NadaVarado ==
  FallosES \/ \A a \in Alias : EnLinea(a) /\ ConPendientes(a) => \E h \in Hilos : Atiende(h, a)

(* The server exits for want of a mailbox (gestiones.c:381-384) only while *)
(* that very user is between the two files of its REGISTER, or once an     *)
(* UNREGISTER has removed it; no interleaving of the other operations      *)
(* loses a mailbox.                                                        *)
EnTramite(a) == a \in bajas \/ \E g \in Hilos : pc[g] = "reg_mensajes" /\ alias(g) = a
SalidaSoloPorTramite ==
  [][estado = "activo" /\ estado' = "exit(1)" =>
       \E h \in Hilos : /\ pc[h] \in PcEntrega /\ mensajes[Destino(h)] = NoHay
                        /\ EnTramite(Destino(h))]_vars

(* With one client application per alias, a user that has a profile has a  *)
(* mailbox, except between the two fopen of its REGISTER: the profile is   *)
(* created first and removed first.                                        *)
Emparejados ==
  \A a \in Alias : estado = "activo" /\ perfiles[a] # NoHay =>
    \/ mensajes[a] # NoHay
    \/ \E h \in Hilos : pc[h] = "reg_mensajes" /\ alias(h) = a

(* The messages of a user who never left are numbered upwards and none is  *)
(* beyond the counter in the profile, a crash between the two writes of a  *)
(* SEND included: the counter is raised first (gestiones.c:334-364).       *)
IdsCrecientes ==
  \A a \in Alias \ bajas : mensajes[a] # NoHay =>
    \A i \in DOMAIN mensajes[a] :
      /\ Completo(a) => mensajes[a][i].id <= perfiles[a].last_id
      /\ \A j \in 1..(i-1) : mensajes[a][j].id < mensajes[a][i].id

(* With requests one at a time, the id in the reply to an accepted SEND is *)
(* the one its message got (server.c:358-361), although it is read again   *)
(* from a profile a crash may have left half written; or it is the 2 with  *)
(* which obtener_ultimo_id says that it could not open the file, and which *)
(* looks like an id (gestiones.c:277-281).  A SEND that gave no id can be  *)
(* answered 0 too: when it could not read the profile but went on to       *)
(* deliver an older message (server.c:276-283).                            *)
IdRespondido ==
  \A h \in Hilos : pc[h] = "cerrar" /\ pet[h].op = "SEND" /\ loc[h].codigo = 0 /\ loc[h].id # 0 =>
    loc[h].ultimo = loc[h].id \/ (FallosES /\ loc[h].ultimo = 2)

(* Requests one at a time never bring the server down by themselves: in    *)
(* its first run it dies of a dead client's socket only (server.c:302-314).*)
SoloCaeConMotivo ==
  arranques = 0 => /\ estado = "SIGPIPE" => muertes > 0
                   /\ FallosES \/ estado \notin {"SIGSEGV", "exit(1)"}

(* A profile left on line by an earlier process, or one not written yet.   *)
PerfilAjeno(a) == perfiles[a] = Vacio \/ (Completo(a) /\ ~perfiles[a].vivos)

(* With requests one at a time, the server follows a bad pointer only when *)
(* the profile it reads is not this process's work (gestiones.c:255), or   *)
(* when the mailbox it truncates cannot be opened (gestiones.c:428-429): a *)
(* user who has connected again since a restart is safe.                   *)
PunteroAjeno ==
  [][estado = "activo" /\ estado' = "SIGSEGV" =>
       \E h \in Hilos :
         \/ pc[h] = "vaciar"
         \/ pc[h] \in {"is_connected", "resolver"} /\ PerfilAjeno(Destino(h))
         \/ pc[h] \in {"ack_is_connected", "ack_resolver"} /\ PerfilAjeno(alias(h))]_vars

(* A reply of 0 to a REGISTER, UNREGISTER or DISCONNECT is the truth about *)
(* the files, whichever fopen fails on the way.                            *)
RespuestaVeraz ==
  \A h \in Hilos : pc[h] = "cerrar" /\ loc[h].codigo = 0 =>
    CASE pet[h].op = "REGISTER"   -> Completo(alias(h)) /\ mensajes[alias(h)] # NoHay
      [] pet[h].op = "UNREGISTER" -> perfiles[alias(h)] = NoHay /\ mensajes[alias(h)] = NoHay
      [] pet[h].op = "DISCONNECT" -> Completo(alias(h)) /\ ~EnLinea(alias(h))
      [] OTHER -> TRUE

(* A thread that has taken a request gets to the end of it.                *)
TodaPeticionTermina == \A h \in Hilos : pc[h] # "libre" ~> pc[h] = "libre"

(* Pending messages of a connected user leave the mailbox, unless the user *)
(* disconnects or the server falls.                                        *)
ColaSeVacia == \A a \in Alias : EnLinea(a) /\ ConPendientes(a) ~> ~EnLinea(a) \/ ~ConPendientes(a)

-----------------------------------------------------------------------------
(* What the documentation says and the code does not do: a run violates    *)
(* each of these.                                                          *)

EnBuzon(uid)  == \E a \in Alias : mensajes[a] # NoHay /\ \E i \in DOMAIN mensajes[a] : mensajes[a][i].mensaje = uid
EnLote(uid)   == \E h \in Hilos : \E i \in DOMAIN loc[h].lote : loc[h].lote[i].mensaje = uid
Entregado(uid) == \E d \in Dirs : \E i \in DOMAIN recibidos[d] : recibidos[d][i].mensaje = uid

(* README.md:19, "messages will be queued, and when that user reconnects,  *)
(* it will receive them all": an accepted message is queued, in the hands  *)
(* of a thread or received, until its receiver unregisters.                *)
RecibeTodos ==
  \A e \in enviados : e.mensaje \in aceptados /\ e.dest \notin bajas =>
    EnBuzon(e.mensaje) \/ EnLote(e.mensaje) \/ Entregado(e.mensaje)

(* The comment at server.c:275, "se comprueba que el destinatario está     *)
(* conectado, se le envían automáticametne": a text somebody sent goes to  *)
(* an address its receiver asked for in a CONNECT, and to no other.        *)
SoloAlDestinatario ==
  \A d \in Dirs : \A i \in DOMAIN recibidos[d] :
    LET t == recibidos[d][i]
    IN  t.tipo = "SEND_MESSAGE" =>
          \A e \in enviados : e.mensaje = t.mensaje =>
            \E p \in Peticiones : p.op = "CONNECT" /\ p.alias = e.dest /\ d = <<p.IP, p.port>>

(* The comment at server.c:40, "obtener tods los mensajes pendientes y     *)
(* enviarlos": what is sent is a pending message, so a text goes out under *)
(* the name of the user who sent it, the one client.py:442 shows.          *)
Autentico ==
  \A d \in Dirs : \A i \in DOMAIN recibidos[d] :
    LET t == recibidos[d][i]
    IN  t.tipo = "SEND_MESSAGE" =>
          \A e \in enviados : e.mensaje = t.mensaje => e.remitente = t.remitente

(* The comment at server.c:358, "hay que enviar el id del mensaje", and    *)
(* client.py:278, "OK if the server had successfully delivered the         *)
(* message": a SEND answered 0 has given its message an id, and that id is *)
(* the one it is answered.                                                 *)
IdPropio ==
  \A h \in Hilos : pc[h] = "cerrar" /\ pet[h].op = "SEND" /\ loc[h].codigo = 0 =>
    loc[h].id # 0 /\ loc[h].ultimo = loc[h].id

(* README.md:18, "It disconnects from the system a connected user": only a *)
(* CONNECT puts the user back on line.                                     *)
SoloConectarConecta ==
  [][\A a \in Alias : ~EnLinea(a) /\ EnLinea(a)' =>
       \E h \in Hilos : pc[h] = "con_escribir" /\ alias(h) = a]_vars

(* client.py:155, "USER_ERROR if the user does not exist or if it is       *)
(* already connected": a CONNECT that found the user connected says so.    *)
YaConectado ==
  [][\A h \in Hilos : pet[h] # SinPeticion /\ pet[h].op = "CONNECT" /\ loc[h].res = 2
                      /\ pc'[h] # "libre" => loc'[h].res = 2]_vars
=============================================================================
