--------------------------- MODULE ServidorTipos ---------------------------
(***************************************************************************)
(* Proof that every variable of Servidor keeps its type and every thread   *)
(* stays at the steps of the operation it serves, for any users, threads,  *)
(* requests and contents of uninitialised memory.                          *)
(***************************************************************************)
EXTENDS Servidor, SequenceTheorems, TLAPS

-----------------------------------------------------------------------------
(* What the operators of Almacen yield.                                    *)

LEMMA HuecoEsMensaje == Hueco \in Mensaje
BY DEF Hueco, Mensaje

LEMMA PerfilNuevoEsPerfil == PerfilNuevo \in Perfil
BY DEF PerfilNuevo, Perfil, Desconectado

(* A sequence is what assigns an element to each number up to its length.  *)
LEMMA EsSecuencia ==
  ASSUME NEW S, NEW n \in Nat, NEW f \in [1..n -> S]
  PROVE  f \in Seq(S) /\ Len(f) = n
OBVIOUS

LEMMA EscribirEnTipo ==
  ASSUME NEW buzon \in Seq(Mensaje), NEW pos \in Nat, NEW m \in Mensaje
  PROVE  EscribirEn(buzon, pos, m) \in Seq(Mensaje)
<1> DEFINE n == IF pos > Len(buzon) THEN pos ELSE Len(buzon)
<1>1. n \in Nat
  BY LenProperties
<1>2. \A i \in 1..n : i <= Len(buzon) => buzon[i] \in Mensaje
  BY ElementOfSeq
<1>3. EscribirEn(buzon, pos, m) \in [1..n -> Mensaje]
  BY <1>2, HuecoEsMensaje DEF EscribirEn
<1> QED
  BY <1>1, <1>3, EsSecuencia

LEMMA LeidosTipo ==
  ASSUME NEW buzon \in Seq(Mensaje), NEW n \in Nat, NEW resto \in Mensaje
  PROVE  Leidos(buzon, n, resto) \in [1..n -> Mensaje]
<1>1. Len(buzon) \in Nat /\ \A i \in 1..n : i <= Len(buzon) => buzon[i] \in Mensaje
  BY ElementOfSeq, LenProperties
<1>2. buzon # <<>> => buzon[Len(buzon)] \in Mensaje
  BY ElementOfSeq, EmptySeq
<1> QED
  BY <1>1, <1>2 DEF Leidos

(* Where the batch and what is read have the same length, filling in a     *)
(* field gives a batch of that length again.                               *)
LEMMA ConTipo ==
  ASSUME NEW n \in Nat, NEW lote \in [1..n -> Mensaje], NEW leidos \in [1..n -> Mensaje]
  PROVE  /\ ConIDs(lote, leidos) \in [1..n -> Mensaje]
         /\ ConRemitentes(lote, leidos) \in [1..n -> Mensaje]
         /\ ConMensajes(lote, leidos) \in [1..n -> Mensaje]
BY DEF ConIDs, ConRemitentes, ConMensajes, Mensaje

LEMMA SinProcesoTipo ==
  ASSUME NEW p \in [Alias -> FicherosPerfil]
  PROVE  SinProceso(p) \in [Alias -> FicherosPerfil]
<1>1. \A a \in Alias : p[a] \notin {NoHay, Vacio} => [p[a] EXCEPT !.vivos = FALSE] \in Perfil
  BY DEF FicherosPerfil, Perfil
<1> QED
  BY <1>1 DEF SinProceso, FicherosPerfil

-----------------------------------------------------------------------------
(* The inductive invariant.  It adds to TypeOK that the batch a thread is  *)
(* filling in is as long as its count, so that the three passes over the   *)
(* mailbox stay inside it, that a thread with a connection open has a      *)
(* message to send, and that a mailbox which can be written to through an  *)
(* open file is there.                                                     *)

GlobalOK ==
  /\ perfiles \in [Alias -> FicherosPerfil]
  /\ mensajes \in [Alias -> FicherosMensajes]
  /\ address_thread \in IPs /\ hostent \in IPs
  /\ estado \in Estados
  /\ abierto \in [Hilos -> Ficheros \cup {Cerrado}]
  /\ escuchando \subseteq Dirs
  /\ recibidos \in [Dirs -> Seq(Texto)]
  /\ enviados \subseteq Envio /\ aceptados \subseteq Nat /\ bajas \subseteq Alias
  /\ n_pet \in Nat /\ arranques \in Nat /\ muertes \in Nat
  /\ \A h \in Hilos, a \in Alias : abierto[h] = <<"mensajes", a>> => mensajes[a] # NoHay

(* Control, for one thread.                                                *)
Encaja(etiqueta, p) ==
  /\ etiqueta = "libre" <=> p = SinPeticion
  /\ etiqueta \in PcRegister   => p.op = "REGISTER"
  /\ etiqueta \in PcUnregister => p.op = "UNREGISTER"
  /\ etiqueta \in PcConnect    => p.op = "CONNECT"
  /\ etiqueta \in PcDisconnect => p.op = "DISCONNECT"
  /\ etiqueta \in PcSend \cup PcAck \cup {"id_access", "id_leer"} => p.op = "SEND"
  /\ etiqueta \in PcEntrega    => p.op \in {"CONNECT", "SEND"}

Cuadra(etiqueta, l) ==
  /\ etiqueta \in {"ids", "remitentes", "mensajes"} => Len(l.lote) = l.n
  /\ etiqueta \in {"conectar", "entregar"} => l.lote # <<>>

HilosOK ==
  /\ pc \in [Hilos -> Pcs]
  /\ pet \in [Hilos -> Peticiones \cup {SinPeticion}]
  /\ loc \in [Hilos -> Local]
  /\ \A h \in Hilos : Encaja(pc[h], pet[h]) /\ Cuadra(pc[h], loc[h])

IInv == GlobalOK /\ HilosOK

LEMMA IInvTypeOK == IInv => TypeOK
BY DEF IInv, GlobalOK, HilosOK, TypeOK, Control, Encaja

(* A thread at work has a request of its own.                              *)
LEMMA TienePeticion ==
  ASSUME HilosOK, NEW h \in Hilos, pc[h] # "libre"
  PROVE  /\ pet[h] \in Peticiones /\ pet[h] \in Peticion
         /\ alias(h) \in Alias /\ dest(h) \in Alias /\ Destino(h) \in Alias
BY Parametros DEF HilosOK, Encaja, Peticion, alias, dest, Destino

-----------------------------------------------------------------------------
(* What the steps are made of.                                             *)

(* A thread that moves to a step of its own operation stays well typed.    *)
LEMMA MueveBien ==
  ASSUME HilosOK, NEW h \in Hilos, NEW sig \in Pcs, NEW l \in Local,
         Encaja(sig, pet[h]), Cuadra(sig, l), Mueve(h, sig, l), UNCHANGED pet
  PROVE  HilosOK'
BY DEF HilosOK, Mueve

LEMMA VaBien ==
  ASSUME IInv, NEW h \in Hilos, NEW sig \in Pcs, NEW l \in Local,
         Encaja(sig, pet[h]), Cuadra(sig, l), Va(h, sig, l)
  PROVE  IInv'
<1>1. HilosOK'
  BY MueveBien DEF IInv, Va
<1>2. GlobalOK'
  BY DEF IInv, Va, GlobalOK, disco, estaticas, clientes, historia, cotas
<1> QED
  BY <1>1, <1>2 DEF IInv

(* The local variables of a thread.                                        *)
LEMMA LocalCampos ==
  ASSUME NEW l \in Local
  PROVE  /\ l.uid \in Nat /\ l.res \in 0..3 /\ l.reg \in Perfil /\ l.reg.last_id \in Int
         /\ l.pos \in Nat /\ l.IP \in IPs \cup {SinIP} /\ l.port \in Puertos \cup {SinPuerto}
         /\ l.n \in Nat /\ l.lote \in Seq(Mensaje) /\ l.id \in Int /\ l.ultimo \in Int
         /\ l.dir \in (IPs \cup {SinIP}) \X (Puertos \cup {SinPuerto})
BY DEF Local, Perfil

(* Setting one of them (or, where the code sets several, those).           *)
LEMMA LocalCon ==
  ASSUME NEW l \in Local
  PROVE  /\ \A i \in Nat : [l EXCEPT !.uid = i] \in Local
         /\ \A r \in 0..3 : [l EXCEPT !.res = r] \in Local
         /\ \A r \in 0..3 : [l EXCEPT !.codigo = r] \in Local
         /\ \A reg \in Perfil : [l EXCEPT !.reg = reg] \in Local
         /\ \A k \in Nat : [l EXCEPT !.pos = k] \in Local
         /\ \A k \in Nat : [l EXCEPT !.n = k] \in Local
         /\ \A i \in Int : [l EXCEPT !.id = i] \in Local
         /\ \A i \in Int : [l EXCEPT !.ultimo = i] \in Local
         /\ \A ip \in IPs \cup {SinIP}, port \in Puertos \cup {SinPuerto} :
              [l EXCEPT !.IP = ip, !.port = port] \in Local
         /\ \A ip \in IPs \cup {SinIP}, port \in Puertos \cup {SinPuerto}, r \in 0..3 :
              [l EXCEPT !.IP = ip, !.port = port, !.res = r] \in Local
         /\ \A ip \in IPs \cup {SinIP}, port \in Puertos \cup {SinPuerto} :
              [l EXCEPT !.dir = <<ip, port>>] \in Local
         /\ \A lote \in Seq(Mensaje) : [l EXCEPT !.lote = lote] \in Local
         /\ \A lote \in Seq(Mensaje), r \in 0..3 : [l EXCEPT !.lote = lote, !.res = r] \in Local
         /\ \A k \in Nat, lote \in Seq(Mensaje) : [l EXCEPT !.n = k, !.lote = lote] \in Local
<1> USE DEF Local
<1>1. \A i \in Nat : [l EXCEPT !.uid = i] \in Local
  OBVIOUS
<1>2. \A r \in 0..3 : [l EXCEPT !.res = r] \in Local
  OBVIOUS
<1>3. \A r \in 0..3 : [l EXCEPT !.codigo = r] \in Local
  OBVIOUS
<1>4. \A reg \in Perfil : [l EXCEPT !.reg = reg] \in Local
  OBVIOUS
<1>5. \A k \in Nat : [l EXCEPT !.pos = k] \in Local
  OBVIOUS
<1>6. \A k \in Nat : [l EXCEPT !.n = k] \in Local
  OBVIOUS
<1>7. \A i \in Int : [l EXCEPT !.id = i] \in Local
  OBVIOUS
<1>8. \A i \in Int : [l EXCEPT !.ultimo = i] \in Local
  OBVIOUS
<1>9. \A ip \in IPs \cup {SinIP}, port \in Puertos \cup {SinPuerto} : [l EXCEPT !.IP = ip, !.port = port] \in Local
  OBVIOUS
<1>10. \A ip \in IPs \cup {SinIP}, port \in Puertos \cup {SinPuerto}, r \in 0..3 : [l EXCEPT !.IP = ip, !.port = port, !.res = r] \in Local
  OBVIOUS
<1>11. \A ip \in IPs \cup {SinIP}, port \in Puertos \cup {SinPuerto} : [l EXCEPT !.dir = <<ip, port>>] \in Local
  OBVIOUS
<1>12. \A lote \in Seq(Mensaje) : [l EXCEPT !.lote = lote] \in Local
  OBVIOUS
<1>13. \A lote \in Seq(Mensaje), r \in 0..3 : [l EXCEPT !.lote = lote, !.res = r] \in Local
  OBVIOUS
<1>14. \A k \in Nat, lote \in Seq(Mensaje) : [l EXCEPT !.n = k, !.lote = lote] \in Local
  OBVIOUS
<1> QED
  BY <1>1, <1>2, <1>3, <1>4, <1>5, <1>6, <1>7, <1>8, <1>9, <1>10, <1>11, <1>12, <1>13, <1>14, Zenon

LEMMA Codigos == 0 \in 0..3 /\ 1 \in 0..3 /\ 2 \in 0..3 /\ 3 \in 0..3 /\ 0 \in Nat
OBVIOUS

LEMMA LocalInicialTipo == LocalInicial \in Local
BY PerfilNuevoEsPerfil, EmptySeq DEF LocalInicial, Local

LEMMA CaeBien ==
  ASSUME IInv, NEW causa \in Estados, Cae(causa)
  PROVE  IInv'
<1>1. perfiles' \in [Alias -> FicherosPerfil]
  BY SinProcesoTipo DEF IInv, GlobalOK, Cae
<1>2. GlobalOK'
  BY <1>1, CerradoAparte DEF IInv, GlobalOK, Cae, Ficheros, estaticas, clientes, historia, cotas
<1>3. Encaja("libre", SinPeticion) /\ Cuadra("libre", LocalInicial) /\ "libre" \in Pcs
  BY DEF Encaja, Cuadra, Pcs, PcRegister, PcUnregister, PcConnect, PcDisconnect, PcSend, PcEntrega,
         PcAck
<1>4. HilosOK'
  BY <1>3, LocalInicialTipo DEF HilosOK, Cae
<1> QED
  BY <1>2, <1>4 DEF IInv

(* Whatever a profile is read from, it is a profile.                       *)
LEMMA LecturasTipo ==
  ASSUME GlobalOK, NEW a \in Alias
  PROVE  Lecturas(a) \subseteq Perfil
BY Parametros DEF GlobalOK, Lecturas, FicherosPerfil

(* Whatever obtener_ultimo_id meets, what it gives is a number.            *)
LEMMA UltimoLeido ==
  ASSUME GlobalOK, NEW h \in Hilos, dest(h) \in Alias, NEW etiqueta, NEW leer, NEW sig,
         IdAccess(h, etiqueta, leer, sig) \/ IdLeer(h, etiqueta, sig)
  PROVE  \/ Va(h, leer, loc[h])
         \/ \E id \in Int : Va(h, sig, [loc[h] EXCEPT !.ultimo = id])
<1>1. \A reg \in Lecturas(dest(h)) : reg.last_id \in Int
  BY LecturasTipo DEF Perfil
<1>2. 1 \in Int /\ 2 \in Int
  OBVIOUS
<1> QED
  BY <1>1, <1>2, Zenon DEF IdAccess, IdLeer, Sigue

LEMMA EscribePerfilBien ==
  ASSUME GlobalOK, NEW h \in Hilos, NEW a \in Alias, NEW p \in Perfil, EscribePerfil(h, a, p)
  PROVE  GlobalOK'
BY CerradoAparte DEF GlobalOK, EscribePerfil, FicherosPerfil, Ficheros, estaticas, clientes, historia, cotas

LEMMA BuzonBien ==
  ASSUME GlobalOK, NEW a \in Alias, NEW b \in Seq(Mensaje),
         mensajes' = [mensajes EXCEPT ![a] = b],
         UNCHANGED <<perfiles, estaticas, estado, abierto, clientes, historia, cotas>>
  PROVE  GlobalOK'
BY FicherosAparte DEF GlobalOK, FicherosMensajes, estaticas, clientes, historia, cotas

(* An existing mailbox is a sequence of messages.                          *)
LEMMA BuzonEsSecuencia ==
  ASSUME GlobalOK, NEW a \in Alias, mensajes[a] # NoHay
  PROVE  mensajes[a] \in Seq(Mensaje) /\ Len(mensajes[a]) \in Nat
BY LenProperties DEF GlobalOK, FicherosMensajes

-----------------------------------------------------------------------------
(* One lemma per operation: each of its steps preserves the invariant.     *)

LEMMA InitIInv == Init => IInv
<1> SUFFICES ASSUME Init PROVE IInv
  OBVIOUS
<1>1. [PerfilNuevo EXCEPT !.vivos = FALSE] \in Perfil
  BY PerfilNuevoEsPerfil DEF Perfil
<1>2. GlobalOK
  BY <1>1, Parametros, CerradoAparte, EmptySeq
  DEF Init, Arranque, GlobalOK, Ficheros, FicherosPerfil, FicherosMensajes, Estados
<1>3. HilosOK
  BY LocalInicialTipo
  DEF Init, Arranque, HilosOK, Encaja, Cuadra, Pcs, PcRegister, PcUnregister, PcConnect,
      PcDisconnect, PcSend, PcEntrega, PcAck
<1> QED
  BY <1>2, <1>3 DEF IInv

(* The steps of each operation, and which operation a step belongs to.     *)
USE DEF Pcs, PcRegister, PcUnregister, PcConnect, PcDisconnect, PcSend, PcEntrega, PcAck, PcFin

LEMMA EntradaEncaja ==
  ASSUME NEW p \in Peticion
  PROVE  /\ Entrada(p.op) \in Pcs /\ Encaja(Entrada(p.op), p)
         /\ \A l : Cuadra(Entrada(p.op), l)
BY Parametros DEF Entrada, Encaja, Cuadra, Peticion, Ops

LEMMA RecibirBien ==
  ASSUME IInv, NEW h \in Hilos, Recibir(h)
  PROVE  IInv'
<1> DEFINE l == [LocalInicial EXCEPT !.uid = n_pet + 1]
<1>1. PICK p \in Peticiones :
        /\ Mueve(h, Entrada(p.op), l)
        /\ pet' = [pet EXCEPT ![h] = p]
        /\ address_thread' = IF p.op = "CONNECT" THEN p.IP ELSE address_thread
        /\ escuchando' = IF p.op = "CONNECT" THEN escuchando \cup {<<p.IP, p.port>>} ELSE escuchando
        /\ enviados' = IF p.op = "SEND"
                       THEN enviados \cup {[remitente |-> p.alias, dest |-> p.dest, mensaje |-> n_pet + 1]}
                       ELSE enviados
  BY DEF Recibir
<1>2. p \in Peticion /\ l \in Local
  <2>1. p \in Peticion
    BY Parametros
  <2>2. n_pet + 1 \in Nat
    BY DEF IInv, GlobalOK
  <2>3. l \in Local
    BY <2>2, LocalInicialTipo, LocalCon, Zenon
  <2> QED
    BY <2>1, <2>3
<1> HIDE DEF l
<1>3. GlobalOK'
  BY <1>1, <1>2 DEF Recibir, IInv, GlobalOK, Peticion, Dirs, Envio, disco
<1>4. HilosOK'
  BY <1>1, <1>2, EntradaEncaja DEF IInv, HilosOK, Mueve
<1> QED
  BY <1>3, <1>4 DEF IInv

(* A step that only moves the thread, to one of the steps where no batch   *)
(* matters, or that stops the process.                                     *)
LEMMA SigueBien ==
  ASSUME IInv, NEW h \in Hilos, NEW sig \in Pcs, Encaja(sig, pet[h]),
         sig \notin {"ids", "remitentes", "mensajes", "conectar", "entregar"},
         \/ Sigue(h, sig)
         \/ \E r \in 0..3 : Devuelve(h, r, sig)
  PROVE  IInv'
<1>1. loc[h] \in Local
  BY DEF IInv, HilosOK
<1>2. \A r \in 0..3 : [loc[h] EXCEPT !.res = r] \in Local
  BY <1>1, Codigos, LocalCon, Zenon
<1>3. \A l : Cuadra(sig, l)
  BY DEF Cuadra
<1> QED
  BY <1>1, <1>2, <1>3, VaBien DEF Sigue, Devuelve

LEMMA RegisterBien ==
  ASSUME IInv, NEW h \in Hilos, register_gestiones(h)
  PROVE  IInv'
<1>0. loc[h] \in Local
  BY DEF IInv, HilosOK
<1>1. pc[h] \in PcRegister /\ pet[h].op = "REGISTER" /\ pet[h] # SinPeticion
  BY DEF IInv, HilosOK, Encaja, register_gestiones, RegAccess, RegPerfil, RegMensajes,
         RegSoloMensajes, RegEscribir, En
<1>2. alias(h) \in Alias
  BY <1>1, TienePeticion DEF IInv
<1>3. \A sig \in PcRegister \cup {"responder"} :
        sig \in Pcs /\ Encaja(sig, pet[h]) /\ \A l : Cuadra(sig, l)
  BY <1>1 DEF Encaja, Cuadra
<1>4. CASE RegAccess(h)
  BY <1>3, <1>4, SigueBien DEF RegAccess
<1>5. ASSUME NEW sig \in PcRegister, CreaPerfil(h, sig) PROVE IInv'
  <2>1. GlobalOK'
    BY <1>2, <1>5 DEF CreaPerfil, IInv, GlobalOK, FicherosPerfil, Ficheros, estaticas, clientes,
                      historia, cotas
  <2>2. HilosOK'
    BY <1>0, <1>1, <1>3, <1>5, MueveBien DEF CreaPerfil, IInv
  <2> QED
    BY <2>1, <2>2 DEF IInv
<1>6. ASSUME NEW sig \in PcRegister \cup {"responder"}, NEW bien \in 0..3, NEW mal \in 0..3,
             CreaMensajes(h, sig, bien, mal)
      PROVE  IInv'
  <2>1. CASE Devuelve(h, mal, sig)
    BY <1>3, <2>1, SigueBien DEF Cuadra
  <2>2. CASE ~Devuelve(h, mal, sig)
    <3>1. GlobalOK'
      BY <1>2, <1>6, <2>2, BuzonBien, EmptySeq DEF CreaMensajes, IInv
    <3>2. [loc[h] EXCEPT !.res = bien] \in Local
      BY <1>0, Codigos, LocalCon, Zenon
    <3>3. HilosOK'
      BY <1>3, <1>6, <2>2, <3>2, MueveBien DEF CreaMensajes, IInv
    <3> QED
      BY <3>1, <3>3 DEF IInv
  <2> QED
    BY <2>1, <2>2
<1>7. CASE RegPerfil(h)
  BY <1>3, <1>5, <1>7, SigueBien DEF RegPerfil
<1>8. CASE RegMensajes(h) \/ RegSoloMensajes(h)
  BY <1>6, <1>8 DEF RegMensajes, RegSoloMensajes
<1>9. CASE RegEscribir(h)
  <2>1. GlobalOK'
    BY <1>2, <1>9, EscribePerfilBien, PerfilNuevoEsPerfil DEF RegEscribir, IInv
  <2>2. HilosOK'
    BY <1>0, <1>1, <1>3, <1>9, MueveBien DEF RegEscribir, EscribePerfil, IInv
  <2> QED
    BY <2>1, <2>2 DEF IInv
<1> QED
  BY <1>4, <1>7, <1>8, <1>9 DEF register_gestiones

LEMMA UnregisterBien ==
  ASSUME IInv, NEW h \in Hilos, unregister_gestiones(h)
  PROVE  IInv'
<1>0. loc[h] \in Local
  BY DEF IInv, HilosOK
<1>1. pc[h] \in PcUnregister /\ pet[h].op = "UNREGISTER" /\ pet[h] # SinPeticion
  BY DEF IInv, HilosOK, Encaja, unregister_gestiones, BajaAccessPerfil, BajaAccessMensajes,
         BajaPerfil, BajaMensajes, Access, En
<1>2. alias(h) \in Alias
  BY <1>1, TienePeticion DEF IInv
<1>3. \A sig \in PcUnregister \cup {"responder"} :
        sig \in Pcs /\ Encaja(sig, pet[h]) /\ \A l : Cuadra(sig, l)
  BY <1>1 DEF Encaja, Cuadra
<1>4. CASE BajaAccessPerfil(h) \/ BajaAccessMensajes(h)
  BY <1>3, <1>4, SigueBien DEF BajaAccessPerfil, BajaAccessMensajes, Access
<1>5. CASE Devuelve(h, 2, "responder")
  BY <1>3, <1>5, SigueBien
<1>6. CASE BajaPerfil(h) /\ ~Devuelve(h, 2, "responder")
  <2>1. GlobalOK'
    <3>1. /\ perfiles' = [perfiles EXCEPT ![alias(h)] = NoHay] /\ bajas' = bajas \cup {alias(h)}
          /\ Desenlaza(<<"perfil", alias(h)>>)
          /\ UNCHANGED <<mensajes, estaticas, estado, clientes, enviados, aceptados, cotas>>
      BY <1>6 DEF BajaPerfil
    <3>2. /\ perfiles' \in [Alias -> FicherosPerfil] /\ bajas' \subseteq Alias
          /\ \A g \in Hilos : abierto'[g] = abierto[g] \/ abierto'[g] = Cerrado
          /\ abierto' \in [Hilos -> Ficheros \cup {Cerrado}]
      BY <1>2, <3>1 DEF IInv, GlobalOK, FicherosPerfil, Desenlaza
    <3>3. \A a \in Alias : <<"mensajes", a>> # Cerrado
      BY CerradoAparte DEF Ficheros
    <3> QED
      BY <3>1, <3>2, <3>3 DEF IInv, GlobalOK, estaticas, clientes, cotas
  <2>2. HilosOK'
    BY <1>0, <1>1, <1>3, <1>6, MueveBien DEF BajaPerfil, IInv
  <2> QED
    BY <2>1, <2>2 DEF IInv
<1>7. CASE BajaMensajes(h) /\ ~Devuelve(h, 2, "responder")
  <2>1. GlobalOK'
    <3>1. /\ mensajes' = [mensajes EXCEPT ![alias(h)] = NoHay]
          /\ Desenlaza(<<"mensajes", alias(h)>>)
          /\ UNCHANGED <<perfiles, estaticas, estado, clientes, historia, cotas>>
      BY <1>7 DEF BajaMensajes
    <3>2. \A a \in Alias : <<"mensajes", a>> # Cerrado
      BY CerradoAparte DEF Ficheros
    <3>3. /\ mensajes' \in [Alias -> FicherosMensajes]
          /\ abierto' \in [Hilos -> Ficheros \cup {Cerrado}]
      BY <1>2, <3>1 DEF IInv, GlobalOK, FicherosMensajes, Desenlaza
    <3>4. \A g \in Hilos, a \in Alias : abierto'[g] = <<"mensajes", a>> =>
            abierto[g] = <<"mensajes", a>> /\ a # alias(h)
      BY <3>1, <3>2 DEF Desenlaza
    <3>5. \A g \in Hilos, a \in Alias : abierto'[g] = <<"mensajes", a>> => mensajes'[a] # NoHay
      BY <1>2, <3>1, <3>4 DEF IInv, GlobalOK
    <3> QED
      BY <3>1, <3>3, <3>5 DEF IInv, GlobalOK, estaticas, clientes, historia, cotas
  <2>2. [loc[h] EXCEPT !.res = 0] \in Local
    BY <1>0, Codigos, LocalCon, Zenon
  <2>3. HilosOK'
    BY <1>3, <1>7, <2>2, MueveBien DEF BajaMensajes, IInv
  <2> QED
    BY <2>1, <2>3 DEF IInv
<1> QED
  BY <1>4, <1>5, <1>6, <1>7 DEF unregister_gestiones

(* fopen of a profile for writing.                                         *)
LEMMA AbrePerfilBien ==
  ASSUME IInv, NEW h \in Hilos, NEW a \in Alias, NEW sig \in Pcs, Encaja(sig, pet[h]),
         sig \notin {"ids", "remitentes", "mensajes", "conectar", "entregar"},
         NEW reg \in Perfil, AbrePerfil(h, a, sig, reg)
  PROVE  IInv'
<1>1. GlobalOK'
  BY DEF AbrePerfil, IInv, GlobalOK, Ficheros, disco, estaticas, clientes, historia, cotas
<1>2. [loc[h] EXCEPT !.reg = reg] \in Local
  <2>1. loc[h] \in Local
    BY DEF IInv, HilosOK
  <2> QED
    BY <2>1, Codigos, LocalCon, Zenon
<1>3. HilosOK'
  BY <1>2, MueveBien DEF AbrePerfil, IInv, Cuadra
<1> QED
  BY <1>1, <1>3 DEF IInv

LEMMA ConnectBien ==
  ASSUME IInv, NEW h \in Hilos, connect_gestiones(h)
  PROVE  IInv'
<1>0. loc[h] \in Local
  BY DEF IInv, HilosOK
<1>1. pc[h] \in PcConnect /\ pet[h].op = "CONNECT" /\ pet[h] # SinPeticion
  BY DEF IInv, HilosOK, Encaja, connect_gestiones, ConNtop, TomaDireccion, ConAccess, ConLeer, ConEscribir,
         EscribeConexion, Access, En
<1>2. alias(h) \in Alias /\ pet[h] \in Peticion
  BY <1>1, TienePeticion DEF IInv
<1>3. \A sig \in PcConnect \cup {"is_connected"} :
        sig \in Pcs /\ Encaja(sig, pet[h]) /\ \A l : Cuadra(sig, l)
  BY <1>1 DEF Encaja, Cuadra
<1>4. CASE ConNtop(h)
  <2>1. [loc[h] EXCEPT !.IP = address_thread, !.port = pet[h].port] \in Local
    <3>1. address_thread \in IPs /\ pet[h].port \in Puertos
      BY <1>2 DEF IInv, GlobalOK, Peticion
    <3> QED
      BY <1>0, <3>1, Codigos, LocalCon, Zenon
  <2> QED
    BY <1>3, <1>4, <2>1, VaBien DEF ConNtop, TomaDireccion
<1>5. CASE ConAccess(h)
  BY <1>3, <1>5, SigueBien DEF ConAccess, Access
<1>6. CASE ConLeer(h)
  BY <1>2, <1>3, <1>6, SigueBien, LecturasTipo, AbrePerfilBien DEF ConLeer, IInv
<1>7. CASE ConEscribir(h)
  <2> DEFINE p == [status |-> Conectado, IP |-> loc[h].IP, port |-> loc[h].port,
                   last_id |-> loc[h].reg.last_id, vivos |-> TRUE]
  <2>0. p \in Perfil
    BY <1>0, LocalCampos DEF Perfil
  <2>1. [loc[h] EXCEPT !.res = 0] \in Local
    BY <1>0, Codigos, LocalCon, Zenon
  <2>2. EscribePerfil(h, alias(h), p) /\ Mueve(h, "is_connected", [loc[h] EXCEPT !.res = 0])
    BY <1>7 DEF ConEscribir, EscribeConexion
  <2> HIDE DEF p
  <2>3. GlobalOK'
    BY <1>2, <2>0, <2>2, EscribePerfilBien DEF IInv
  <2>4. HilosOK'
    BY <1>3, <2>1, <2>2, MueveBien DEF EscribePerfil, IInv
  <2> QED
    BY <2>3, <2>4 DEF IInv
<1> QED
  BY <1>4, <1>5, <1>6, <1>7 DEF connect_gestiones

LEMMA DisconnectBien ==
  ASSUME IInv, NEW h \in Hilos, disconnect_gestiones(h)
  PROVE  IInv'
<1>0. loc[h] \in Local
  BY DEF IInv, HilosOK
<1>1. pc[h] \in PcDisconnect /\ pet[h].op = "DISCONNECT" /\ pet[h] # SinPeticion
  BY DEF IInv, HilosOK, Encaja, disconnect_gestiones, DesAccess, DesLeer, DesEscribir, Access, En
<1>2. alias(h) \in Alias
  BY <1>1, TienePeticion DEF IInv
<1>3. \A sig \in PcDisconnect \cup {"responder"} :
        sig \in Pcs /\ Encaja(sig, pet[h]) /\ \A l : Cuadra(sig, l)
  BY <1>1 DEF Encaja, Cuadra
<1>4. CASE DesAccess(h)
  BY <1>3, <1>4, SigueBien DEF DesAccess, Access
<1>5. CASE DesLeer(h)
  BY <1>2, <1>3, <1>5, SigueBien, LecturasTipo, AbrePerfilBien DEF DesLeer, IInv
<1>6. CASE DesEscribir(h)
  <2> DEFINE p == [PerfilNuevo EXCEPT !.last_id = loc[h].reg.last_id]
  <2>0. p \in Perfil
    BY <1>0, LocalCampos, PerfilNuevoEsPerfil DEF Perfil
  <2>1. [loc[h] EXCEPT !.res = 0] \in Local
    BY <1>0, Codigos, LocalCon, Zenon
  <2>2. EscribePerfil(h, alias(h), p) /\ Mueve(h, "responder", [loc[h] EXCEPT !.res = 0])
    BY <1>6 DEF DesEscribir
  <2> HIDE DEF p
  <2>3. GlobalOK'
    BY <1>2, <2>0, <2>2, EscribePerfilBien DEF IInv
  <2>4. HilosOK'
    BY <1>3, <2>1, <2>2, MueveBien DEF EscribePerfil, IInv
  <2> QED
    BY <2>3, <2>4 DEF IInv
<1> QED
  BY <1>4, <1>5, <1>6 DEF disconnect_gestiones

LEMMA SendBien ==
  ASSUME IInv, NEW h \in Hilos, send_to_server_gestiones(h)
  PROVE  IInv'
<1>0. loc[h] \in Local
  BY DEF IInv, HilosOK
<1>1. pc[h] \in PcSend /\ pet[h].op = "SEND" /\ pet[h] # SinPeticion
  BY DEF IInv, HilosOK, Encaja, send_to_server_gestiones, EnvRemitente, EnvMensajes, EnvPerfil,
         EnvLeer, EnvEscribir, EscribeContador, EnvAbrir, EnvAnexar, Access, En
<1>2. alias(h) \in Alias /\ dest(h) \in Alias
  BY <1>1, TienePeticion DEF IInv
<1>3. \A sig \in PcSend \cup {"is_connected"} :
        sig \in Pcs /\ Encaja(sig, pet[h]) /\ \A l : Cuadra(sig, l)
  BY <1>1 DEF Encaja, Cuadra
<1>4. CASE EnvRemitente(h) \/ EnvMensajes(h) \/ EnvPerfil(h)
  BY <1>3, <1>4, SigueBien DEF EnvRemitente, EnvMensajes, EnvPerfil, Access
<1>5. CASE EnvLeer(h)
  BY <1>2, <1>3, <1>5, SigueBien, LecturasTipo, AbrePerfilBien DEF EnvLeer, IInv
<1>6. CASE EnvEscribir(h)
  <2> DEFINE p == [loc[h].reg EXCEPT !.last_id = loc[h].reg.last_id + 1]
             l == [loc[h] EXCEPT !.id = loc[h].reg.last_id + 1]
  <2>1. loc[h].reg \in Perfil
    BY <1>0, LocalCampos
  <2>2. p \in Perfil /\ loc[h].reg.last_id + 1 \in Int
    BY <2>1 DEF Perfil
  <2>3. l \in Local
    BY <1>0, <2>2, Codigos, LocalCon, Zenon
  <2>4. EscribePerfil(h, dest(h), p) /\ Mueve(h, "env_abrir", l)
    BY <1>6 DEF EnvEscribir, EscribeContador
  <2> HIDE DEF p, l
  <2>5. GlobalOK'
    BY <1>2, <2>2, <2>4, EscribePerfilBien DEF IInv
  <2>6. HilosOK'
    BY <1>3, <2>3, <2>4, MueveBien DEF EscribePerfil, IInv
  <2> QED
    BY <2>5, <2>6 DEF IInv
<1>7. CASE Devuelve(h, 2, "is_connected")
  BY <1>3, <1>7, SigueBien
<1>8. CASE EnvAbrir(h) /\ ~Devuelve(h, 2, "is_connected")
  <2>1. GlobalOK'
    <3>1. /\ mensajes[dest(h)] # NoHay /\ abierto' = [abierto EXCEPT ![h] = <<"mensajes", dest(h)>>]
          /\ UNCHANGED <<disco, estaticas, estado, clientes, historia, cotas>>
      BY <1>8 DEF EnvAbrir
    <3>2. abierto' \in [Hilos -> Ficheros \cup {Cerrado}]
      BY <1>2, <3>1 DEF IInv, GlobalOK, Ficheros
    <3>3. \A g \in Hilos, a \in Alias : abierto'[g] = <<"mensajes", a>> => mensajes[a] # NoHay
      BY <1>2, <3>1 DEF IInv, GlobalOK
    <3> QED
      BY <3>1, <3>2, <3>3 DEF IInv, GlobalOK, disco, estaticas, clientes, historia, cotas
  <2>2. Len(mensajes[dest(h)]) \in Nat
    BY <1>2, <1>8, BuzonEsSecuencia DEF EnvAbrir, IInv
  <2> DEFINE k == Len(mensajes[dest(h)]) + 1
  <2>3. [loc[h] EXCEPT !.pos = k] \in Local
    <3>1. k \in Nat
      BY <2>2
    <3> HIDE DEF k
    <3> QED
      BY <1>0, <3>1, Codigos, LocalCon, Zenon
  <2>4. HilosOK'
    BY <1>3, <1>8, <2>3, MueveBien DEF EnvAbrir, IInv
  <2> QED
    BY <2>1, <2>4 DEF IInv
<1>9. CASE EnvAnexar(h)
  <2> DEFINE m == [id |-> loc[h].id, remitente |-> alias(h), mensaje |-> loc[h].uid]
  <2>0. m \in Mensaje /\ loc[h].pos \in Nat
    BY <1>0, <1>2, LocalCampos DEF Mensaje
  <2>1. [loc[h] EXCEPT !.res = 0] \in Local
    BY <1>0, Codigos, LocalCon, Zenon
  <2>2. /\ mensajes' = IF abierto[h] = <<"mensajes", dest(h)>>
                       THEN [mensajes EXCEPT ![dest(h)] = EscribirEn(@, loc[h].pos, m)]
                       ELSE mensajes
        /\ abierto' = [abierto EXCEPT ![h] = Cerrado]
        /\ UNCHANGED <<perfiles, estaticas, estado, pet, clientes, historia, cotas>>
        /\ Mueve(h, "is_connected", [loc[h] EXCEPT !.res = 0])
    BY <1>9 DEF EnvAnexar
  <2> HIDE DEF m
  <2>3. abierto[h] = <<"mensajes", dest(h)>>
          => EscribirEn(mensajes[dest(h)], loc[h].pos, m) \in Seq(Mensaje)
    BY <1>2, <2>0, BuzonEsSecuencia, EscribirEnTipo DEF IInv, GlobalOK
  <2>4. /\ mensajes' \in [Alias -> FicherosMensajes]
        /\ \A a \in Alias : mensajes[a] # NoHay => mensajes'[a] # NoHay
    BY <1>2, <2>2, <2>3, FicherosAparte DEF IInv, GlobalOK, FicherosMensajes
  <2>5. GlobalOK'
    BY <2>2, <2>4, CerradoAparte DEF IInv, GlobalOK, Ficheros, estaticas, clientes, historia, cotas
  <2>6. HilosOK'
    BY <1>3, <2>1, <2>2, MueveBien DEF IInv
  <2> QED
    BY <2>5, <2>6 DEF IInv
<1> QED
  BY <1>4, <1>5, <1>6, <1>7, <1>8, <1>9 DEF send_to_server_gestiones

(* The common part of the steps that look up whether somebody is connected.*)
LEMMA ConsultaBien ==
  ASSUME IInv, NEW h \in Hilos, NEW a \in Alias, NEW sig \in Pcs, Encaja(sig, pet[h]),
         sig \notin {"ids", "remitentes", "mensajes", "conectar", "entregar"}, NEW r \in 0..3,
         \E reg \in Lecturas(a) :
           \/ Va(h, sig, [loc[h] EXCEPT !.IP = IPde(reg), !.port = reg.port, !.res = r])
           \/ Cae("SIGSEGV")
  PROVE  IInv'
<1>1. CASE Cae("SIGSEGV")
  BY <1>1, CaeBien DEF Estados
<1>2. ASSUME NEW reg \in Lecturas(a),
             Va(h, sig, [loc[h] EXCEPT !.IP = IPde(reg), !.port = reg.port, !.res = r])
      PROVE  IInv'
  <2>1. reg \in Perfil
    BY LecturasTipo DEF IInv
  <2>2. IPde(reg) \in IPs \cup {SinIP} /\ reg.port \in Puertos \cup {SinPuerto}
    BY <2>1 DEF IPde, Perfil
  <2>3. loc[h] \in Local
    BY DEF IInv, HilosOK
  <2>4. [loc[h] EXCEPT !.IP = IPde(reg), !.port = reg.port, !.res = r] \in Local
    BY <2>2, <2>3, Codigos, LocalCon, Zenon
  <2> QED
    BY <1>2, <2>4, VaBien DEF Cuadra
<1> QED
  BY <1>1, <1>2

LEMMA IsConnectedBien ==
  ASSUME IInv, NEW h \in Hilos, IsConnected(h)
  PROVE  IInv'
<1>1. pc[h] = "is_connected" /\ pet[h].op \in {"CONNECT", "SEND"} /\ pet[h] # SinPeticion
  BY DEF IInv, HilosOK, Encaja, IsConnected, En
<1>2. Destino(h) \in Alias
  BY <1>1, TienePeticion DEF IInv
<1>3. loc[h].res \in 0..3
  BY LocalCampos DEF IInv, HilosOK
<1>4. "num" \in Pcs /\ Encaja("num", pet[h]) /\ "responder" \in Pcs /\ Encaja("responder", pet[h])
  BY <1>1 DEF Encaja
<1>5. CASE Sigue(h, "responder")
  BY <1>4, <1>5, SigueBien
<1>6. CASE ~Sigue(h, "responder")
  BY <1>2, <1>3, <1>4, <1>6, ConsultaBien DEF IsConnected, is_connected
<1> QED
  BY <1>5, <1>6

(* What the passes over a mailbox yield for a batch as long as the count.  *)
LEMMA PasadaBien ==
  ASSUME IInv, NEW h \in Hilos, NEW l \in Leidas(h), mensajes[Destino(h)] # NoHay,
         Destino(h) \in Alias, Len(loc[h].lote) = loc[h].n
  PROVE  \A lote \in {ConIDs(loc[h].lote, l), ConRemitentes(loc[h].lote, l), ConMensajes(loc[h].lote, l)} :
           /\ lote \in Seq(Mensaje) /\ Len(lote) = loc[h].n
           /\ [loc[h] EXCEPT !.lote = lote] \in Local
           /\ [loc[h] EXCEPT !.lote = lote].lote = lote
           /\ [loc[h] EXCEPT !.lote = lote].n = loc[h].n
<1> DEFINE n == loc[h].n
<1>1. loc[h] \in Local
  BY DEF IInv, HilosOK
<1>2. n \in Nat /\ loc[h].lote \in [1..n -> Mensaje]
  BY <1>1, LocalCampos, LenProperties
<1>3. l \in [1..n -> Mensaje]
  <2>1. mensajes[Destino(h)] \in Seq(Mensaje)
    BY BuzonEsSecuencia DEF IInv
  <2>2. PICK resto \in MensajesBasura : l = Leidos(mensajes[Destino(h)], n, resto)
    BY DEF Leidas
  <2>3. resto \in Mensaje
    BY Parametros
  <2> QED
    BY <1>2, <2>1, <2>2, <2>3, LeidosTipo
<1>4. \A lote \in {ConIDs(loc[h].lote, l), ConRemitentes(loc[h].lote, l), ConMensajes(loc[h].lote, l)} :
        lote \in Seq(Mensaje) /\ Len(lote) = n
  <2> HIDE DEF n
  <2>1. \A lote \in {ConIDs(loc[h].lote, l), ConRemitentes(loc[h].lote, l), ConMensajes(loc[h].lote, l)} :
          lote \in [1..n -> Mensaje]
    BY <1>2, <1>3, ConTipo
  <2> QED
    BY <1>2, <2>1, EsSecuencia
<1>5. \A lote \in Seq(Mensaje) : [loc[h] EXCEPT !.lote = lote] \in Local
  BY <1>1, LocalCon, Zenon
<1>6. \A lote : /\ [loc[h] EXCEPT !.lote = lote].lote = lote
                /\ [loc[h] EXCEPT !.lote = lote].n = loc[h].n
  BY <1>1 DEF Local
<1> QED
  BY <1>4, <1>5, <1>6

LEMMA ExtraerBien ==
  ASSUME IInv, NEW h \in Hilos, ExtraerIDs(h) \/ ExtraerRemitentes(h) \/ ExtraerMensajes(h)
  PROVE  IInv'
<1>1. /\ pc[h] \in {"ids", "remitentes", "mensajes"} /\ pet[h].op \in {"CONNECT", "SEND"}
      /\ pet[h] # SinPeticion /\ Len(loc[h].lote) = loc[h].n
  BY DEF IInv, HilosOK, Encaja, Cuadra, ExtraerIDs, ExtraerRemitentes, ExtraerMensajes, Lee, En
<1>2. Destino(h) \in Alias
  BY <1>1, TienePeticion DEF IInv
<1>3. \A sig \in {"remitentes", "mensajes", "vaciar"} : sig \in Pcs /\ Encaja(sig, pet[h])
  BY <1>1 DEF Encaja
<1>4. CASE Cae("exit(1)")
  BY <1>4, CaeBien DEF Estados
<1>5. CASE ExtraerIDs(h) /\ ~Cae("exit(1)")
  <2>1. PICK l \in Leidas(h) : Va(h, "remitentes", [loc[h] EXCEPT !.lote = ConIDs(loc[h].lote, l)])
    BY <1>5 DEF ExtraerIDs, Lee
  <2>2. mensajes[Destino(h)] # NoHay
    BY <1>5 DEF ExtraerIDs, Lee
  <2> QED
    BY <1>1, <1>2, <1>3, <2>1, <2>2, PasadaBien, VaBien DEF Cuadra
<1>6. CASE ExtraerRemitentes(h) /\ ~Cae("exit(1)")
  <2>1. PICK l \in Leidas(h) : Va(h, "mensajes", [loc[h] EXCEPT !.lote = ConRemitentes(loc[h].lote, l)])
    BY <1>6 DEF ExtraerRemitentes, Lee
  <2>2. mensajes[Destino(h)] # NoHay
    BY <1>6 DEF ExtraerRemitentes, Lee
  <2> QED
    BY <1>1, <1>2, <1>3, <2>1, <2>2, PasadaBien, VaBien DEF Cuadra
<1>7. CASE ExtraerMensajes(h) /\ ~Cae("exit(1)")
  <2>1. PICK l \in Leidas(h) : Va(h, "vaciar", [loc[h] EXCEPT !.lote = ConMensajes(loc[h].lote, l)])
    BY <1>7 DEF ExtraerMensajes, Lee
  <2>2. mensajes[Destino(h)] # NoHay
    BY <1>7 DEF ExtraerMensajes, Lee
  <2> QED
    BY <1>1, <1>2, <1>3, <2>1, <2>2, PasadaBien, VaBien DEF Cuadra
<1> QED
  BY <1>4, <1>5, <1>6, <1>7

LEMMA BuzonLeidoBien ==
  ASSUME IInv, NEW h \in Hilos, NumMensajesPendientes(h) \/ Contar(h) \/ VaciarMensajes(h)
  PROVE  IInv'
<1>0. loc[h] \in Local
  BY DEF IInv, HilosOK
<1>1. /\ pc[h] \in {"num", "contar", "vaciar"} /\ pet[h].op \in {"CONNECT", "SEND"}
      /\ pet[h] # SinPeticion
  BY DEF IInv, HilosOK, Encaja, NumMensajesPendientes, Contar, ContarComo, VaciarMensajes, Lee, En
<1>2. Destino(h) \in Alias
  BY <1>1, TienePeticion DEF IInv
<1>3. \A sig \in {"contar", "ids", "resolver", "responder"} : sig \in Pcs /\ Encaja(sig, pet[h])
  BY <1>1 DEF Encaja
<1>4. CASE Cae("exit(1)") \/ Cae("SIGSEGV")
  BY <1>4, CaeBien DEF Estados
<1>5. CASE NumMensajesPendientes(h) /\ ~Cae("exit(1)")
  BY <1>3, <1>5, SigueBien DEF NumMensajesPendientes, Lee, NumMayorQue
<1>6. CASE Contar(h) /\ ~Cae("exit(1)")
  <2> DEFINE n == Len(mensajes[Destino(h)])
             lote == [i \in 1..n |-> Hueco]
             l == [loc[h] EXCEPT !.n = n, !.lote = lote]
  <2>1. n \in Nat /\ Va(h, "ids", l)
    BY <1>2, <1>6, BuzonEsSecuencia DEF Contar, ContarComo, Lee, IInv
  <2>2. lote \in Seq(Mensaje) /\ Len(lote) = n
    BY <2>1, HuecoEsMensaje, EsSecuencia
  <2> HIDE DEF n, lote
  <2>3. l \in Local
    BY <1>0, <2>1, <2>2, LocalCon, Zenon
  <2>4. l.lote = lote /\ l.n = n
    BY <1>0 DEF Local
  <2> QED
    BY <1>3, <2>1, <2>2, <2>3, <2>4, VaBien DEF Cuadra
<1>7. CASE VaciarMensajes(h) /\ ~Cae("SIGSEGV")
  <2>1. DejaBuzon(h, <<>>, "resolver", [loc[h] EXCEPT !.n = 0])
    BY <1>7 DEF VaciarMensajes
  <2>2. GlobalOK'
    BY <1>2, <2>1, BuzonBien, EmptySeq DEF DejaBuzon, IInv
  <2>3. [loc[h] EXCEPT !.n = 0] \in Local
    BY <1>0, Codigos, LocalCon, Zenon
  <2>4. HilosOK'
    BY <1>3, <2>1, <2>3, MueveBien DEF DejaBuzon, IInv, Cuadra
  <2> QED
    BY <2>2, <2>4 DEF IInv
<1> QED
  BY <1>4, <1>5, <1>6, <1>7 DEF NumMensajesPendientes, Contar, ContarComo, Lee, VaciarMensajes

(* The return of envio_mensajes_pendientes.                                *)
LEMMA FinEnvioBien ==
  ASSUME IInv, NEW h \in Hilos, NEW r \in 0..3, Encaja("entregar", pet[h]), FinEnvio(h, r)
  PROVE  IInv'
<1>1. loc[h] \in Local
  BY DEF IInv, HilosOK
<1>2. [loc[h] EXCEPT !.lote = <<>>] \in Local /\ [loc[h] EXCEPT !.lote = <<>>, !.res = r] \in Local
  BY <1>1, EmptySeq, Codigos, LocalCon, Zenon
<1>3. pet[h].op # "SEND" => Encaja("responder", pet[h])
  BY DEF Encaja
<1>4. pet[h].op = "SEND" => Encaja("ack_is_connected", pet[h])
  BY DEF Encaja
<1> QED
  BY <1>2, <1>3, <1>4, VaBien DEF FinEnvio, Cuadra

LEMMA ResuelveBien ==
  ASSUME IInv, NEW h \in Hilos, NEW sig \in Pcs, NEW l \in Local, Encaja(sig, pet[h]), Cuadra(sig, l),
         Resuelve(h, sig, l)
  PROVE  IInv'
<1>1. CASE Cae("SIGSEGV")
  BY <1>1, CaeBien DEF Estados
<1>2. CASE ~Cae("SIGSEGV")
  <2>1. loc[h].IP \in IPs
    BY <1>2, LocalCampos DEF Resuelve, IInv, HilosOK
  <2>2. GlobalOK'
    BY <1>2, <2>1 DEF Resuelve, IInv, GlobalOK, disco, clientes, historia, cotas
  <2>3. HilosOK'
    BY <1>2, MueveBien DEF Resuelve, IInv
  <2> QED
    BY <2>2, <2>3 DEF IInv
<1> QED
  BY <1>1, <1>2

LEMMA TransmiteBien ==
  ASSUME IInv, NEW h \in Hilos, NEW t \in Texto, NEW sig \in Pcs, NEW l \in Local,
         Encaja(sig, pet[h]), Cuadra(sig, l), Transmite(h, t, sig, l)
  PROVE  IInv'
<1>1. loc[h].dir \in Dirs
  BY DEF Transmite, IInv, GlobalOK
<1>2. recibidos' \in [Dirs -> Seq(Texto)]
  BY <1>1 DEF Transmite, IInv, GlobalOK
<1>3. GlobalOK'
  BY <1>2 DEF Transmite, IInv, GlobalOK, disco, estaticas, historia, cotas
<1>4. HilosOK'
  BY MueveBien DEF Transmite, IInv
<1> QED
  BY <1>3, <1>4 DEF IInv

(* A connection goes to an address made of the static buffer and the port. *)
LEMMA DirBien ==
  ASSUME IInv, NEW h \in Hilos
  PROVE  [loc[h] EXCEPT !.dir = <<hostent, loc[h].port>>] \in Local
<1>1. loc[h] \in Local /\ hostent \in IPs
  BY DEF IInv, HilosOK, GlobalOK
<1>2. loc[h].port \in Puertos \cup {SinPuerto}
  BY <1>1, LocalCampos
<1> QED
  BY <1>1, <1>2, Codigos, LocalCon, Zenon

LEMMA EnvioBien ==
  ASSUME IInv, NEW h \in Hilos, EnvioResolver(h) \/ EnvioConectar(h) \/ EnvioEntregar(h)
  PROVE  IInv'
<1>0. loc[h] \in Local
  BY DEF IInv, HilosOK
<1>1. /\ pc[h] \in {"resolver", "conectar", "entregar"} /\ pet[h].op \in {"CONNECT", "SEND"}
      /\ pet[h] # SinPeticion
  BY DEF IInv, HilosOK, Encaja, EnvioResolver, EnvioConectar, EnvioEntregar, En
<1>2. \A sig \in {"resolver", "conectar", "entregar"} : sig \in Pcs /\ Encaja(sig, pet[h])
  BY <1>1 DEF Encaja
<1>3. CASE FinEnvio(h, 0) \/ FinEnvio(h, 3)
  BY <1>2, <1>3, FinEnvioBien
<1>4. CASE EnvioResolver(h) /\ ~FinEnvio(h, 0) /\ ~FinEnvio(h, 3)
  <2>1. loc[h].lote # <<>> /\ Resuelve(h, "conectar", loc[h])
    BY <1>4 DEF EnvioResolver
  <2> QED
    BY <1>0, <1>2, <2>1, ResuelveBien DEF Cuadra
<1>5. CASE EnvioConectar(h) /\ ~FinEnvio(h, 3)
  <2> DEFINE l == [loc[h] EXCEPT !.dir = <<hostent, loc[h].port>>]
  <2>1. Va(h, "entregar", l)
    BY <1>5 DEF EnvioConectar
  <2>2. l \in Local
    BY DirBien
  <2>4. l.lote = loc[h].lote
    BY <1>0 DEF Local
  <2>3. loc[h].lote # <<>>
    BY <1>5 DEF EnvioConectar, En, IInv, HilosOK, Cuadra
  <2> QED
    BY <1>2, <2>1, <2>2, <2>3, <2>4, VaBien DEF Cuadra
<1>6. CASE EnvioEntregar(h) /\ ~FinEnvio(h, 3)
  <2> DEFINE resto == [loc[h] EXCEPT !.lote = Tail(@)]
             m == Head(loc[h].lote)
             t == [tipo |-> "SEND_MESSAGE", id |-> m.id, remitente |-> m.remitente, mensaje |-> m.mensaje]
  <2>1. loc[h].lote # <<>> /\ loc[h].lote \in Seq(Mensaje)
    BY <1>0, <1>6, LocalCampos DEF EnvioEntregar, En, IInv, HilosOK, Cuadra
  <2>2. m \in Mensaje /\ Tail(loc[h].lote) \in Seq(Mensaje)
    BY <2>1, HeadTailProperties
  <2>3. resto \in Local
    BY <1>0, <2>2, Codigos, LocalCon, Zenon
  <2>4. t \in Texto
    BY <2>2 DEF Texto, Mensaje
  <2>5. Transmite(h, t, "resolver", resto) \/ Va(h, "resolver", resto) \/ Cae("SIGPIPE")
    BY <1>6 DEF EnvioEntregar
  <2> HIDE DEF resto, t
  <2>6. Cuadra("resolver", resto)
    BY DEF Cuadra
  <2> QED
    BY <1>2, <2>3, <2>4, <2>5, <2>6, TransmiteBien, VaBien, CaeBien DEF Estados
<1> QED
  BY <1>3, <1>4, <1>5, <1>6

LEMMA AckBien ==
  ASSUME IInv, NEW h \in Hilos, envio_ack(h)
  PROVE  IInv'
<1>0. loc[h] \in Local
  BY DEF IInv, HilosOK
<1>1. pc[h] \in PcAck /\ pet[h].op = "SEND" /\ pet[h] # SinPeticion
  BY DEF IInv, HilosOK, Encaja, envio_ack, AckIsConnected, AckResolver, AckConectar, AckIdAccess,
         AckIdLeer, AckEnviar, IdAccess, IdLeer, En
<1>2. alias(h) \in Alias /\ dest(h) \in Alias
  BY <1>1, TienePeticion DEF IInv
<1>3. \A sig \in PcAck \cup {"responder"} :
        sig \in Pcs /\ Encaja(sig, pet[h]) /\ \A l : Cuadra(sig, l)
  BY <1>1 DEF Encaja, Cuadra
<1>4. CASE Devuelve(h, 2, "responder") \/ Devuelve(h, 3, "responder") \/ Sigue(h, "responder")
  BY <1>3, <1>4, SigueBien
<1>5. CASE Cae("SIGPIPE")
  BY <1>5, CaeBien DEF Estados
<1>6. CASE AckIsConnected(h) /\ ~Devuelve(h, 2, "responder")
  <2>1. \E reg \in Lecturas(alias(h)) :
          \/ Va(h, "ack_resolver", [loc[h] EXCEPT !.IP = IPde(reg), !.port = reg.port, !.res = 0])
          \/ Cae("SIGSEGV")
    BY <1>6 DEF AckIsConnected, is_connected
  <2>2. "ack_resolver" \in Pcs /\ Encaja("ack_resolver", pet[h]) /\ 0 \in 0..3
    BY <1>3
  <2> HIDE DEF Pcs
  <2> QED
    BY <1>2, <2>1, <2>2, ConsultaBien
<1>7. CASE AckResolver(h)
  <2>1. [loc[h] EXCEPT !.res = 3] \in Local
    BY <1>0, Codigos, LocalCon, Zenon
  <2> QED
    BY <1>0, <1>3, <1>7, <2>1, ResuelveBien DEF AckResolver
<1>8. CASE AckConectar(h) /\ ~Cae("SIGPIPE")
  BY <1>3, <1>8, DirBien, VaBien DEF AckConectar
<1>9. CASE AckIdAccess(h) \/ AckIdLeer(h)
  <2>1. \/ Va(h, "ack_id_leer", loc[h])
        \/ \E id \in Int : Va(h, "ack_enviar", [loc[h] EXCEPT !.ultimo = id])
    BY <1>2, <1>9, UltimoLeido DEF AckIdAccess, AckIdLeer, IInv
  <2>2. \A id \in Int : [loc[h] EXCEPT !.ultimo = id] \in Local
    BY <1>0, LocalCon, Zenon
  <2> QED
    BY <1>0, <1>3, <2>1, <2>2, VaBien
<1>10. CASE AckEnviar(h)
  <2> DEFINE t == [tipo |-> "SEND_MESS_ACK", id |-> loc[h].ultimo, remitente |-> Nadie, mensaje |-> 0]
  <2>1. t \in Texto
    BY <1>0, LocalCampos DEF Texto
  <2>2. Transmite(h, t, "responder", loc[h]) => IInv'
    <3> HIDE DEF t
    <3> QED
      BY <1>0, <1>3, <2>1, TransmiteBien
  <2> QED
    BY <1>4, <1>5, <1>10, <2>2 DEF AckEnviar
<1> QED
  BY <1>4, <1>5, <1>6, <1>7, <1>8, <1>9, <1>10 DEF envio_ack

LEMMA FinBien ==
  ASSUME IInv, NEW h \in Hilos,
         OpInvalida(h) \/ Responder(h) \/ UltimoIdAccess(h) \/ UltimoIdLeer(h) \/ Cerrar(h)
  PROVE  IInv'
<1>0. loc[h] \in Local
  BY DEF IInv, HilosOK
<1>1. pc[h] \in PcFin /\ pet[h] # SinPeticion
  BY DEF IInv, HilosOK, Encaja, OpInvalida, Responder, UltimoIdAccess, UltimoIdLeer, IdAccess, IdLeer,
         Cerrar, En
<1>2. /\ Encaja("cerrar", pet[h])
      /\ pet[h].op = "SEND" => Encaja("id_access", pet[h]) /\ Encaja("id_leer", pet[h])
  BY <1>1 DEF Encaja
<1>3. CASE OpInvalida(h)
  BY <1>3, CaeBien DEF OpInvalida, Estados
<1>4. CASE Responder(h)
  <2>0. loc[h].res \in 0..3
    BY <1>0, LocalCampos
  <2>1. [loc[h] EXCEPT !.codigo = loc[h].res] \in Local
    BY <1>0, <2>0, LocalCon, Zenon
  <2> QED
    BY <1>2, <1>4, <2>1, VaBien DEF Responder, Cuadra
<1>5. CASE UltimoIdAccess(h) \/ UltimoIdLeer(h)
  <2>1. pet[h].op = "SEND"
    BY <1>5 DEF IInv, HilosOK, Encaja, UltimoIdAccess, UltimoIdLeer, IdAccess, IdLeer, En
  <2>2. \/ Va(h, "id_leer", loc[h])
        \/ \E id \in Int : Va(h, "cerrar", [loc[h] EXCEPT !.ultimo = id])
    BY <1>1, <1>5, TienePeticion, UltimoLeido DEF UltimoIdAccess, UltimoIdLeer, IInv
  <2>3. \A id \in Int : [loc[h] EXCEPT !.ultimo = id] \in Local
    BY <1>0, LocalCon, Zenon
  <2> QED
    BY <1>0, <1>2, <2>1, <2>2, <2>3, VaBien DEF Cuadra
<1>6. CASE Cerrar(h)
  <2>1. GlobalOK'
    BY <1>0, <1>6, LocalCampos DEF Cerrar, IInv, GlobalOK, disco, estaticas, clientes, cotas
  <2>2. Encaja("libre", SinPeticion) /\ Cuadra("libre", LocalInicial)
    BY DEF Encaja, Cuadra
  <2>3. HilosOK'
    BY <1>6, <2>2, LocalInicialTipo DEF Cerrar, IInv, HilosOK, Mueve
  <2> QED
    BY <2>1, <2>3 DEF IInv
<1> QED
  BY <1>3, <1>4, <1>5, <1>6

LEMMA EntornoBien ==
  ASSUME IInv, (\E d \in Dirs : ClienteMuere(d)) \/ Matar \/ Reiniciar \/ UNCHANGED vars
  PROVE  IInv'
<1>1. CASE Matar
  BY <1>1, CaeBien DEF Matar, Estados
<1>2. CASE ~Matar
  <2>1. GlobalOK'
    <3>1. ASSUME NEW d \in Dirs, ClienteMuere(d) PROVE GlobalOK'
      BY <3>1 DEF ClienteMuere, IInv, GlobalOK, disco, estaticas, hilos, historia
    <3>2. CASE Reiniciar
      BY <3>2 DEF Reiniciar, IInv, GlobalOK, Estados, disco, estaticas, hilos, clientes, historia
    <3>3. CASE UNCHANGED vars
      BY <3>3 DEF IInv, GlobalOK, vars, disco, estaticas, hilos, clientes, historia, cotas
    <3> QED
      BY <1>2, <3>1, <3>2, <3>3
  <2>2. UNCHANGED <<pc, pet, loc>>
    BY <1>2 DEF ClienteMuere, Reiniciar, vars, hilos
  <2>3. HilosOK'
    BY <2>2 DEF IInv, HilosOK
  <2> QED
    BY <2>1, <2>3 DEF IInv
<1> QED
  BY <1>1, <1>2

-----------------------------------------------------------------------------
LEMMA PasoIInv == IInv /\ [Next]_vars => IInv'
<1> SUFFICES ASSUME IInv, [Next]_vars PROVE IInv'
  OBVIOUS
<1>1. ASSUME NEW h \in Hilos, tratar_mensaje(h) PROVE IInv'
  BY <1>1, RegisterBien, UnregisterBien, ConnectBien, DisconnectBien, SendBien, IsConnectedBien,
     BuzonLeidoBien, ExtraerBien, EnvioBien, AckBien, FinBien
  DEF tratar_mensaje, envio_mensajes_pendientes
<1> QED
  BY <1>1, RecibirBien, EntornoBien DEF Next

(* The inductive invariant holds in every reachable state.                 *)
THEOREM SpecIInv == Spec => []IInv
BY InitIInv, PasoIInv, PTL DEF Spec

(* The files, the threads and the clients hold values of their kind in     *)
(* every reachable state, and no thread is ever at a step of an operation  *)
(* it was not asked for.                                                   *)
THEOREM TipoCorrecto == Spec => []TypeOK
BY SpecIInv, IInvTypeOK, PTL
=============================================================================
