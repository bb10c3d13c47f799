-------------------------- MODULE ServidorCuentas --------------------------
(***************************************************************************)
(* Proofs about the accounts: that the two files of a user exist together, *)
(* and that the server exits for want of a mailbox only while the user is  *)
(* being registered or removed.  Both are about a server that can open its *)
(* files and is in its first run: a crash between the two fopen of a       *)
(* REGISTER leaves a profile without a mailbox for ever.                   *)
(***************************************************************************)
EXTENDS ServidorTipos

Primera == estado = "activo" /\ arranques = 0

(* The steps at which a thread has found a profile and counts on a mailbox.*)
PcBuzon == {"num", "contar", "ids", "remitentes", "mensajes"}

(* The inductive invariant.  A profile that is open has not been removed;  *)
(* a thread about to remove a mailbox has begun an UNREGISTER; a profile   *)
(* has its mailbox unless the user comes or goes, and so has the receiver  *)
(* a thread is about to read the messages of.                              *)
AbiertosEstan == \A h \in Hilos, a \in Alias : abierto[h] = <<"perfil", a>> => perfiles[a] # NoHay
DeBaja        == \A h \in Hilos : pc[h] = "baja_mensajes" => alias(h) \in bajas
TieneBuzon(a) == mensajes[a] # NoHay \/ EnTramite(a)
CuentasOK ==
  /\ AbiertosEstan /\ DeBaja
  /\ Primera => /\ \A a \in Alias : perfiles[a] # NoHay => TieneBuzon(a)
                /\ \A h \in Hilos : pc[h] \in PcBuzon => TieneBuzon(Destino(h))

(* With one client application per alias, moreover, no two threads serve   *)
(* the same user, and the profile is gone when the mailbox is removed.     *)
UnoPorAlias ==
  \A g, h \in Hilos : pet[g] # SinPeticion /\ pet[h] # SinPeticion /\ alias(g) = alias(h) => g = h
Retirado == \A h \in Hilos : pc[h] = "baja_mensajes" => perfiles[alias(h)] = NoHay
ParejasOK == UnoPorAlias /\ (Primera => Retirado /\ Emparejados)

-----------------------------------------------------------------------------
(* Most steps create and remove no file: thread h moves on, the profiles   *)
(* that exist are the same, no mailbox disappears and what is opened is    *)
(* there.                                                                  *)
Tranquilo(h) ==
  /\ \E sig, l : /\ Mueve(h, sig, l)
                 /\ sig \notin {"baja_mensajes", "reg_mensajes"}
                 /\ sig \in PcBuzon => pc[h] \in PcBuzon \/ perfiles[Destino(h)] # NoHay
  /\ pc[h] \notin {"reg_mensajes", "libre"}
  /\ UNCHANGED <<estado, pet, bajas, arranques>>
  /\ \A a \in Alias : /\ perfiles'[a] = NoHay <=> perfiles[a] = NoHay
                      /\ mensajes[a] # NoHay => mensajes'[a] # NoHay
  /\ \A g \in Hilos, a \in Alias :
       abierto'[g] = <<"perfil", a>> => abierto[g] = <<"perfil", a>> \/ perfiles[a] # NoHay

(* The steps that do create or remove a file, or end a request.            *)
Mudanza(h) ==
  \/ En(h, "reg_perfil") /\ CreaPerfil(h, "reg_mensajes")
  \/ RegMensajes(h)
  \/ BajaPerfil(h) /\ perfiles[alias(h)] # NoHay
  \/ BajaMensajes(h) /\ mensajes[alias(h)] # NoHay
  \/ Cerrar(h)
  \/ \E causa : causa # "activo" /\ Cae(causa)

(* Moving on and touching nothing else is a quiet step.                    *)
LEMMA VaTranquilo ==
  ASSUME NEW h \in Hilos, NEW sig, NEW l, Va(h, sig, l),
         pc[h] \notin {"reg_mensajes", "libre"}, sig \notin {"baja_mensajes", "reg_mensajes"},
         sig \in PcBuzon => pc[h] \in PcBuzon \/ perfiles[Destino(h)] # NoHay
  PROVE  Tranquilo(h)
<1>1. UNCHANGED <<perfiles, mensajes, abierto, estado, pet, bajas, arranques>> /\ Mueve(h, sig, l)
  BY DEF Va, disco, historia, cotas
<1> QED
  BY <1>1 DEF Tranquilo

LEMMA AbrePerfilTranquilo ==
  ASSUME GlobalOK, NEW h \in Hilos, NEW a \in Alias, NEW sig \in {"con_escribir", "des_escribir", "env_escribir"},
         NEW reg, AbrePerfil(h, a, sig, reg), perfiles[a] # NoHay, pc[h] \notin {"reg_mensajes", "libre"}
  PROVE  Tranquilo(h)
BY DEF AbrePerfil, Tranquilo, disco, historia, cotas, PcBuzon, GlobalOK

LEMMA EscribePerfilTranquilo ==
  ASSUME GlobalOK, AbiertosEstan, NEW h \in Hilos, NEW a \in Alias, NEW p \in Perfil, EscribePerfil(h, a, p),
         NEW sig \in {"responder", "is_connected", "env_abrir"}, NEW l, Mueve(h, sig, l),
         pc[h] \notin {"reg_mensajes", "libre"}
  PROVE  Tranquilo(h)
<1>1. \A b \in Alias : perfiles'[b] = NoHay <=> perfiles[b] = NoHay
  BY FicherosAparte DEF EscribePerfil, GlobalOK, AbiertosEstan
<1>2. \A g \in Hilos, b \in Alias : abierto'[g] = <<"perfil", b>> => abierto[g] = <<"perfil", b>>
  BY CerradoAparte DEF EscribePerfil, GlobalOK, Ficheros
<1> QED
  BY <1>1, <1>2 DEF Tranquilo, EscribePerfil, historia, cotas, PcBuzon

-----------------------------------------------------------------------------
(* The operations: each step is quiet, or one of those listed.             *)

LEMMA RegisterPaso ==
  ASSUME IInv, AbiertosEstan, ~FallosES, NEW h \in Hilos, register_gestiones(h)
  PROVE  Tranquilo(h) \/ Mudanza(h) \/ RegSoloMensajes(h)
<1>1. pc[h] # "libre" => alias(h) \in Alias
  BY TienePeticion DEF IInv
<1>2. CASE RegAccess(h)
  BY <1>2, VaTranquilo DEF RegAccess, Sigue, Devuelve, En, PcBuzon
<1>3. CASE RegPerfil(h)
  BY <1>3 DEF RegPerfil, Mudanza
<1>4. CASE RegEscribir(h)
  BY <1>1, <1>4, EscribePerfilTranquilo, PerfilNuevoEsPerfil DEF RegEscribir, En, IInv
<1> QED
  BY <1>2, <1>3, <1>4 DEF register_gestiones, Mudanza

LEMMA UnregisterPaso ==
  ASSUME IInv, AbiertosEstan, ~FallosES, NEW h \in Hilos, unregister_gestiones(h)
  PROVE  Tranquilo(h) \/ Mudanza(h)
<1>1. CASE BajaAccessPerfil(h) \/ BajaAccessMensajes(h)
  BY <1>1, VaTranquilo DEF BajaAccessPerfil, BajaAccessMensajes, Access, Sigue, Devuelve, En, PcBuzon
<1>2. CASE (BajaPerfil(h) \/ BajaMensajes(h)) /\ Devuelve(h, 2, "responder")
  BY <1>2, VaTranquilo DEF BajaPerfil, BajaMensajes, Devuelve, En, PcBuzon
<1> QED
  BY <1>1, <1>2 DEF unregister_gestiones, Mudanza, BajaPerfil, BajaMensajes

LEMMA ConnectPaso ==
  ASSUME IInv, AbiertosEstan, ~FallosES, NEW h \in Hilos, connect_gestiones(h)
  PROVE  Tranquilo(h)
<1>1. pc[h] \in PcConnect /\ pc[h] # "libre" /\ alias(h) \in Alias /\ loc[h] \in Local
  BY TienePeticion DEF connect_gestiones, ConNtop, TomaDireccion, ConAccess, ConLeer, ConEscribir, EscribeConexion,
                       Access, En, IInv, HilosOK, PcConnect
<1>2. CASE ConNtop(h) \/ ConAccess(h)
  BY <1>2, VaTranquilo DEF ConNtop, TomaDireccion, ConAccess, Access, Sigue, Devuelve, En, PcBuzon
<1>3. CASE ConLeer(h)
  <2>1. CASE Devuelve(h, 3, "is_connected") \/ Devuelve(h, 2, "is_connected")
    BY <1>3, <2>1, VaTranquilo DEF ConLeer, Devuelve, En, PcBuzon
  <2>2. ASSUME NEW reg \in Lecturas(alias(h)), AbrePerfil(h, alias(h), "con_escribir", reg)
        PROVE  Tranquilo(h)
    BY <1>1, <1>3, <2>2, AbrePerfilTranquilo DEF ConLeer, Lecturas, En, IInv
  <2> QED
    BY <1>3, <2>1, <2>2 DEF ConLeer
<1>4. CASE ConEscribir(h)
  <2>1. [status |-> Conectado, IP |-> loc[h].IP, port |-> loc[h].port,
         last_id |-> loc[h].reg.last_id, vivos |-> TRUE] \in Perfil
    BY <1>1, LocalCampos DEF Perfil
  <2> QED
    BY <1>1, <1>4, <2>1, EscribePerfilTranquilo DEF ConEscribir, EscribeConexion, En, IInv
<1> QED
  BY <1>2, <1>3, <1>4 DEF connect_gestiones

LEMMA DisconnectPaso ==
  ASSUME IInv, AbiertosEstan, ~FallosES, NEW h \in Hilos, disconnect_gestiones(h)
  PROVE  Tranquilo(h)
<1>1. pc[h] \in PcDisconnect /\ pc[h] # "libre" /\ alias(h) \in Alias /\ loc[h] \in Local
  BY TienePeticion DEF disconnect_gestiones, DesAccess, DesLeer, DesEscribir, Access, En, IInv, HilosOK, PcDisconnect
<1>2. CASE DesAccess(h)
  BY <1>2, VaTranquilo DEF DesAccess, Access, Sigue, Devuelve, En, PcBuzon
<1>3. CASE DesLeer(h)
  <2>1. CASE Devuelve(h, 3, "responder") \/ Devuelve(h, 2, "responder")
    BY <1>3, <2>1, VaTranquilo DEF DesLeer, Devuelve, En, PcBuzon
  <2>2. ASSUME NEW reg \in Lecturas(alias(h)), AbrePerfil(h, alias(h), "des_escribir", reg)
        PROVE  Tranquilo(h)
    BY <1>1, <1>3, <2>2, AbrePerfilTranquilo DEF DesLeer, Lecturas, En, IInv
  <2> QED
    BY <1>3, <2>1, <2>2 DEF DesLeer
<1>4. CASE DesEscribir(h)
  <2>1. [PerfilNuevo EXCEPT !.last_id = loc[h].reg.last_id] \in Perfil
    BY <1>1, LocalCampos, PerfilNuevoEsPerfil DEF Perfil
  <2> QED
    BY <1>1, <1>4, <2>1, EscribePerfilTranquilo DEF DesEscribir, En, IInv
<1> QED
  BY <1>2, <1>3, <1>4 DEF disconnect_gestiones

LEMMA SendPaso ==
  ASSUME IInv, AbiertosEstan, ~FallosES, NEW h \in Hilos, send_to_server_gestiones(h)
  PROVE  Tranquilo(h)
<1>1. pc[h] \in PcSend /\ pc[h] # "libre" /\ dest(h) \in Alias /\ loc[h] \in Local
  BY TienePeticion DEF send_to_server_gestiones, EnvRemitente, EnvMensajes, EnvPerfil, EnvLeer, EnvEscribir,
                       EscribeContador, EnvAbrir, EnvAnexar, Access, En, IInv, HilosOK, PcSend
<1>2. CASE EnvRemitente(h) \/ EnvMensajes(h) \/ EnvPerfil(h)
  BY <1>2, VaTranquilo DEF EnvRemitente, EnvMensajes, EnvPerfil, Access, Sigue, Devuelve, En, PcBuzon
<1>3. CASE (EnvLeer(h) \/ EnvAbrir(h)) /\ Devuelve(h, 2, "is_connected")
  BY <1>1, <1>3, VaTranquilo DEF Devuelve, PcSend, PcBuzon
<1>4. CASE EnvLeer(h) /\ ~Devuelve(h, 2, "is_connected")
  <2>1. PICK reg \in Lecturas(dest(h)) : AbrePerfil(h, dest(h), "env_escribir", reg)
    BY <1>4 DEF EnvLeer
  <2> QED
    BY <1>1, <2>1, AbrePerfilTranquilo DEF Lecturas, PcSend, IInv
<1>5. CASE EnvEscribir(h)
  <2>1. [loc[h].reg EXCEPT !.last_id = loc[h].reg.last_id + 1] \in Perfil
    BY <1>1, LocalCampos DEF Perfil
  <2> QED
    BY <1>1, <1>5, <2>1, EscribePerfilTranquilo DEF EnvEscribir, EscribeContador, PcSend, IInv
<1>6. CASE EnvAbrir(h) /\ ~Devuelve(h, 2, "is_connected")
  <2>1. /\ \E l : Mueve(h, "env_anexar", l)
        /\ abierto' = [abierto EXCEPT ![h] = <<"mensajes", dest(h)>>]
        /\ UNCHANGED <<perfiles, mensajes, estado, pet, bajas, arranques>>
    BY <1>6 DEF EnvAbrir, disco, historia, cotas
  <2>2. \A g \in Hilos, a \in Alias : abierto'[g] = <<"perfil", a>> => abierto[g] = <<"perfil", a>>
    BY <2>1 DEF IInv, GlobalOK
  <2> QED
    BY <1>1, <2>1, <2>2 DEF Tranquilo, PcSend, PcBuzon
<1>7. CASE EnvAnexar(h)
  <2>1. \A a \in Alias : mensajes[a] # NoHay => mensajes'[a] # NoHay
    <3>1. CASE mensajes' = mensajes
      BY <3>1
    <3>2. CASE mensajes' # mensajes
      <4> DEFINE m == [id |-> loc[h].id, remitente |-> alias(h), mensaje |-> loc[h].uid]
      <4>1. /\ abierto[h] = <<"mensajes", dest(h)>>
            /\ mensajes' = [mensajes EXCEPT ![dest(h)] = EscribirEn(@, loc[h].pos, m)]
        BY <1>7, <3>2 DEF EnvAnexar
      <4>2. m \in Mensaje /\ mensajes[dest(h)] \in Seq(Mensaje) /\ loc[h].pos \in Nat
        BY <1>1, <4>1, LocalCampos, TienePeticion, BuzonEsSecuencia DEF IInv, GlobalOK, Mensaje
      <4>3. EscribirEn(mensajes[dest(h)], loc[h].pos, m) \in Seq(Mensaje)
        BY <4>2, EscribirEnTipo
      <4> HIDE DEF m
      <4> QED
        BY <4>1, <4>3, FicherosAparte DEF IInv, GlobalOK
    <3> QED
      BY <3>1, <3>2
  <2>2. \A g \in Hilos, a \in Alias : abierto'[g] = <<"perfil", a>> => abierto[g] = <<"perfil", a>>
    BY <1>7, CerradoAparte DEF EnvAnexar, IInv, GlobalOK, Ficheros
  <2> QED
    BY <1>1, <1>7, <2>1, <2>2 DEF EnvAnexar, Tranquilo, PcSend, historia, cotas, PcBuzon
<1> QED
  BY <1>2, <1>3, <1>4, <1>5, <1>6, <1>7 DEF send_to_server_gestiones, EnvLeer, EnvAbrir

LEMMA EntregaPaso ==
  ASSUME IInv, ~FallosES, NEW h \in Hilos,
         IsConnected(h) \/ NumMensajesPendientes(h) \/ envio_mensajes_pendientes(h)
  PROVE  Tranquilo(h) \/ Mudanza(h)
<1>1. pc[h] \in PcEntrega /\ pc[h] # "libre" /\ Destino(h) \in Alias
  BY TienePeticion
  DEF IsConnected, NumMensajesPendientes, envio_mensajes_pendientes, Contar, ContarComo,
      ExtraerIDs, ExtraerRemitentes, ExtraerMensajes, VaciarMensajes, EnvioResolver, EnvioConectar,
      EnvioEntregar, Lee, En, IInv, PcEntrega
<1>2. ASSUME NEW sig \in PcEntrega \cup {"ack_is_connected", "responder"}, NEW l, Va(h, sig, l),
             sig \in PcBuzon => pc[h] \in PcBuzon \/ perfiles[Destino(h)] # NoHay
      PROVE  Tranquilo(h)
  BY <1>1, <1>2, VaTranquilo DEF PcEntrega
<1>3. CASE IsConnected(h)
  <2>1. Cae("SIGSEGV") \/ Sigue(h, "responder") \/ (\E l : Va(h, "num", l) /\ perfiles[Destino(h)] # NoHay)
    BY <1>3 DEF IsConnected, is_connected, Lecturas
  <2> QED
    BY <1>1, <1>2, <2>1 DEF Mudanza, Sigue, PcEntrega, PcBuzon
<1>4. CASE NumMensajesPendientes(h) \/ Contar(h)
  BY <1>2, <1>4 DEF NumMensajesPendientes, NumMayorQue, Contar, ContarComo, Lee, En, Mudanza, Sigue, PcEntrega, PcBuzon
<1>5. CASE ExtraerIDs(h) \/ ExtraerRemitentes(h) \/ ExtraerMensajes(h)
  BY <1>2, <1>5 DEF ExtraerIDs, ExtraerRemitentes, ExtraerMensajes, Lee, En, Mudanza, PcEntrega, PcBuzon
<1>6. CASE VaciarMensajes(h)
  <2>1. DejaBuzon(h, <<>>, "resolver", [loc[h] EXCEPT !.n = 0])
    BY <1>6 DEF VaciarMensajes
  <2>2. \A a \in Alias : mensajes[a] # NoHay => mensajes'[a] # NoHay
    BY <1>1, <2>1, FicherosAparte, EmptySeq DEF DejaBuzon, IInv, GlobalOK
  <2> QED
    BY <1>1, <2>1, <2>2 DEF DejaBuzon, Tranquilo, PcEntrega, historia, cotas, PcBuzon
<1>7. ASSUME NEW r, FinEnvio(h, r) PROVE Tranquilo(h)
  BY <1>2, <1>7 DEF FinEnvio, PcBuzon
<1>8. CASE EnvioResolver(h)
  <2>1. (\E r : FinEnvio(h, r)) \/ Resuelve(h, "conectar", loc[h])
    BY <1>8 DEF EnvioResolver
  <2>2. Resuelve(h, "conectar", loc[h]) => Tranquilo(h) \/ Mudanza(h)
    BY <1>1 DEF Resuelve, Tranquilo, Mudanza, disco, historia, cotas, PcEntrega, PcBuzon
  <2> QED
    BY <1>7, <2>1, <2>2
<1>9. CASE EnvioConectar(h)
  BY <1>2, <1>7, <1>9 DEF EnvioConectar, PcEntrega, PcBuzon
<1>10. CASE EnvioEntregar(h)
  <2>1. \A t, l : Transmite(h, t, "resolver", l) => Tranquilo(h)
    BY <1>1 DEF Transmite, Tranquilo, disco, historia, cotas, PcEntrega, PcBuzon
  <2> QED
    BY <1>2, <1>7, <1>10, <2>1 DEF EnvioEntregar, Mudanza, PcEntrega, PcBuzon
<1> QED
  BY <1>3, <1>4, <1>5, <1>6, <1>8, <1>9, <1>10 DEF envio_mensajes_pendientes

LEMMA FinPaso ==
  ASSUME ~FallosES, NEW h \in Hilos,
         \/ envio_ack(h) \/ OpInvalida(h) \/ Responder(h) \/ UltimoIdAccess(h) \/ UltimoIdLeer(h)
         \/ Cerrar(h)
  PROVE  Tranquilo(h) \/ Mudanza(h)
<1>1. pc[h] \in PcAck \cup PcFin /\ pc[h] \notin {"libre", "reg_mensajes"}
  BY DEF envio_ack, AckIsConnected, AckResolver, AckConectar, AckIdAccess, AckIdLeer, AckEnviar,
         OpInvalida, Responder, UltimoIdAccess, UltimoIdLeer, IdAccess, IdLeer, Cerrar, En, PcAck, PcFin
<1>2. ASSUME NEW sig \in PcAck \cup PcFin, NEW l, Va(h, sig, l)
      PROVE  Tranquilo(h)
  BY <1>1, <1>2, VaTranquilo DEF PcAck, PcFin, PcBuzon
<1>3. ASSUME NEW sig \in PcAck \cup PcFin, NEW l, Resuelve(h, sig, l)
      PROVE  Tranquilo(h) \/ Mudanza(h)
  BY <1>1, <1>3 DEF Resuelve, Tranquilo, Mudanza, disco, historia, cotas, PcAck, PcFin, PcBuzon
<1>4. ASSUME NEW t, NEW l, Transmite(h, t, "responder", l)
      PROVE  Tranquilo(h)
  BY <1>1, <1>4 DEF Transmite, Tranquilo, disco, historia, cotas, PcBuzon
<1>5. CASE AckIsConnected(h)
  BY <1>2, <1>5 DEF AckIsConnected, is_connected, Devuelve, Mudanza, PcAck, PcFin
<1>6. CASE AckResolver(h)
  BY <1>3, <1>6 DEF AckResolver, PcAck, PcFin
<1>7. CASE AckConectar(h)
  BY <1>2, <1>7 DEF AckConectar, Mudanza, PcAck, PcFin
<1>8. CASE AckEnviar(h)
  BY <1>2, <1>4, <1>8 DEF AckEnviar, Sigue, Devuelve, Mudanza, PcAck, PcFin
<1>9. CASE OpInvalida(h) \/ Cerrar(h)
  BY <1>9 DEF OpInvalida, Mudanza
<1>10. CASE Responder(h)
  BY <1>2, <1>10 DEF Responder, PcAck, PcFin
<1>11. CASE AckIdAccess(h) \/ AckIdLeer(h) \/ UltimoIdAccess(h) \/ UltimoIdLeer(h)
  BY <1>2, <1>11
  DEF AckIdAccess, AckIdLeer, UltimoIdAccess, UltimoIdLeer, IdAccess, IdLeer, Sigue, PcAck, PcFin
<1> QED
  BY <1>5, <1>6, <1>7, <1>8, <1>9, <1>10, <1>11 DEF envio_ack

(* RegSoloMensajes creates a mailbox and nothing else.                     *)
LEMMA RegSoloMensajesTranquilo ==
  ASSUME IInv, ~FallosES, NEW h \in Hilos, RegSoloMensajes(h)
  PROVE  Tranquilo(h)
<1>1. /\ pc[h] = "reg_solo_mensajes" /\ \E l : Mueve(h, "responder", l)
      /\ mensajes' = [mensajes EXCEPT ![alias(h)] = <<>>]
      /\ UNCHANGED <<perfiles, estado, pet, bajas, arranques, abierto>>
  BY DEF RegSoloMensajes, CreaMensajes, En, historia, cotas
<1>2. \A a \in Alias : mensajes[a] # NoHay => mensajes'[a] # NoHay
  BY <1>1, FicherosAparte, EmptySeq DEF IInv, GlobalOK
<1> QED
  BY <1>1, <1>2 DEF Tranquilo, PcBuzon

LEMMA CadaPaso ==
  ASSUME IInv, AbiertosEstan, ~FallosES, NEW h \in Hilos, tratar_mensaje(h)
  PROVE  Tranquilo(h) \/ Mudanza(h)
BY RegisterPaso, UnregisterPaso, ConnectPaso, DisconnectPaso, SendPaso, EntregaPaso, FinPaso,
   RegSoloMensajesTranquilo
DEF tratar_mensaje

-----------------------------------------------------------------------------
(* The first invariant, for any number of clients per alias.               *)

LEMMA TranquiloCuentas ==
  ASSUME IInv, CuentasOK, NEW h \in Hilos, Tranquilo(h)
  PROVE  CuentasOK'
<1>1. PICK sig, l : /\ Mueve(h, sig, l)
                    /\ sig \notin {"baja_mensajes", "reg_mensajes"}
                    /\ sig \in PcBuzon => pc[h] \in PcBuzon \/ perfiles[Destino(h)] # NoHay
  BY DEF Tranquilo
<1>2. \A g \in Hilos : /\ pc'[g] = IF g = h THEN sig ELSE pc[g]
                       /\ alias(g)' = alias(g) /\ Destino(g)' = Destino(g)
  BY <1>1 DEF Tranquilo, Mueve, IInv, HilosOK, Destino, alias, dest
<1>3. \A a \in Alias : TieneBuzon(a) => TieneBuzon(a)'
  BY <1>2 DEF Tranquilo, TieneBuzon, EnTramite
<1>4. pc[h] # "libre" => Destino(h) \in Alias
  BY TienePeticion DEF IInv
<1>5. AbiertosEstan' /\ DeBaja'
  BY <1>1, <1>2 DEF CuentasOK, AbiertosEstan, DeBaja, Tranquilo
<1>6. Primera' => Primera /\ \A a \in Alias : perfiles'[a] # NoHay => TieneBuzon(a)'
  BY <1>3 DEF CuentasOK, Tranquilo, Primera
<1>7. ASSUME Primera', NEW g \in Hilos, pc'[g] \in PcBuzon PROVE TieneBuzon(Destino(g))'
  <2>1. TieneBuzon(Destino(g)) /\ Destino(g) \in Alias
    BY <1>1, <1>2, <1>4, <1>6, <1>7, TienePeticion DEF CuentasOK, Tranquilo, IInv, PcBuzon
  <2> QED
    BY <1>2, <1>3, <2>1 DEF TieneBuzon, EnTramite
<1> QED
  BY <1>5, <1>6, <1>7 DEF CuentasOK

(* A thread that is registering or removing a user moves on: nothing is    *)
(* asked of it after the step, and no other user loses its mailbox.        *)
LEMMA MudaCuentas ==
  ASSUME IInv, CuentasOK, NEW h \in Hilos, pc[h] # "libre", NEW sig, NEW l, Mueve(h, sig, l), UNCHANGED <<estado, arranques, pet>>,
         AbiertosEstan', bajas \subseteq bajas',
         sig \notin PcBuzon, sig = "baja_mensajes" => alias(h) \in bajas',
         \A a \in Alias : TieneBuzon(a) => TieneBuzon(a)',
         \A a \in Alias : perfiles'[a] # NoHay => perfiles[a] # NoHay \/ TieneBuzon(a)'
  PROVE  CuentasOK'
<1>1. \A g \in Hilos : /\ pc'[g] = IF g = h THEN sig ELSE pc[g]
                       /\ alias(g)' = alias(g) /\ Destino(g)' = Destino(g)
  BY DEF Mueve, IInv, HilosOK, Destino, alias, dest
<1>2. DeBaja'
  BY <1>1 DEF CuentasOK, DeBaja
<1>3. Primera' => Primera /\ \A a \in Alias : perfiles'[a] # NoHay => TieneBuzon(a)'
  BY DEF CuentasOK, Primera
<1>4. ASSUME Primera', NEW g \in Hilos, pc'[g] \in PcBuzon PROVE TieneBuzon(Destino(g))'
  <2>1. pc[g] \in PcBuzon /\ TieneBuzon(Destino(g)) /\ Destino(g) \in Alias
    BY <1>1, <1>3, <1>4, TienePeticion DEF CuentasOK, IInv, PcBuzon
  <2>2. TieneBuzon(Destino(g))' <=> \/ mensajes'[Destino(g)] # NoHay \/ Destino(g) \in bajas'
                                    \/ \E k \in Hilos : pc'[k] = "reg_mensajes" /\ alias(k)' = Destino(g)
    BY <1>1 DEF TieneBuzon, EnTramite
  <2>3. \A a \in Alias : TieneBuzon(a)' <=> \/ mensajes'[a] # NoHay \/ a \in bajas'
                                            \/ \E k \in Hilos : pc'[k] = "reg_mensajes" /\ alias(k)' = a
    BY DEF TieneBuzon, EnTramite
  <2> QED
    BY <2>1, <2>2, <2>3
<1> QED
  BY <1>2, <1>3, <1>4 DEF CuentasOK

LEMMA AltaCuentas ==
  ASSUME IInv, CuentasOK, ~FallosES, NEW h \in Hilos,
         (En(h, "reg_perfil") /\ CreaPerfil(h, "reg_mensajes")) \/ RegMensajes(h)
  PROVE  CuentasOK'
<1>1. pc[h] \in {"reg_perfil", "reg_mensajes"} /\ alias(h) \in Alias
  BY TienePeticion DEF RegMensajes, En, IInv
<1>2. CASE pc[h] = "reg_perfil" /\ CreaPerfil(h, "reg_mensajes")
  <2>1. /\ Mueve(h, "reg_mensajes", loc[h]) /\ UNCHANGED <<mensajes, estado, arranques, pet, bajas>>
        /\ perfiles' = [perfiles EXCEPT ![alias(h)] = Vacio]
        /\ abierto' = [abierto EXCEPT ![h] = <<"perfil", alias(h)>>]
    BY <1>2 DEF CreaPerfil, historia, cotas
  <2>2. \A g \in Hilos : alias(g)' = alias(g) /\ pc'[g] = IF g = h THEN "reg_mensajes" ELSE pc[g]
    BY <2>1 DEF alias, Mueve, IInv, HilosOK
  <2>3. \A a \in Alias : a = alias(h) \/ TieneBuzon(a) => TieneBuzon(a)'
    BY <1>2, <2>1, <2>2 DEF TieneBuzon, EnTramite
  <2>4. AbiertosEstan'
    BY <1>1, <2>1, FicherosAparte DEF CuentasOK, AbiertosEstan, IInv, GlobalOK
  <2>5. \A a \in Alias : perfiles'[a] # NoHay => perfiles[a] # NoHay \/ TieneBuzon(a)'
    BY <2>1, <2>3 DEF IInv, GlobalOK
  <2> QED
    BY <1>1, <2>1, <2>3, <2>4, <2>5, MudaCuentas DEF PcBuzon
<1>3. CASE RegMensajes(h)
  <2>1. /\ pc[h] = "reg_mensajes" /\ \E l : Mueve(h, "reg_escribir", l)
        /\ mensajes' = [mensajes EXCEPT ![alias(h)] = <<>>]
        /\ UNCHANGED <<perfiles, abierto, estado, arranques, pet, bajas>>
    BY <1>3 DEF RegMensajes, CreaMensajes, En, historia, cotas
  <2>2. \A g \in Hilos : alias(g)' = alias(g) /\ pc'[g] = IF g = h THEN "reg_escribir" ELSE pc[g]
    BY <2>1 DEF alias, Mueve, IInv, HilosOK
  <2>3. \A a \in Alias : TieneBuzon(a) => TieneBuzon(a)'
    BY <1>1, <2>1, <2>2, FicherosAparte, EmptySeq DEF TieneBuzon, EnTramite, IInv, GlobalOK
  <2>4. AbiertosEstan'
    BY <2>1 DEF CuentasOK, AbiertosEstan
  <2> QED
    BY <2>1, <2>3, <2>4, MudaCuentas DEF PcBuzon
<1> QED
  BY <1>2, <1>3 DEF En

(* Removing a file leaves no profile open but those that were, and not the *)
(* one removed.                                                            *)
LEMMA DesenlazaPerfiles ==
  ASSUME NEW f, Desenlaza(f)
  PROVE  \A g \in Hilos, a \in Alias :
           abierto'[g] = <<"perfil", a>> => abierto[g] = <<"perfil", a>> /\ f # <<"perfil", a>>
<1>1. \A a \in Alias : <<"perfil", a>> # Cerrado
  BY CerradoAparte DEF Ficheros
<1>2. \A g \in Hilos : abierto'[g] = IF abierto[g] = f THEN Cerrado ELSE abierto[g]
  BY DEF Desenlaza
<1> QED
  BY <1>1, <1>2

LEMMA BajaCuentas ==
  ASSUME IInv, CuentasOK, NEW h \in Hilos,
         \/ BajaPerfil(h) /\ perfiles[alias(h)] # NoHay
         \/ BajaMensajes(h) /\ mensajes[alias(h)] # NoHay
  PROVE  CuentasOK'
<1>1. pc[h] \in {"baja_perfil", "baja_mensajes"} /\ alias(h) \in Alias
  BY TienePeticion DEF BajaPerfil, BajaMensajes, En, IInv
<1>2. CASE BajaPerfil(h) /\ perfiles[alias(h)] # NoHay
  <2>1. /\ Mueve(h, "baja_mensajes", loc[h]) /\ UNCHANGED <<mensajes, estado, arranques, pet>>
        /\ perfiles' = [perfiles EXCEPT ![alias(h)] = NoHay]
        /\ Desenlaza(<<"perfil", alias(h)>>)
        /\ bajas' = bajas \cup {alias(h)}
    BY <1>2 DEF BajaPerfil, cotas
  <2>2. \A g \in Hilos : alias(g)' = alias(g) /\ pc'[g] = IF g = h THEN "baja_mensajes" ELSE pc[g]
    BY <2>1 DEF alias, Mueve, IInv, HilosOK
  <2>3. \A a \in Alias : TieneBuzon(a) => TieneBuzon(a)'
    BY <1>1, <2>1, <2>2 DEF TieneBuzon, EnTramite
  <2>4. AbiertosEstan'
    <3>1. \A g \in Hilos, a \in Alias :
            abierto'[g] = <<"perfil", a>> => abierto[g] = <<"perfil", a>> /\ a # alias(h)
      BY <2>1, DesenlazaPerfiles
    <3> QED
      BY <2>1, <3>1 DEF CuentasOK, AbiertosEstan, IInv, GlobalOK
  <2>5. \A a \in Alias : perfiles'[a] # NoHay => perfiles[a] # NoHay
    BY <2>1 DEF IInv, GlobalOK
  <2> QED
    BY <1>1, <2>1, <2>3, <2>4, <2>5, MudaCuentas DEF PcBuzon
<1>3. CASE BajaMensajes(h) /\ mensajes[alias(h)] # NoHay
  <2>1. /\ pc[h] = "baja_mensajes" /\ \E l : Mueve(h, "responder", l)
        /\ mensajes' = [mensajes EXCEPT ![alias(h)] = NoHay]
        /\ Desenlaza(<<"mensajes", alias(h)>>)
        /\ UNCHANGED <<perfiles, estado, arranques, pet, bajas>>
    BY <1>3 DEF BajaMensajes, En, historia, cotas
  <2>2. \A g \in Hilos : alias(g)' = alias(g) /\ pc'[g] = IF g = h THEN "responder" ELSE pc[g]
    BY <2>1 DEF alias, Mueve, IInv, HilosOK
  <2>3. alias(h) \in bajas
    BY <2>1 DEF CuentasOK, DeBaja
  <2>4. \A a \in Alias : TieneBuzon(a) => TieneBuzon(a)'
    BY <2>1, <2>2, <2>3 DEF TieneBuzon, EnTramite, IInv, GlobalOK
  <2>5. \A g \in Hilos, a \in Alias : abierto'[g] = <<"perfil", a>> => abierto[g] = <<"perfil", a>>
    BY <2>1, DesenlazaPerfiles
  <2>6. AbiertosEstan'
    BY <2>1, <2>5 DEF CuentasOK, AbiertosEstan
  <2> QED
    BY <2>1, <2>4, <2>6, MudaCuentas DEF PcBuzon
<1> QED
  BY <1>2, <1>3

(* A request begins or ends, or the process does.                          *)
LEMMA EntornoCuentas ==
  ASSUME IInv, CuentasOK,
         \/ \E h \in Hilos : Recibir(h) \/ Cerrar(h)
         \/ \E causa : causa # "activo" /\ Cae(causa)
         \/ (\E d \in Dirs : ClienteMuere(d)) \/ Reiniciar \/ UNCHANGED vars
  PROVE  CuentasOK'
<1>1. ASSUME NEW causa, causa # "activo", Cae(causa) PROVE CuentasOK'
  BY <1>1, CerradoAparte DEF Cae, CuentasOK, AbiertosEstan, DeBaja, Primera, Ficheros
<1>2. ASSUME NEW h \in Hilos, Recibir(h) \/ Cerrar(h) PROVE CuentasOK'
  <2>1. /\ pc[h] \in {"libre", "cerrar"}
        /\ pc'[h] \notin PcBuzon \cup {"baja_mensajes", "reg_mensajes"}
        /\ UNCHANGED <<perfiles, mensajes, abierto, estado, arranques, bajas>>
        /\ \A g \in Hilos : g # h => pc'[g] = pc[g] /\ pet'[g] = pet[g]
    BY <1>2 DEF Recibir, Cerrar, En, disco, historia, cotas, Mueve, Entrada, PcBuzon, IInv, HilosOK
  <2>2. \A a \in Alias : TieneBuzon(a) => TieneBuzon(a)'
    BY <2>1 DEF TieneBuzon, EnTramite, alias
  <2>3. AbiertosEstan' /\ DeBaja'
    BY <2>1 DEF CuentasOK, AbiertosEstan, DeBaja, alias
  <2>4. ASSUME Primera', NEW g \in Hilos, pc'[g] \in PcBuzon PROVE TieneBuzon(Destino(g))'
    <3>1. g # h /\ Destino(g)' = Destino(g) /\ Destino(g) \in Alias /\ TieneBuzon(Destino(g))
      BY <2>1, <2>4, TienePeticion DEF CuentasOK, Primera, Destino, alias, dest, IInv, PcBuzon
    <3> QED
      BY <2>1, <3>1 DEF TieneBuzon, EnTramite, alias
  <2> QED
    BY <2>1, <2>2, <2>3, <2>4 DEF CuentasOK, Primera
<1>3. CASE (\E d \in Dirs : ClienteMuere(d)) \/ UNCHANGED vars
  <2>1. UNCHANGED <<perfiles, mensajes, abierto, estado, arranques, bajas, pc, pet>>
    BY <1>3 DEF ClienteMuere, vars, disco, hilos, historia, cotas
  <2> QED
    BY <2>1 DEF CuentasOK, AbiertosEstan, DeBaja, Primera, TieneBuzon, EnTramite, alias, dest, Destino
<1>4. CASE Reiniciar
  <2>1. UNCHANGED <<perfiles, abierto, bajas, pc, pet>> /\ ~Primera'
    BY <1>4 DEF Reiniciar, disco, hilos, historia, Primera, IInv, GlobalOK
  <2> QED
    BY <2>1 DEF CuentasOK, AbiertosEstan, DeBaja, alias
<1> QED
  BY <1>1, <1>2, <1>3, <1>4

LEMMA PasoCuentas == ~FallosES /\ IInv /\ CuentasOK /\ [Next]_vars => CuentasOK'
<1> SUFFICES ASSUME ~FallosES, IInv, CuentasOK, [Next]_vars PROVE CuentasOK'
  OBVIOUS
<1>1. ASSUME NEW h \in Hilos, tratar_mensaje(h) PROVE CuentasOK'
  <2>1. Tranquilo(h) \/ Mudanza(h)
    BY <1>1, CadaPaso DEF CuentasOK
  <2> QED
    BY <2>1, TranquiloCuentas, AltaCuentas, BajaCuentas, EntornoCuentas DEF Mudanza
<1>2. CASE Matar
  BY <1>2, EntornoCuentas DEF Matar
<1> QED
  BY <1>1, <1>2, EntornoCuentas DEF Next

LEMMA InitCuentas == Init => CuentasOK
<1> SUFFICES ASSUME Init PROVE CuentasOK
  OBVIOUS
<1>1. \A a \in Alias : perfiles[a] # NoHay => TieneBuzon(a)
  BY FicherosAparte, EmptySeq DEF Init, TieneBuzon
<1> QED
  BY <1>1, CerradoAparte DEF Init, Arranque, CuentasOK, AbiertosEstan, DeBaja, Ficheros, PcBuzon

(* While files can be opened, a profile has its mailbox except inside      *)
(* REGISTER and UNREGISTER, which create and remove the profile first      *)
(* (gestiones.c:36-108), and a thread that is about to use a mailbox has   *)
(* seen its user's profile.                                                *)
THEOREM SpecCuentas == ~FallosES => (Spec => []CuentasOK)
<1> SUFFICES ASSUME ~FallosES PROVE Spec => []CuentasOK
  OBVIOUS
<1>1. IInv /\ CuentasOK /\ [Next]_vars => CuentasOK'
  BY PasoCuentas
<1> QED
  BY <1>1, InitCuentas, SpecIInv, PTL DEF Spec

-----------------------------------------------------------------------------
(* Who calls exit(1): a thread that looks for a mailbox and finds none.    *)
LEMMA QuienSale ==
  ASSUME ~FallosES, NEW h \in Hilos, tratar_mensaje(h), estado = "activo", estado' = "exit(1)"
  PROVE  pc[h] \in PcBuzon /\ mensajes[Destino(h)] = NoHay
<1>1. ~\E sig, l : Va(h, sig, l)
  BY DEF Va
<1>2. \A causa : Cae(causa) => causa = "exit(1)"
  BY DEF Cae
<1>3. /\ ~register_gestiones(h) /\ ~unregister_gestiones(h) /\ ~connect_gestiones(h)
      /\ ~disconnect_gestiones(h)
  BY <1>1
  DEF register_gestiones, RegAccess, RegPerfil, CreaPerfil, RegMensajes, CreaMensajes, RegSoloMensajes,
      RegEscribir, EscribePerfil, unregister_gestiones, BajaAccessPerfil, BajaAccessMensajes, Access,
      BajaPerfil, BajaMensajes, connect_gestiones, ConNtop, TomaDireccion, ConAccess, ConLeer,
      ConEscribir, EscribeConexion, AbrePerfil, disconnect_gestiones, DesAccess, DesLeer, DesEscribir,
      Sigue, Devuelve
<1>4. ~send_to_server_gestiones(h)
  BY <1>1
  DEF send_to_server_gestiones, EnvRemitente, EnvMensajes, EnvPerfil, Access, EnvLeer, AbrePerfil,
      EnvEscribir, EscribeContador, EscribePerfil, EnvAbrir, EnvAnexar, Sigue, Devuelve
<1>5. (\A r : ~FinEnvio(h, r)) /\ (\A sig, l : ~Resuelve(h, sig, l)) /\ (\A t, sig, l : ~Transmite(h, t, sig, l))
  BY <1>1, <1>2 DEF FinEnvio, Resuelve, Transmite
<1>6. ~IsConnected(h) /\ ~VaciarMensajes(h) /\ ~EnvioResolver(h) /\ ~EnvioConectar(h) /\ ~EnvioEntregar(h)
  BY <1>1, <1>2, <1>5
  DEF IsConnected, is_connected, VaciarMensajes, DejaBuzon, EnvioResolver,
      EnvioConectar, EnvioEntregar, Sigue
<1>7. ~envio_ack(h)
  BY <1>1, <1>2, <1>5
  DEF envio_ack, AckIsConnected, is_connected, AckResolver, AckConectar, AckIdAccess, AckIdLeer, IdAccess,
      IdLeer, AckEnviar, Sigue, Devuelve
<1>8. ~OpInvalida(h) /\ ~Responder(h) /\ ~UltimoIdAccess(h) /\ ~UltimoIdLeer(h) /\ ~Cerrar(h)
  BY <1>1, <1>2 DEF OpInvalida, Responder, UltimoIdAccess, UltimoIdLeer, IdAccess, IdLeer, Sigue, Cerrar
<1>9. NumMensajesPendientes(h) \/ Contar(h) \/ ExtraerIDs(h) \/ ExtraerRemitentes(h) \/ ExtraerMensajes(h)
  BY <1>3, <1>4, <1>6, <1>7, <1>8 DEF tratar_mensaje, envio_mensajes_pendientes
<1> QED
  BY <1>1, <1>9
  DEF NumMensajesPendientes, NumMayorQue, Contar, ContarComo, ExtraerIDs, ExtraerRemitentes,
      ExtraerMensajes, Lee, En, Sigue, PcBuzon

(* A server that may not be restarted stays in its first run.              *)
LEMMA SinArranques ==
  ASSUME ~FallosES, MaxArranques = 0, IInv, CuentasOK, arranques = 0, [Next]_vars
  PROVE  arranques' = 0
<1>1. ASSUME NEW h \in Hilos, tratar_mensaje(h) PROVE arranques' = arranques
  <2>1. Tranquilo(h) \/ Mudanza(h)
    BY <1>1, CadaPaso DEF CuentasOK
  <2> QED
    BY <2>1
    DEF Mudanza, Tranquilo, CreaPerfil, RegMensajes, CreaMensajes, Devuelve, Va, BajaPerfil,
        BajaMensajes, Cerrar, Cae, cotas
<1>2. ASSUME NEW h \in Hilos, Recibir(h) PROVE arranques' = arranques
  BY <1>2 DEF Recibir
<1>3. CASE (\E d \in Dirs : ClienteMuere(d)) \/ Matar \/ Reiniciar \/ UNCHANGED vars
  BY <1>3 DEF ClienteMuere, Matar, Reiniciar, Cae, vars, cotas
<1> QED
  BY <1>1, <1>2, <1>3 DEF Next

(* While it can open its files and is not restarted, the server exits for  *)
(* want of a mailbox (gestiones.c:381-384) only if the user whose mailbox  *)
(* it is has been removed or is between the two files of its REGISTER,     *)
(* whatever requests are served at the same time.                          *)
THEOREM SaleSoloPorTramite ==
  ~FallosES /\ MaxArranques = 0 => (Spec => SalidaSoloPorTramite)
<1> SUFFICES ASSUME ~FallosES, MaxArranques = 0 PROVE Spec => SalidaSoloPorTramite
  OBVIOUS
<1> DEFINE Aviso == estado = "activo" /\ estado' = "exit(1)" =>
                      \E h \in Hilos : /\ pc[h] \in PcEntrega /\ mensajes[Destino(h)] = NoHay
                                       /\ EnTramite(Destino(h))
<1> DEFINE Primero == arranques = 0
<1>1. Init => Primero
  BY DEF Init, Arranque
<1>2. IInv /\ CuentasOK /\ Primero /\ [Next]_vars => Primero'
  BY SinArranques
<1>3. IInv /\ CuentasOK /\ Primero /\ [Next]_vars => Aviso
  <2> SUFFICES ASSUME CuentasOK, arranques = 0, [Next]_vars, estado = "activo", estado' = "exit(1)"
               PROVE  \E h \in Hilos : /\ pc[h] \in PcEntrega /\ mensajes[Destino(h)] = NoHay
                                       /\ EnTramite(Destino(h))
    OBVIOUS
  <2>1. PICK h \in Hilos : tratar_mensaje(h)
    BY DEF Next, Recibir, ClienteMuere, Matar, Reiniciar, Cae, vars
  <2>2. pc[h] \in PcBuzon /\ mensajes[Destino(h)] = NoHay
    BY <2>1, QuienSale
  <2> QED
    BY <2>2 DEF CuentasOK, Primera, TieneBuzon, PcBuzon, PcEntrega
<1>4. IInv /\ CuentasOK /\ Primero /\ [Next]_vars => [Aviso]_vars
  BY <1>3
<1> HIDE DEF Aviso, Primero
<1>5. Spec => []CuentasOK
  BY SpecCuentas
<1>6. Spec => [][Aviso]_vars
  BY <1>1, <1>2, <1>4, <1>5, SpecIInv, PTL DEF Spec
<1> QED
  BY <1>6 DEF SalidaSoloPorTramite, Aviso

-----------------------------------------------------------------------------
(* The second invariant, with one client application per alias.            *)

LEMMA TranquiloParejas ==
  ASSUME IInv, ParejasOK, NEW h \in Hilos, Tranquilo(h)
  PROVE  ParejasOK'
<1>1. PICK sig, l : Mueve(h, sig, l) /\ sig \notin {"baja_mensajes", "reg_mensajes"}
  BY DEF Tranquilo
<1>2. /\ pet' = pet /\ pc[h] # "reg_mensajes"
      /\ \A g \in Hilos : alias(g)' = alias(g) /\ pc'[g] = IF g = h THEN sig ELSE pc[g]
  BY <1>1 DEF Tranquilo, alias, Mueve, IInv, HilosOK
<1>3. UnoPorAlias'
  BY <1>2 DEF ParejasOK, UnoPorAlias
<1>4. ASSUME Primera' PROVE Retirado' /\ Emparejados'
  <2>1. Primera /\ Retirado /\ Emparejados
    BY <1>4 DEF Tranquilo, Primera, ParejasOK
  <2>2. ASSUME NEW g \in Hilos, pc'[g] = "baja_mensajes" PROVE perfiles'[alias(g)'] = NoHay
    BY <1>1, <1>2, <2>1, <2>2, TienePeticion DEF Retirado, Tranquilo, IInv
  <2>3. Emparejados'
    BY <1>2, <2>1 DEF Emparejados, Tranquilo
  <2> QED
    BY <2>2, <2>3 DEF Retirado
<1> QED
  BY <1>3, <1>4 DEF ParejasOK

(* A thread that is alone in serving its user moves on: no other user is   *)
(* affected.                                                               *)
LEMMA MudaParejas ==
  ASSUME IInv, ParejasOK, NEW h \in Hilos, pc[h] # "libre", NEW sig, NEW l, Mueve(h, sig, l),
         UNCHANGED <<estado, arranques, pet>>,
         \A a \in Alias : a # alias(h) => /\ perfiles'[a] = NoHay <=> perfiles[a] = NoHay
                                          /\ mensajes'[a] = NoHay <=> mensajes[a] = NoHay,
         sig = "baja_mensajes" => perfiles'[alias(h)] = NoHay,
         Primera => perfiles'[alias(h)] = NoHay \/ mensajes'[alias(h)] # NoHay \/ sig = "reg_mensajes"
  PROVE  ParejasOK'
<1>1. \A g \in Hilos : alias(g)' = alias(g) /\ pc'[g] = IF g = h THEN sig ELSE pc[g]
  BY DEF alias, Mueve, IInv, HilosOK
<1>2. UnoPorAlias'
  BY <1>1 DEF ParejasOK, UnoPorAlias
<1>3. \A g \in Hilos : g # h /\ pc[g] # "libre" => alias(g) # alias(h) /\ alias(g) \in Alias
  BY TienePeticion DEF ParejasOK, UnoPorAlias, IInv, HilosOK, Encaja
<1>4. ASSUME Primera' PROVE Retirado' /\ Emparejados'
  <2>1. Primera /\ Retirado /\ Emparejados /\ alias(h) \in Alias
    BY <1>4, TienePeticion DEF Primera, ParejasOK, IInv
  <2>2. ASSUME NEW g \in Hilos, pc'[g] = "baja_mensajes" PROVE perfiles'[alias(g)'] = NoHay
    <3>1. CASE g = h
      BY <1>1, <2>2, <3>1
    <3>2. CASE g # h
      <4>1. alias(g) # alias(h) /\ alias(g) \in Alias /\ perfiles[alias(g)] = NoHay
        BY <1>1, <1>3, <2>1, <2>2, <3>2 DEF Retirado
      <4> QED
        BY <1>1, <4>1
    <3> QED
      BY <3>1, <3>2
  <2>3. ASSUME NEW a \in Alias, perfiles'[a] # NoHay
        PROVE  mensajes'[a] # NoHay \/ \E g \in Hilos : pc'[g] = "reg_mensajes" /\ alias(g)' = a
    <3>1. CASE a = alias(h)
      <4>1. mensajes'[alias(h)] # NoHay \/ sig = "reg_mensajes"
        BY <2>1, <2>3, <3>1
      <4> QED
        BY <1>1, <3>1, <4>1
    <3>2. CASE a # alias(h)
      <4>1. mensajes[a] # NoHay \/ \E g \in Hilos : pc[g] = "reg_mensajes" /\ alias(g) = a
        BY <2>1, <2>3, <3>2 DEF Emparejados, Primera
      <4> QED
        BY <1>1, <3>2, <4>1
    <3> QED
      BY <3>1, <3>2
  <2> QED
    BY <2>2, <2>3 DEF Retirado, Emparejados
<1> QED
  BY <1>2, <1>4 DEF ParejasOK

LEMMA MudanzaParejas ==
  ASSUME IInv, ParejasOK, ~FallosES, NEW h \in Hilos, Mudanza(h), ~Cerrar(h),
         ~\E causa : causa # "activo" /\ Cae(causa)
  PROVE  ParejasOK'
<1>1. pc[h] # "libre" /\ alias(h) \in Alias
  BY TienePeticion DEF Mudanza, RegMensajes, BajaPerfil, BajaMensajes, En, IInv
<1>2. CASE CreaPerfil(h, "reg_mensajes")
  <2>1. /\ \E l : Mueve(h, "reg_mensajes", l)
        /\ UNCHANGED <<mensajes, estado, arranques, pet>>
        /\ perfiles' = [perfiles EXCEPT ![alias(h)] = Vacio]
    BY <1>2 DEF CreaPerfil, cotas
  <2> QED
    BY <1>1, <2>1, MudaParejas DEF IInv, GlobalOK
<1>3. CASE RegMensajes(h)
  <2>1. /\ \E l : Mueve(h, "reg_escribir", l)
        /\ mensajes' = [mensajes EXCEPT ![alias(h)] = <<>>]
        /\ UNCHANGED <<perfiles, estado, arranques, pet>>
    BY <1>3 DEF RegMensajes, CreaMensajes, cotas
  <2>2. mensajes'[alias(h)] # NoHay
    BY <1>1, <2>1, FicherosAparte, EmptySeq DEF IInv, GlobalOK
  <2> QED
    BY <1>1, <2>1, <2>2, MudaParejas DEF IInv, GlobalOK
<1>4. CASE BajaPerfil(h) /\ perfiles[alias(h)] # NoHay
  <2>1. /\ \E l : Mueve(h, "baja_mensajes", l)
        /\ perfiles' = [perfiles EXCEPT ![alias(h)] = NoHay]
        /\ UNCHANGED <<mensajes, estado, arranques, pet>>
    BY <1>4 DEF BajaPerfil, cotas
  <2> QED
    BY <1>1, <2>1, MudaParejas DEF IInv, GlobalOK
<1>5. CASE BajaMensajes(h) /\ mensajes[alias(h)] # NoHay
  <2>1. /\ pc[h] = "baja_mensajes" /\ \E l : Mueve(h, "responder", l)
        /\ mensajes' = [mensajes EXCEPT ![alias(h)] = NoHay]
        /\ UNCHANGED <<perfiles, estado, arranques, pet>>
    BY <1>5 DEF BajaMensajes, En, cotas
  <2>2. Primera => perfiles'[alias(h)] = NoHay
    BY <2>1 DEF ParejasOK, Retirado
  <2> QED
    BY <1>1, <2>1, <2>2, MudaParejas DEF IInv, GlobalOK
<1> QED
  BY <1>2, <1>3, <1>4, <1>5 DEF Mudanza

LEMMA EntornoParejas ==
  ASSUME IInv, ParejasOK, Disciplina,
         \/ \E h \in Hilos : Recibir(h) \/ Cerrar(h)
         \/ \E causa : causa # "activo" /\ Cae(causa)
         \/ (\E d \in Dirs : ClienteMuere(d)) \/ Reiniciar \/ UNCHANGED vars
  PROVE  ParejasOK'
<1>1. ASSUME NEW causa, causa # "activo", Cae(causa) PROVE ParejasOK'
  BY <1>1 DEF Cae, ParejasOK, UnoPorAlias, Primera
<1>2. ASSUME NEW h \in Hilos, Recibir(h) \/ Cerrar(h) PROVE ParejasOK'
  <2>1. /\ pc[h] \in {"libre", "cerrar"}
        /\ pc'[h] \notin {"baja_mensajes", "reg_mensajes"}
        /\ UNCHANGED <<perfiles, mensajes, estado, arranques>>
        /\ \A g \in Hilos : g # h => pc'[g] = pc[g] /\ pet'[g] = pet[g]
    BY <1>2 DEF Recibir, Cerrar, En, disco, cotas, Mueve, Entrada, IInv, HilosOK
  <2>2. pet'[h] = SinPeticion \/ alias(h)' \notin EnCurso
    BY <1>2 DEF Recibir, Cerrar, alias, IInv, HilosOK
  <2>3. UnoPorAlias'
    BY <2>1, <2>2 DEF ParejasOK, UnoPorAlias, alias, EnCurso
  <2>4. Primera' => Retirado' /\ Emparejados'
    BY <2>1 DEF ParejasOK, Primera, Retirado, Emparejados, alias
  <2> QED
    BY <2>3, <2>4 DEF ParejasOK
<1>3. CASE (\E d \in Dirs : ClienteMuere(d)) \/ UNCHANGED vars
  <2>1. UNCHANGED <<perfiles, mensajes, estado, arranques, pc, pet>>
    BY <1>3 DEF ClienteMuere, vars, disco, hilos, cotas
  <2> QED
    BY <2>1 DEF ParejasOK, UnoPorAlias, Primera, Retirado, Emparejados, alias
<1>4. CASE Reiniciar
  <2>1. UNCHANGED <<pc, pet>> /\ ~Primera'
    BY <1>4 DEF Reiniciar, hilos, Primera, IInv, GlobalOK
  <2> QED
    BY <2>1 DEF ParejasOK, UnoPorAlias, alias
<1> QED
  BY <1>1, <1>2, <1>3, <1>4

(* With one client application per alias, and files that can be opened, a  *)
(* user that has a profile has a mailbox too, except between the two fopen *)
(* of its REGISTER, until the server is first restarted.                   *)
THEOREM PerfilConBuzon ==
  Disciplina /\ ~FallosES => (Spec => [](arranques = 0 => Emparejados))
<1> SUFFICES ASSUME Disciplina, ~FallosES PROVE Spec => [](arranques = 0 => Emparejados)
  OBVIOUS
<1>1. Init => ParejasOK
  <2> SUFFICES ASSUME Init PROVE ParejasOK
    OBVIOUS
  <2>1. \A a \in Alias : perfiles[a] # NoHay => mensajes[a] # NoHay
    BY FicherosAparte, EmptySeq DEF Init
  <2> QED
    BY <2>1 DEF Init, Arranque, ParejasOK, UnoPorAlias, Retirado, Emparejados
<1>2. IInv /\ CuentasOK /\ ParejasOK /\ [Next]_vars => ParejasOK'
  <2> SUFFICES ASSUME IInv, CuentasOK, ParejasOK, [Next]_vars PROVE ParejasOK'
    OBVIOUS
  <2>1. ASSUME NEW h \in Hilos, tratar_mensaje(h) PROVE ParejasOK'
    <3>1. Tranquilo(h) \/ Mudanza(h)
      BY <2>1, CadaPaso DEF CuentasOK
    <3>2. CASE Cerrar(h) \/ \E causa : causa # "activo" /\ Cae(causa)
      BY <3>2, EntornoParejas
    <3>3. CASE Mudanza(h) /\ ~Cerrar(h) /\ ~\E causa : causa # "activo" /\ Cae(causa)
      BY <3>3, MudanzaParejas
    <3> QED
      BY <3>1, <3>2, <3>3, TranquiloParejas
  <2>2. CASE Matar
    BY <2>2, EntornoParejas DEF Matar
  <2> QED
    BY <2>1, <2>2, EntornoParejas DEF Next
<1>3. ParejasOK => (arranques = 0 => Emparejados)
  BY DEF ParejasOK, Emparejados, Primera
<1>4. Spec => []CuentasOK
  BY SpecCuentas
<1> QED
  BY <1>1, <1>2, <1>3, <1>4, SpecIInv, PTL DEF Spec
=============================================================================
