-------------------------- MODULE ServidorEntregas --------------------------
(***************************************************************************)
(* Proof that no message is left behind (NadaVarado), whatever the         *)
(* interleaving of the threads, the deaths of clients and the crashes, for *)
(* any users, threads and requests.                                        *)
(***************************************************************************)
EXTENDS ServidorTipos

-----------------------------------------------------------------------------
(* A connected user with messages to receive.                              *)
Espera(a) == EnLinea(a) /\ ConPendientes(a)

(* No step of thread h leaves an a behind if nobody starts to wait without *)
(* h looking after it, and h itself does not turn away from one who waits. *)
LEMMA MueveVarado ==
  ASSUME HilosOK, NadaVarado, ~FallosES, NEW h \in Hilos, NEW sig, NEW l,
         Mueve(h, sig, l), UNCHANGED pet,
         \A a \in Alias : Espera(a)' =>
           \/ sig \in PcAtiende /\ Destino(h) = a
           \/ Espera(a) /\ (Atiende(h, a) => sig \in PcAtiende)
  PROVE  NadaVarado'
<1> SUFFICES ASSUME NEW a \in Alias, Espera(a)' PROVE \E g \in Hilos : Atiende(g, a)'
  BY DEF NadaVarado, Espera
<1>1. \A g \in Hilos : /\ pc'[g] = IF g = h THEN sig ELSE pc[g]
                       /\ Destino(g)' = Destino(g)
  BY DEF Mueve, HilosOK, Destino, alias, dest
<1>2. CASE sig \in PcAtiende /\ Destino(h) = a
  BY <1>1, <1>2 DEF Atiende
<1>3. CASE Espera(a) /\ (Atiende(h, a) => sig \in PcAtiende)
  <2>1. PICK g \in Hilos : Atiende(g, a)
    BY <1>3 DEF NadaVarado, Espera
  <2>2. Atiende(g, a)'
    BY <1>1, <1>3, <2>1 DEF Atiende
  <2> QED
    BY <2>2
<1> QED
  BY <1>2, <1>3

(* A step that leaves the files alone and goes on looking after whom the   *)
(* thread looked after, or never did.                                      *)
LEMMA VaVarado ==
  ASSUME HilosOK, NadaVarado, ~FallosES, NEW h \in Hilos, NEW sig, NEW l, Va(h, sig, l),
         pc[h] \in PcAtiende => sig \in PcAtiende \/ ~Espera(Destino(h))
  PROVE  NadaVarado'
<1>1. Mueve(h, sig, l) /\ UNCHANGED <<perfiles, mensajes, pet>>
  BY DEF Va, disco
<1>2. \A a \in Alias : Espera(a)' <=> Espera(a)
  BY <1>1 DEF Espera, EnLinea, Completo, ConPendientes
<1> QED
  BY <1>1, <1>2, MueveVarado DEF Atiende

(* The process ends: nobody is connected any more.                         *)
LEMMA CaeVarado ==
  ASSUME GlobalOK, NEW causa, Cae(causa)
  PROVE  NadaVarado'
<1> SUFFICES ASSUME NEW a \in Alias, EnLinea(a)' PROVE FALSE
  BY DEF NadaVarado
<1>1. perfiles'[a] = IF perfiles[a] \in {NoHay, Vacio} THEN perfiles[a]
                     ELSE [perfiles[a] EXCEPT !.vivos = FALSE]
  BY DEF Cae, SinProceso, GlobalOK
<1>2. perfiles[a] \notin {NoHay, Vacio} /\ perfiles[a] \in Perfil
  BY <1>1 DEF EnLinea, Completo, GlobalOK, FicherosPerfil
<1>3. perfiles'[a].vivos = FALSE
  BY <1>1, <1>2 DEF Perfil
<1> QED
  BY <1>3 DEF EnLinea

(* Of the operations that write a profile, those that leave nobody who was *)
(* not already connected, connected.                                       *)
LEMMA EscribePerfilEspera ==
  ASSUME GlobalOK, NEW h \in Hilos, NEW a \in Alias, NEW p, EscribePerfil(h, a, p)
  PROVE  \A b \in Alias : Espera(b)' => Espera(b) \/ (b = a /\ p.status = Conectado)
BY DEF GlobalOK, EscribePerfil, Espera, EnLinea, Completo, ConPendientes

-----------------------------------------------------------------------------
(* The operations, one by one.                                             *)

LEMMA RegisterVarado ==
  ASSUME IInv, NadaVarado, ~FallosES, NEW h \in Hilos, register_gestiones(h)
  PROVE  NadaVarado'
<1>1. pc[h] \in PcRegister /\ pc[h] \notin PcAtiende
  BY DEF register_gestiones, RegAccess, RegPerfil, RegMensajes, RegSoloMensajes, RegEscribir, En,
         PcRegister, PcAtiende
<1>2. alias(h) \in Alias
  BY <1>1, TienePeticion DEF IInv, PcRegister
<1>3. CASE \E sig, l : Va(h, sig, l)
  BY <1>1, <1>3, VaVarado DEF IInv
<1>4. CASE \E sig, l : Mueve(h, sig, l) /\ UNCHANGED pet /\ \A a \in Alias : Espera(a)' => Espera(a)
  BY <1>1, <1>4, MueveVarado DEF IInv, Atiende
<1>5. ASSUME NEW sig, CreaPerfil(h, sig) PROVE NadaVarado'
  <2>1. \A a \in Alias : Espera(a)' => Espera(a)
    BY <1>5 DEF CreaPerfil, Espera, EnLinea, Completo, ConPendientes, IInv, GlobalOK
  <2> QED
    BY <1>4, <1>5, <2>1 DEF CreaPerfil
<1>6. ASSUME NEW sig, NEW bien, NEW mal, CreaMensajes(h, sig, bien, mal) PROVE NadaVarado'
  <2>1. \A a \in Alias : Espera(a)' => Espera(a)
    BY <1>6 DEF CreaMensajes, Devuelve, Va, disco, Espera, EnLinea, Completo, ConPendientes, IInv, GlobalOK
  <2>2. \E l : Mueve(h, sig, l) /\ UNCHANGED pet
    BY <1>6, ~FallosES DEF CreaMensajes
  <2> QED
    BY <1>4, <2>1, <2>2
<1>7. CASE RegEscribir(h)
  <2>1. \A a \in Alias : Espera(a)' => Espera(a)
    BY <1>2, <1>7, EscribePerfilEspera
    DEF RegEscribir, IInv, PerfilNuevo, Conectado, Desconectado
  <2> QED
    BY <1>4, <1>7, <2>1 DEF RegEscribir, EscribePerfil
<1>8. CASE RegAccess(h)
  BY <1>3, <1>8 DEF RegAccess, Sigue, Devuelve
<1>9. CASE RegPerfil(h)
  BY <1>5, <1>9 DEF RegPerfil
<1>10. CASE RegMensajes(h) \/ RegSoloMensajes(h)
  BY <1>6, <1>10 DEF RegMensajes, RegSoloMensajes
<1> QED
  BY <1>7, <1>8, <1>9, <1>10 DEF register_gestiones

LEMMA UnregisterVarado ==
  ASSUME IInv, NadaVarado, ~FallosES, NEW h \in Hilos, unregister_gestiones(h)
  PROVE  NadaVarado'
<1>1. pc[h] \in PcUnregister /\ pc[h] \notin PcAtiende
  BY DEF unregister_gestiones, BajaAccessPerfil, BajaAccessMensajes, BajaPerfil, BajaMensajes, Access,
         En, PcUnregister, PcAtiende
<1>2. CASE \E sig, l : Va(h, sig, l)
  BY <1>1, <1>2, VaVarado DEF IInv
<1>3. CASE BajaAccessPerfil(h) \/ BajaAccessMensajes(h)
  BY <1>2, <1>3 DEF BajaAccessPerfil, BajaAccessMensajes, Access, Sigue, Devuelve
<1>4. CASE (BajaPerfil(h) \/ BajaMensajes(h)) /\ ~Devuelve(h, 2, "responder")
  <2>1. \A a \in Alias : Espera(a)' => Espera(a)
    BY <1>4 DEF BajaPerfil, BajaMensajes, Espera, EnLinea, Completo, ConPendientes, IInv, GlobalOK
  <2>2. \E sig, l : Mueve(h, sig, l) /\ UNCHANGED pet
    BY <1>4 DEF BajaPerfil, BajaMensajes
  <2> QED
    BY <1>1, <2>1, <2>2, MueveVarado DEF IInv, Atiende
<1> QED
  BY <1>2, <1>3, <1>4 DEF unregister_gestiones, Devuelve

(* CONNECT: the step that makes the user reachable goes on to look for     *)
(* messages.                                                               *)
LEMMA ConnectVarado ==
  ASSUME IInv, NadaVarado, ~FallosES, NEW h \in Hilos, connect_gestiones(h)
  PROVE  NadaVarado'
<1>1. pc[h] \in PcConnect /\ pc[h] \notin PcAtiende /\ pc[h] # "libre"
  BY DEF connect_gestiones, ConNtop, TomaDireccion, ConAccess, ConLeer, ConEscribir, EscribeConexion, Access, En,
         PcConnect, PcAtiende
<1>2. alias(h) \in Alias /\ Destino(h) = alias(h)
  BY <1>1, TienePeticion DEF IInv, HilosOK, Encaja, PcConnect, Destino
<1>3. CASE \E sig, l : Va(h, sig, l)
  BY <1>1, <1>3, VaVarado DEF IInv
<1>4. CASE ConNtop(h) \/ ConAccess(h)
  BY <1>3, <1>4 DEF ConNtop, TomaDireccion, ConAccess, Access, Sigue, Devuelve
<1>5. ASSUME NEW reg, AbrePerfil(h, alias(h), "con_escribir", reg) PROVE NadaVarado'
  BY <1>1, <1>5, MueveVarado
  DEF AbrePerfil, disco, IInv, Atiende, Espera, EnLinea, Completo, ConPendientes
<1>6. CASE ConLeer(h)
  BY <1>3, <1>5, <1>6 DEF ConLeer, Devuelve
<1>7. CASE ConEscribir(h)
  <2>1. PICK p : EscribePerfil(h, alias(h), p) /\ \E l : Mueve(h, "is_connected", l)
    BY <1>7 DEF ConEscribir, EscribeConexion
  <2>2. \A a \in Alias : Espera(a)' => Espera(a) \/ a = Destino(h)
    BY <1>2, <2>1, EscribePerfilEspera DEF IInv
  <2> QED
    BY <1>1, <2>1, <2>2, MueveVarado DEF IInv, EscribePerfil, Atiende, PcAtiende
<1> QED
  BY <1>4, <1>6, <1>7 DEF connect_gestiones

LEMMA DisconnectVarado ==
  ASSUME IInv, NadaVarado, ~FallosES, NEW h \in Hilos, disconnect_gestiones(h)
  PROVE  NadaVarado'
<1>1. pc[h] \in PcDisconnect /\ pc[h] \notin PcAtiende /\ pc[h] # "libre"
  BY DEF disconnect_gestiones, DesAccess, DesLeer, DesEscribir, Access, En, PcDisconnect, PcAtiende
<1>2. alias(h) \in Alias
  BY <1>1, TienePeticion DEF IInv
<1>3. CASE \E sig, l : Va(h, sig, l)
  BY <1>1, <1>3, VaVarado DEF IInv
<1>4. CASE DesAccess(h)
  BY <1>3, <1>4 DEF DesAccess, Access, Sigue, Devuelve
<1>5. ASSUME NEW reg, AbrePerfil(h, alias(h), "des_escribir", reg) PROVE NadaVarado'
  BY <1>1, <1>5, MueveVarado
  DEF AbrePerfil, disco, IInv, Atiende, Espera, EnLinea, Completo, ConPendientes
<1>6. CASE DesLeer(h)
  BY <1>3, <1>5, <1>6 DEF DesLeer, Devuelve
<1>7. CASE DesEscribir(h)
  <2> DEFINE p == [PerfilNuevo EXCEPT !.last_id = loc[h].reg.last_id]
  <2>1. EscribePerfil(h, alias(h), p) /\ p.status # Conectado
    BY <1>7 DEF DesEscribir, PerfilNuevo, Conectado, Desconectado
  <2>2. \A a \in Alias : Espera(a)' => Espera(a)
    BY <1>2, <2>1, EscribePerfilEspera DEF IInv
  <2>3. \E sig, l : Mueve(h, sig, l) /\ UNCHANGED pet
    BY <1>7 DEF DesEscribir, EscribePerfil
  <2> QED
    BY <1>1, <2>2, <2>3, MueveVarado DEF IInv, Atiende
<1> QED
  BY <1>4, <1>6, <1>7 DEF disconnect_gestiones

(* SEND: writing the counter back may make the receiver reachable again,   *)
(* and appending gives it something to wait for; the thread still has to   *)
(* look whether the receiver is connected.                                 *)
LEMMA SendVarado ==
  ASSUME IInv, NadaVarado, ~FallosES, NEW h \in Hilos, send_to_server_gestiones(h)
  PROVE  NadaVarado'
<1>1. pc[h] \in PcSend /\ pc[h] # "libre"
  BY DEF send_to_server_gestiones, EnvRemitente, EnvMensajes, EnvPerfil, EnvLeer, EnvEscribir,
         EscribeContador, EnvAbrir, EnvAnexar, Access, En, PcSend
<1>2. dest(h) \in Alias /\ Destino(h) = dest(h)
  BY <1>1, TienePeticion DEF IInv, HilosOK, Encaja, PcSend, Destino
<1>3. CASE EnvRemitente(h) \/ EnvMensajes(h) \/ EnvPerfil(h)
  BY <1>3, VaVarado
  DEF EnvRemitente, EnvMensajes, EnvPerfil, Access, En, Sigue, Devuelve, IInv, PcAtiende
<1>4. CASE Devuelve(h, 2, "is_connected")
  BY <1>4, VaVarado DEF Devuelve, IInv, PcAtiende
<1>5. CASE EnvLeer(h) /\ ~Devuelve(h, 2, "is_connected")
  <2>1. PICK reg : pc[h] = "env_leer" /\ AbrePerfil(h, dest(h), "env_escribir", reg)
    BY <1>5 DEF EnvLeer, En
  <2> QED
    BY <2>1, MueveVarado
    DEF AbrePerfil, disco, IInv, Atiende, PcAtiende, Espera, EnLinea, Completo, ConPendientes
<1>6. CASE EnvEscribir(h)
  <2>1. PICK p : EscribePerfil(h, dest(h), p) /\ \E l : Mueve(h, "env_abrir", l)
    BY <1>6 DEF EnvEscribir, EscribeContador
  <2>2. \A a \in Alias : Espera(a)' => Espera(a) \/ a = Destino(h)
    BY <1>2, <2>1, EscribePerfilEspera DEF IInv
  <2> QED
    BY <2>1, <2>2, MueveVarado DEF IInv, EscribePerfil, PcAtiende
<1>7. CASE EnvAbrir(h) /\ ~Devuelve(h, 2, "is_connected")
  <2>1. (\E l : Mueve(h, "env_anexar", l)) /\ UNCHANGED <<pet, perfiles, mensajes>>
    BY <1>7 DEF EnvAbrir, disco
  <2> QED
    BY <2>1, MueveVarado DEF IInv, PcAtiende, Espera, EnLinea, Completo, ConPendientes
<1>8. CASE EnvAnexar(h)
  <2>1. \A a \in Alias : Espera(a)' => Espera(a) \/ a = Destino(h)
    BY <1>2, <1>8 DEF EnvAnexar, Espera, EnLinea, Completo, ConPendientes, IInv, GlobalOK
  <2>2. (\E l : Mueve(h, "is_connected", l)) /\ UNCHANGED pet
    BY <1>8 DEF EnvAnexar
  <2> QED
    BY <2>1, <2>2, MueveVarado DEF IInv, PcAtiende
<1> QED
  BY <1>3, <1>4, <1>5, <1>6, <1>7, <1>8 DEF send_to_server_gestiones

(* The look-up turns away from the receiver only if it is not connected.   *)
LEMMA IsConnectedVarado ==
  ASSUME IInv, NadaVarado, ~FallosES, NEW h \in Hilos, IsConnected(h)
  PROVE  NadaVarado'
<1>1. pc[h] = "is_connected" /\ Destino(h) \in Alias
  BY TienePeticion DEF IsConnected, En, IInv
<1>2. CASE Cae("SIGSEGV")
  BY <1>2, CaeVarado DEF IInv
<1>3. ASSUME NEW l, Va(h, "num", l) PROVE NadaVarado'
  BY <1>3, VaVarado DEF IInv, PcAtiende
<1>4. CASE Sigue(h, "responder") /\ ~EnLinea(Destino(h))
  BY <1>4, VaVarado DEF Sigue, IInv, Espera
<1>5. Sigue(h, "responder") => \/ ~EnLinea(Destino(h))
                               \/ Cae("SIGSEGV") \/ \E l : Va(h, "num", l)
  BY ~FallosES DEF IsConnected, is_connected, Lecturas, EnLinea, Completo
<1>6. Sigue(h, "responder") \/ Cae("SIGSEGV") \/ \E l : Va(h, "num", l)
  BY DEF IsConnected, is_connected
<1> QED
  BY <1>2, <1>3, <1>4, <1>5, <1>6

(* The count turns away from the receiver only if the mailbox is empty,    *)
(* and the other passes over the mailbox do not turn away.                 *)
LEMMA BuzonLeidoVarado ==
  ASSUME IInv, NadaVarado, ~FallosES, NEW h \in Hilos,
         \/ NumMensajesPendientes(h) \/ Contar(h)
         \/ ExtraerIDs(h) \/ ExtraerRemitentes(h) \/ ExtraerMensajes(h)
  PROVE  NadaVarado'
<1>1. pc[h] # "libre" /\ Destino(h) \in Alias
  BY TienePeticion DEF NumMensajesPendientes, Contar, ContarComo, ExtraerIDs, ExtraerRemitentes,
                       ExtraerMensajes, Lee, En, IInv
<1>2. CASE Cae("exit(1)")
  BY <1>2, CaeVarado DEF IInv
<1>3. ASSUME NEW sig \in {"contar", "ids", "remitentes", "mensajes", "vaciar"}, NEW l, Va(h, sig, l)
      PROVE  NadaVarado'
  BY <1>3, VaVarado DEF IInv, PcAtiende
<1>4. CASE NumMensajesPendientes(h) /\ ~Cae("exit(1)")
  <2>1. mensajes[Destino(h)] # NoHay /\ NumMayorQue(h, 0)
    BY <1>4 DEF NumMensajesPendientes, Lee
  <2>2. CASE Sigue(h, "contar")
    BY <1>3, <2>2 DEF Sigue
  <2>3. CASE ~Sigue(h, "contar")
    <3>1. Sigue(h, "responder") /\ Len(mensajes[Destino(h)]) <= 0
      BY <2>1, <2>3 DEF NumMayorQue
    <3>2. mensajes[Destino(h)] \in Seq(Mensaje)
      BY <1>1, <2>1, BuzonEsSecuencia DEF IInv
    <3>3. mensajes[Destino(h)] = <<>>
      BY <3>1, <3>2, EmptySeq
    <3> QED
      BY <3>1, <3>3, VaVarado DEF Sigue, IInv, Espera, ConPendientes
  <2> QED
    BY <2>2, <2>3
<1>5. CASE Contar(h)
  BY <1>2, <1>3, <1>5 DEF Contar, ContarComo, Lee
<1>6. CASE ExtraerIDs(h) \/ ExtraerRemitentes(h) \/ ExtraerMensajes(h)
  BY <1>2, <1>3, <1>6 DEF ExtraerIDs, ExtraerRemitentes, ExtraerMensajes, Lee
<1> QED
  BY <1>2, <1>4, <1>5, <1>6

LEMMA VaciarVarado ==
  ASSUME IInv, NadaVarado, ~FallosES, NEW h \in Hilos, VaciarMensajes(h)
  PROVE  NadaVarado'
<1>1. /\ pc[h] = "vaciar" /\ DejaBuzon(h, <<>>, "resolver", [loc[h] EXCEPT !.n = 0])
  BY ~FallosES DEF VaciarMensajes, En
<1>2. Destino(h) \in Alias
  BY <1>1, TienePeticion DEF IInv
<1>3. \A a \in Alias : Espera(a)' => Espera(a) /\ a # Destino(h)
  BY <1>1, <1>2 DEF DejaBuzon, Espera, EnLinea, Completo, ConPendientes, IInv, GlobalOK
<1> QED
  BY <1>1, <1>3, MueveVarado DEF DejaBuzon, IInv, Atiende

(* Once the mailbox has been emptied, nothing a thread does makes anybody  *)
(* wait.                                                                   *)
LEMMA EnvioVarado ==
  ASSUME IInv, NadaVarado, ~FallosES, NEW h \in Hilos,
         \/ EnvioResolver(h) \/ EnvioConectar(h) \/ EnvioEntregar(h)
         \/ envio_ack(h) \/ OpInvalida(h) \/ Responder(h) \/ UltimoIdAccess(h) \/ UltimoIdLeer(h)
  PROVE  NadaVarado'
<1>1. pc[h] \notin PcAtiende
  BY DEF EnvioResolver, EnvioConectar, EnvioEntregar, envio_ack, AckIsConnected, AckResolver,
         AckConectar, AckIdAccess, AckIdLeer, AckEnviar, OpInvalida, Responder, UltimoIdAccess,
         UltimoIdLeer, IdAccess, IdLeer, En, PcAtiende
<1>2. CASE \E causa : Cae(causa)
  BY <1>2, CaeVarado DEF IInv
<1>3. CASE \E sig, l : Va(h, sig, l)
  BY <1>1, <1>3, VaVarado DEF IInv
<1>4. CASE \E sig, l : Mueve(h, sig, l) /\ UNCHANGED <<disco, pet>>
  BY <1>1, <1>4, MueveVarado
  DEF disco, IInv, Atiende, Espera, EnLinea, Completo, ConPendientes
<1>5. ASSUME NEW r, FinEnvio(h, r) PROVE NadaVarado'
  BY <1>3, <1>5 DEF FinEnvio
<1>6. ASSUME NEW sig, NEW l, Resuelve(h, sig, l) PROVE NadaVarado'
  BY <1>2, <1>4, <1>6 DEF Resuelve
<1>7. ASSUME NEW t, NEW sig, NEW l, Transmite(h, t, sig, l) PROVE NadaVarado'
  BY <1>4, <1>7 DEF Transmite
<1>8. CASE EnvioResolver(h)
  BY <1>5, <1>6, <1>8 DEF EnvioResolver
<1>9. CASE EnvioConectar(h)
  BY <1>3, <1>5, <1>9 DEF EnvioConectar
<1>10. CASE EnvioEntregar(h)
  BY <1>2, <1>3, <1>5, <1>7, <1>10 DEF EnvioEntregar
<1>11. CASE AckIsConnected(h)
  BY <1>2, <1>3, <1>11 DEF AckIsConnected, is_connected, Devuelve
<1>12. CASE AckResolver(h)
  BY <1>6, <1>12 DEF AckResolver
<1>13. CASE AckConectar(h)
  BY <1>2, <1>3, <1>13 DEF AckConectar
<1>14. CASE AckEnviar(h)
  BY <1>2, <1>3, <1>7, <1>14 DEF AckEnviar, Sigue, Devuelve
<1>15. CASE OpInvalida(h) \/ Responder(h)
  BY <1>2, <1>3, <1>15 DEF OpInvalida, Responder
<1>16. CASE AckIdAccess(h) \/ AckIdLeer(h) \/ UltimoIdAccess(h) \/ UltimoIdLeer(h)
  BY <1>3, <1>16 DEF AckIdAccess, AckIdLeer, UltimoIdAccess, UltimoIdLeer, IdAccess, IdLeer, Sigue
<1> QED
  BY <1>8, <1>9, <1>10, <1>11, <1>12, <1>13, <1>14, <1>15, <1>16 DEF envio_ack

(* A request begins or ends, a client dies, the server is killed or        *)
(* started.                                                                *)
LEMMA EntornoVarado ==
  ASSUME IInv, NadaVarado, ~FallosES,
         \/ \E h \in Hilos : Recibir(h) \/ Cerrar(h)
         \/ (\E d \in Dirs : ClienteMuere(d)) \/ Matar \/ Reiniciar \/ UNCHANGED vars
  PROVE  NadaVarado'
<1>1. CASE Matar
  BY <1>1, CaeVarado DEF Matar, IInv
<1>2. ASSUME NEW h \in Hilos, Recibir(h) \/ Cerrar(h) PROVE NadaVarado'
  <2>1. /\ pc[h] \in {"libre", "cerrar"} /\ UNCHANGED <<perfiles, mensajes>>
        /\ \A g \in Hilos : g # h => pc'[g] = pc[g] /\ pet'[g] = pet[g]
    BY <1>2 DEF Recibir, Cerrar, En, disco, Mueve, IInv, HilosOK
  <2>2. \A g \in Hilos, a \in Alias : Atiende(g, a) => Atiende(g, a)'
    BY <2>1 DEF Atiende, PcAtiende, Destino, alias, dest
  <2> QED
    BY <2>1, <2>2 DEF NadaVarado, EnLinea, Completo, ConPendientes
<1>3. CASE ~Matar /\ ~\E h \in Hilos : Recibir(h) \/ Cerrar(h)
  <2>1. UNCHANGED <<perfiles, mensajes, pc, pet>>
    BY <1>3 DEF ClienteMuere, Reiniciar, vars, disco, hilos
  <2> QED
    BY <2>1 DEF NadaVarado, EnLinea, Completo, ConPendientes, Atiende, Destino, alias, dest
<1> QED
  BY <1>1, <1>2, <1>3

-----------------------------------------------------------------------------
LEMMA PasoVarado == IInv /\ NadaVarado /\ [Next]_vars => NadaVarado'
<1> SUFFICES ASSUME IInv, NadaVarado, [Next]_vars, ~FallosES PROVE NadaVarado'
  BY DEF NadaVarado
<1>1. ASSUME NEW h \in Hilos, tratar_mensaje(h) PROVE NadaVarado'
  BY <1>1, RegisterVarado, UnregisterVarado, ConnectVarado, DisconnectVarado, SendVarado,
     IsConnectedVarado, BuzonLeidoVarado, VaciarVarado, EnvioVarado, EntornoVarado
  DEF tratar_mensaje, envio_mensajes_pendientes
<1> QED
  BY <1>1, EntornoVarado DEF Next

(* A connected user never has pending messages that no thread is on its    *)
(* way to deliver (server.c:250-258, 271-277), as long as the server can   *)
(* open its files.                                                         *)
THEOREM NingunMensajeVarado == Spec => []NadaVarado
<1>1. Init => NadaVarado
  BY DEF Init, NadaVarado, EnLinea, Completo, PerfilNuevo
<1> QED
  BY <1>1, PasoVarado, SpecIInv, PTL DEF Spec
=============================================================================
