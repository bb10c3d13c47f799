--------------------------- MODULE ServidorUnHilo ---------------------------
(***************************************************************************)
(* Proofs about a server that serves one request at a time (one thread),   *)
(* with failing calls, dying clients, crashes and restarts at any step:    *)
(* replies are true (RespuestaVeraz, IdRespondido), numbers grow           *)
(* (IdsCrecientes) and the process follows a bad pointer for known reasons *)
(* only (PunteroAjeno); and before any restart it ends by itself for known *)
(* reasons only (SoloCaeConMotivo).                                        *)
(***************************************************************************)
EXTENDS ServidorTipos

UnHilo == \A g, h \in Hilos : g = h

(* What an earlier call left on the stack and looks like the profile of a  *)
(* connected user with a live pointer has an address: only CONNECT makes   *)
(* such structs, and it fills in the peer's (gestiones.c:158).             *)
BasuraConIP == \A p \in PerfilesBasura : p.status = Conectado /\ p.vivos => p.IP \in IPs

-----------------------------------------------------------------------------
(* The files: beside the numbers in order, a user that never left has no   *)
(* messages before it has a written profile; whoever is on line has an     *)
(* address.                                                                *)
SinPerfilSinMensajes == \A a \in Alias \ bajas : ~Completo(a) => ~ConPendientes(a)
EnLineaConIP == \A a \in Alias : EnLinea(a) => perfiles[a].IP \in IPs

FicherosSanos == IdsCrecientes /\ SinPerfilSinMensajes /\ EnLineaConIP

(* What the thread, at step sig with locals l, knows of the files: nothing *)
(* has changed since it looked.                                            *)
SabeAlta(h, sig, l) ==
  /\ sig = "reg_perfil" => perfiles[alias(h)] = NoHay
  /\ sig \in {"reg_mensajes", "reg_escribir"} =>
       perfiles[alias(h)] = Vacio /\ abierto[h] = <<"perfil", alias(h)>>
  /\ sig = "reg_escribir" /\ l.res = 0 => mensajes[alias(h)] # NoHay
  /\ sig = "baja_mensajes" => perfiles[alias(h)] = NoHay

(* The profile it holds open is the one it read.                           *)
SabePerfil(h, sig, l) ==
  /\ sig \in {"con_access", "con_leer", "con_escribir"} => l.IP \in IPs
  /\ sig \in {"con_escribir", "des_escribir", "env_escribir"} =>
       abierto[h] = <<"perfil", Destino(h)>> /\ l.reg \in Lecturas(Destino(h))

(* The number it gave is still the counter, and no message has it yet; it  *)
(* will append at the end.                                                 *)
SabeEnvio(h, sig, l) ==
  /\ sig \in {"env_abrir", "env_anexar"} \/ l.id # 0 =>
       pet[h].op = "SEND" /\ Completo(dest(h)) /\ perfiles[dest(h)].last_id = l.id
  /\ sig \in {"env_abrir", "env_anexar"} /\ dest(h) \notin bajas /\ mensajes[dest(h)] # NoHay =>
       \A i \in DOMAIN mensajes[dest(h)] : mensajes[dest(h)][i].id < l.id
  /\ sig = "env_anexar" => /\ abierto[h] = <<"mensajes", dest(h)>>
                           /\ l.pos = Len(mensajes[dest(h)]) + 1

(* The address it was given is none only for a profile that is not this    *)
(* process's work.                                                         *)
SabeIP(h, sig, l) ==
  /\ sig \in {"num", "contar", "ids", "remitentes", "mensajes", "vaciar", "resolver", "conectar", "entregar"}
       /\ l.IP = SinIP => PerfilAjeno(Destino(h))
  /\ sig = "ack_resolver" /\ l.IP = SinIP => PerfilAjeno(alias(h))

(* The result it is about to give is true.                                 *)
Cierto(h) ==
  CASE pet[h].op = "REGISTER"   -> Completo(alias(h)) /\ mensajes[alias(h)] # NoHay
    [] pet[h].op = "UNREGISTER" -> perfiles[alias(h)] = NoHay /\ mensajes[alias(h)] = NoHay
    [] pet[h].op = "DISCONNECT" -> Completo(alias(h)) /\ ~EnLinea(alias(h))
    [] OTHER -> TRUE
SabeRespuesta(h, sig, l) ==
  /\ (sig = "responder" /\ l.res = 0) \/ (sig = "cerrar" /\ l.codigo = 0) => Cierto(h)
  /\ sig = "cerrar" /\ pet[h].op = "SEND" /\ l.id # 0 => l.ultimo = l.id \/ (FallosES /\ l.ultimo = 2)

Sabe(h, sig, l) ==
  /\ SabeAlta(h, sig, l) /\ SabePerfil(h, sig, l) /\ SabeEnvio(h, sig, l)
  /\ SabeIP(h, sig, l) /\ SabeRespuesta(h, sig, l)

SerieOK == FicherosSanos /\ \A h \in Hilos : pc[h] # "libre" => Sabe(h, pc[h], loc[h])

-----------------------------------------------------------------------------
(* What the steps are made of.                                             *)

(* With one thread, what that thread knows is all there is to know.        *)
LEMMA ArmaSerie ==
  ASSUME UnHilo, NEW h \in Hilos, FicherosSanos',
         pc'[h] # "libre" => Sabe(h, pc[h], loc[h])'
  PROVE  SerieOK'
<1>1. \A g \in Hilos : g = h
  BY DEF UnHilo
<1> QED
  BY <1>1 DEF SerieOK

LEMMA QuietoSerie ==
  ASSUME SerieOK, UNCHANGED <<perfiles, mensajes, bajas>>
  PROVE  FicherosSanos'
BY DEF SerieOK, FicherosSanos, IdsCrecientes, SinPerfilSinMensajes, ConPendientes,
       EnLineaConIP, EnLinea, Completo

(* What is known survives a step that changes no file, no handle and no    *)
(* history.                                                                *)
LEMMA SabeIgual ==
  ASSUME IInv, NEW h \in Hilos, NEW sig, NEW l, Mueve(h, sig, l), Sabe(h, sig, l),
         UNCHANGED <<perfiles, mensajes, abierto, pet, bajas>>
  PROVE  Sabe(h, pc[h], loc[h])'
<1>1. pc'[h] = sig /\ loc'[h] = l
  BY DEF Mueve, IInv, HilosOK
<1>2. SabeAlta(h, pc[h], loc[h])'
  BY <1>1 DEF Sabe, SabeAlta, alias
<1>3. SabePerfil(h, pc[h], loc[h])'
  BY <1>1 DEF Sabe, SabePerfil, Lecturas, Destino, alias, dest
<1>4. SabeEnvio(h, pc[h], loc[h])'
  BY <1>1 DEF Sabe, SabeEnvio, Completo, alias, dest
<1>5. SabeIP(h, pc[h], loc[h])'
  BY <1>1 DEF Sabe, SabeIP, PerfilAjeno, Completo, Destino, alias, dest
<1>6. SabeRespuesta(h, pc[h], loc[h])'
  BY <1>1 DEF Sabe, SabeRespuesta, Cierto, Completo, EnLinea, alias
<1> QED
  BY <1>2, <1>3, <1>4, <1>5, <1>6 DEF Sabe

LEMMA VaSerie ==
  ASSUME UnHilo, IInv, SerieOK, NEW h \in Hilos, NEW sig, NEW l, Va(h, sig, l), Sabe(h, sig, l)
  PROVE  SerieOK'
BY SabeIgual, QuietoSerie, ArmaSerie DEF Va, disco, clientes, historia

(* The steps before which nothing is known of the files but, perhaps, the  *)
(* number a SEND gave; and the reply.                                      *)
PcLigero == {"reg_access", "reg_solo_mensajes", "baja_access_perfil", "baja_access_mensajes", "baja_perfil",
             "con_ntop", "des_access", "des_leer", "env_remitente", "env_mensajes", "env_perfil", "env_leer",
             "is_connected", "ack_is_connected", "ack_conectar", "ack_id_access", "ack_id_leer", "ack_enviar",
             "id_access", "id_leer"}

LEMMA SabeLigero ==
  ASSUME SerieOK, NEW h \in Hilos, pc[h] # "libre", NEW sig \in PcLigero \cup {"responder"}, NEW l,
         l.id = loc[h].id, sig = "responder" /\ l.res = 0 => Cierto(h)
  PROVE  Sabe(h, sig, l)
<1>1. SabeEnvio(h, pc[h], loc[h])
  BY DEF SerieOK, Sabe
<1>2. SabeEnvio(h, sig, l)
  BY <1>1 DEF SabeEnvio, PcLigero
<1>3. SabeAlta(h, sig, l) /\ SabePerfil(h, sig, l) /\ SabeIP(h, sig, l)
  BY DEF SabeAlta, SabePerfil, SabeIP, PcLigero
<1>4. SabeRespuesta(h, sig, l)
  BY DEF SabeRespuesta, PcLigero
<1> QED
  BY <1>2, <1>3, <1>4 DEF Sabe

(* Every result of a CONNECT or a SEND is let be, and every error code.    *)
LEMMA DevuelveSerie ==
  ASSUME UnHilo, IInv, SerieOK, NEW h \in Hilos, pc[h] # "libre", NEW sig \in PcLigero \cup {"responder"},
         \/ Sigue(h, sig) /\ (sig = "responder" => pet[h].op \in {"CONNECT", "SEND"})
         \/ \E r : Devuelve(h, r, sig) /\ (sig = "responder" => r # 0 \/ pet[h].op \in {"CONNECT", "SEND"})
  PROVE  SerieOK'
<1>1. loc[h] \in Local /\ (pet[h].op \in {"CONNECT", "SEND"} => Cierto(h))
  BY DEF IInv, HilosOK, Cierto
<1>2. CASE Sigue(h, sig) /\ (sig = "responder" => pet[h].op \in {"CONNECT", "SEND"})
  BY <1>1, <1>2, SabeLigero, VaSerie DEF Sigue
<1>3. ASSUME NEW r, Devuelve(h, r, sig), sig = "responder" => r # 0 \/ pet[h].op \in {"CONNECT", "SEND"}
      PROVE  SerieOK'
  <2> DEFINE l == [loc[h] EXCEPT !.res = r]
  <2>1. l.id = loc[h].id /\ l.res = r /\ Va(h, sig, l)
    BY <1>1, <1>3 DEF Local, Devuelve
  <2> HIDE DEF l
  <2> QED
    BY <1>1, <1>3, <2>1, SabeLigero, VaSerie
<1> QED
  BY <1>2, <1>3

(* The process ends: only the pointers in the profiles change.             *)
LEMMA CaeSerie ==
  ASSUME IInv, SerieOK, NEW causa, Cae(causa)
  PROVE  SerieOK'
<1>1. \A a \in Alias : perfiles'[a] = IF perfiles[a] \in {NoHay, Vacio} THEN perfiles[a]
                                      ELSE [perfiles[a] EXCEPT !.vivos = FALSE]
  BY DEF Cae, SinProceso, IInv, GlobalOK
<1>2. ASSUME NEW a \in Alias
      PROVE  /\ Completo(a)' <=> Completo(a)
             /\ Completo(a) => perfiles'[a].last_id = perfiles[a].last_id /\ ~perfiles'[a].vivos
  <2>1. Completo(a) => perfiles[a] \in Perfil
    BY DEF IInv, GlobalOK, FicherosPerfil, Completo
  <2>2. Completo(a) => [perfiles[a] EXCEPT !.vivos = FALSE] \in Perfil
    BY <2>1 DEF Perfil
  <2>3. Perfil \cap {NoHay, Vacio} = {}
    BY FicherosAparte
  <2>4. Completo(a) => perfiles'[a].last_id = perfiles[a].last_id /\ ~perfiles'[a].vivos
    BY <1>1, <2>1 DEF Completo, Perfil
  <2> QED
    BY <1>1, <2>2, <2>3, <2>4 DEF Completo
<1>3. UNCHANGED <<mensajes, bajas>> /\ pc' = [g \in Hilos |-> "libre"]
  BY DEF Cae, clientes, historia
<1>4. IdsCrecientes'
  BY <1>2, <1>3 DEF SerieOK, FicherosSanos, IdsCrecientes
<1>5. SinPerfilSinMensajes' /\ EnLineaConIP'
  BY <1>2, <1>3 DEF SerieOK, FicherosSanos, SinPerfilSinMensajes, ConPendientes,
                    EnLineaConIP, EnLinea
<1> QED
  BY <1>3, <1>4, <1>5 DEF SerieOK, FicherosSanos

LEMMA AbrePerfilSerie ==
  ASSUME UnHilo, IInv, SerieOK, NEW h \in Hilos, pc[h] # "libre", NEW sig \in {"con_escribir", "des_escribir", "env_escribir"},
         NEW reg \in Lecturas(Destino(h)), AbrePerfil(h, Destino(h), sig, reg), sig = "con_escribir" => loc[h].IP \in IPs
  PROVE  SerieOK'
<1> DEFINE l == [loc[h] EXCEPT !.reg = reg]
<1>1. /\ Mueve(h, sig, l) /\ abierto' = [abierto EXCEPT ![h] = <<"perfil", Destino(h)>>]
      /\ UNCHANGED <<perfiles, mensajes, pet, bajas>>
  BY DEF AbrePerfil, disco, clientes, historia
<1>2. l.id = loc[h].id /\ l.reg = reg /\ l.IP = loc[h].IP
  BY DEF IInv, HilosOK, Local
<1>3. pc'[h] = sig /\ loc'[h] = l /\ abierto'[h] = <<"perfil", Destino(h)>>
  BY <1>1 DEF Mueve, IInv, HilosOK, GlobalOK
<1> HIDE DEF l
<1>4. SabeAlta(h, pc[h], loc[h])' /\ SabeIP(h, pc[h], loc[h])'
      /\ SabeRespuesta(h, pc[h], loc[h])'
  BY <1>3 DEF SabeAlta, SabeIP, SabeRespuesta
<1>5. SabePerfil(h, pc[h], loc[h])'
  BY <1>1, <1>2, <1>3 DEF SabePerfil, Lecturas, Destino, alias, dest
<1>6. SabeEnvio(h, pc[h], loc[h])'
  <2>1. SabeEnvio(h, pc[h], loc[h])
    BY DEF SerieOK, Sabe
  <2> QED
    BY <1>1, <1>2, <1>3, <2>1 DEF SabeEnvio, Completo, alias, dest
<1> QED
  BY <1>1, <1>4, <1>5, <1>6, QuietoSerie, ArmaSerie DEF Sabe

(* A profile is written through a handle that still has a name: with an    *)
(* address if it is on line, and a counter no message is beyond.           *)
LEMMA EscribePerfilSerie ==
  ASSUME IInv, SerieOK, NEW h \in Hilos, NEW a \in Alias, NEW p \in Perfil, EscribePerfil(h, a, p),
         abierto[h] = <<"perfil", a>>,
         p.status = Conectado /\ p.vivos => p.IP \in IPs,
         a \notin bajas /\ mensajes[a] # NoHay => \A i \in DOMAIN mensajes[a] : mensajes[a][i].id <= p.last_id
  PROVE  /\ FicherosSanos'
         /\ perfiles'[a] = p /\ Completo(a)'
         /\ UNCHANGED <<mensajes, pet, bajas>>
<1>1. /\ perfiles' = [perfiles EXCEPT ![a] = p]
      /\ UNCHANGED <<mensajes, pet, bajas>>
  BY DEF EscribePerfil, clientes, historia
<1>2. perfiles'[a] = p /\ \A b \in Alias : b # a => perfiles'[b] = perfiles[b]
  BY <1>1 DEF IInv, GlobalOK
<1>3. Completo(a)'
  BY <1>2, FicherosAparte DEF Completo
<1>4. IdsCrecientes'
  <2>1. ASSUME NEW b \in Alias \ bajas, mensajes[b] # NoHay, NEW i \in DOMAIN mensajes[b]
        PROVE  /\ Completo(b)' => mensajes[b][i].id <= perfiles'[b].last_id
               /\ \A j \in 1..(i-1) : mensajes[b][j].id < mensajes[b][i].id
    BY <1>2, <2>1 DEF SerieOK, FicherosSanos, IdsCrecientes, Completo
  <2> QED
    BY <1>1, <2>1 DEF IdsCrecientes
<1>5. SinPerfilSinMensajes'
  BY <1>1, <1>2, <1>3 DEF SerieOK, FicherosSanos, SinPerfilSinMensajes, ConPendientes, Completo
<1>6. EnLineaConIP'
  BY <1>2 DEF SerieOK, FicherosSanos, EnLineaConIP, EnLinea, Completo
<1> QED
  BY <1>1, <1>2, <1>3, <1>4, <1>5, <1>6 DEF FicherosSanos

(* A mailbox is created, emptied, removed or written.                      *)
LEMMA BuzonSerie ==
  ASSUME IInv, SerieOK, NEW a \in Alias, NEW b, mensajes' = [mensajes EXCEPT ![a] = b],
         UNCHANGED <<perfiles, bajas>>,
         a \notin bajas /\ b # NoHay => \A i \in DOMAIN b : /\ Completo(a) => b[i].id <= perfiles[a].last_id
                                                            /\ \A j \in 1..(i-1) : b[j].id < b[i].id,
         a \notin bajas /\ ~Completo(a) => b \in {NoHay, <<>>}
  PROVE  FicherosSanos' /\ mensajes'[a] = b
<1>1. mensajes'[a] = b /\ \A c \in Alias : c # a => mensajes'[c] = mensajes[c]
  BY DEF IInv, GlobalOK
<1>2. IdsCrecientes'
  BY <1>1 DEF SerieOK, FicherosSanos, IdsCrecientes, Completo
<1>3. SinPerfilSinMensajes'
  BY <1>1 DEF SerieOK, FicherosSanos, SinPerfilSinMensajes, ConPendientes, Completo
<1>4. EnLineaConIP'
  BY DEF SerieOK, FicherosSanos, EnLineaConIP, EnLinea, Completo
<1> QED
  BY <1>1, <1>2, <1>3, <1>4 DEF FicherosSanos

LEMMA DominioVacio == DOMAIN << >> = {}
OBVIOUS

-----------------------------------------------------------------------------
(* The operations, one by one.                                             *)

LEMMA RegisterSerie ==
  ASSUME UnHilo, IInv, SerieOK, NEW h \in Hilos, register_gestiones(h)
  PROVE  SerieOK'
<1>1. /\ pc[h] \in PcRegister /\ pc[h] # "libre" /\ alias(h) \in Alias /\ loc[h] \in Local
      /\ pet[h].op = "REGISTER" /\ Sabe(h, pc[h], loc[h])
  BY TienePeticion DEF register_gestiones, RegAccess, RegPerfil, RegMensajes, RegSoloMensajes, RegEscribir, En,
                       PcRegister, IInv, HilosOK, Encaja, SerieOK
<1>2. loc[h].id = 0 /\ Destino(h) = alias(h)
  BY <1>1 DEF Sabe, SabeEnvio, Destino
<1>3. ASSUME NEW r \in {1, 2}, Devuelve(h, r, "responder") PROVE SerieOK'
  BY <1>1, <1>3, DevuelveSerie
<1>4. CASE RegAccess(h)
  <2>1. CASE perfiles[alias(h)] = NoHay /\ Sigue(h, "reg_perfil")
    <3>1. Sabe(h, "reg_perfil", loc[h])
      BY <1>1, <1>2, <2>1 DEF Sabe, SabeAlta, SabePerfil, SabeEnvio, SabeIP, SabeRespuesta
    <3> QED
      BY <2>1, <3>1, VaSerie DEF Sigue
  <2> QED
    BY <1>3, <1>4, <2>1 DEF RegAccess
<1>5. CASE RegPerfil(h)
  <2>1. CASE Sigue(h, "reg_solo_mensajes")
    BY <1>1, <2>1, DevuelveSerie DEF PcLigero
  <2>2. CASE CreaPerfil(h, "reg_mensajes")
    <3>1. /\ perfiles' = [perfiles EXCEPT ![alias(h)] = Vacio] /\ perfiles[alias(h)] = NoHay
          /\ UNCHANGED <<mensajes, pet, bajas>>
      BY <1>1, <1>5, <2>2 DEF CreaPerfil, RegPerfil, En, Sabe, SabeAlta, clientes, historia
    <3>2. perfiles'[alias(h)] = Vacio /\ \A b \in Alias : Completo(b)' <=> Completo(b)
      BY <1>1, <3>1 DEF Completo, IInv, GlobalOK
    <3>3. pc'[h] = "reg_mensajes" /\ loc'[h] = loc[h] /\ abierto'[h] = <<"perfil", alias(h)>>
      BY <2>2 DEF CreaPerfil, Mueve, IInv, HilosOK, GlobalOK
    <3>4. \A b \in Alias : Completo(b) => perfiles'[b] = perfiles[b]
      BY <1>1, <3>1 DEF Completo, IInv, GlobalOK
    <3>5. FicherosSanos'
      BY <3>1, <3>2, <3>4 DEF SerieOK, FicherosSanos, IdsCrecientes, SinPerfilSinMensajes, ConPendientes,
                             EnLineaConIP, EnLinea
    <3>6. Sabe(h, pc[h], loc[h])'
      BY <1>1, <1>2, <3>1, <3>2, <3>3
      DEF Sabe, SabeAlta, SabePerfil, SabeEnvio, SabeIP, SabeRespuesta, alias
    <3> QED
      BY <3>5, <3>6, ArmaSerie
  <2> QED
    BY <1>5, <2>1, <2>2 DEF RegPerfil
<1>6. ASSUME NEW sig \in {"reg_escribir", "responder"}, NEW bien \in {0, 2}, CreaMensajes(h, sig, bien, 2),
             \/ sig = "reg_escribir" /\ pc[h] = "reg_mensajes"
             \/ sig = "responder" /\ bien = 2
      PROVE  SerieOK'
  <2>1. CASE Devuelve(h, 2, sig)
    <3>1. CASE sig = "reg_escribir"
      <4> DEFINE l == [loc[h] EXCEPT !.res = 2]
      <4>1. l.id = loc[h].id /\ l.res = 2
        BY <1>1 DEF Local
      <4> HIDE DEF l
      <4>2. Sabe(h, "reg_escribir", l)
        BY <1>1, <1>2, <1>6, <3>1, <4>1 DEF Sabe, SabeAlta, SabePerfil, SabeEnvio, SabeIP, SabeRespuesta
      <4> QED
        BY <2>1, <3>1, <4>2, VaSerie DEF Devuelve, l
    <3> QED
      BY <1>3, <2>1, <3>1
  <2>2. CASE ~Devuelve(h, 2, sig)
    <3> DEFINE l == [loc[h] EXCEPT !.res = bien]
    <3>1. /\ mensajes' = [mensajes EXCEPT ![alias(h)] = <<>>] /\ Mueve(h, sig, l)
          /\ UNCHANGED <<perfiles, abierto, pet, bajas>>
      BY <1>6, <2>2 DEF CreaMensajes, clientes, historia
    <3>2. FicherosSanos' /\ mensajes'[alias(h)] = <<>>
      BY <1>1, <3>1, DominioVacio, BuzonSerie
    <3>3. l.id = 0 /\ l.res = bien
      BY <1>1, <1>2 DEF Local
    <3> HIDE DEF l
    <3>4. pc'[h] = sig /\ loc'[h] = l /\ <<>> # NoHay
      BY <3>1, FicherosAparte, EmptySeq DEF Mueve, IInv, HilosOK
    <3>5. Sabe(h, pc[h], loc[h])'
      BY <1>1, <1>6, <3>1, <3>2, <3>3, <3>4
      DEF Sabe, SabeAlta, SabePerfil, SabeEnvio, SabeIP, SabeRespuesta, alias
    <3> QED
      BY <3>2, <3>5, ArmaSerie
  <2> QED
    BY <2>1, <2>2
<1>7. CASE RegEscribir(h)
  <2>1. /\ EscribePerfil(h, alias(h), PerfilNuevo) /\ Mueve(h, "responder", loc[h])
        /\ perfiles[alias(h)] = Vacio /\ abierto[h] = <<"perfil", alias(h)>>
        /\ loc[h].res = 0 => mensajes[alias(h)] # NoHay
    BY <1>1, <1>7 DEF RegEscribir, En, Sabe, SabeAlta
  <2>2. alias(h) \notin bajas /\ mensajes[alias(h)] # NoHay => mensajes[alias(h)] = <<>>
    BY <1>1, <2>1 DEF SerieOK, FicherosSanos, SinPerfilSinMensajes, ConPendientes, Completo
  <2>3. PerfilNuevo.status # Conectado
    BY DEF PerfilNuevo, Conectado, Desconectado
  <2>4. /\ FicherosSanos' /\ perfiles'[alias(h)] = PerfilNuevo
        /\ UNCHANGED <<mensajes, pet, bajas>>
    BY <1>1, <2>1, <2>2, <2>3, DominioVacio, PerfilNuevoEsPerfil, EscribePerfilSerie
  <2>5. pc'[h] = "responder" /\ loc'[h] = loc[h]
    BY <2>1 DEF Mueve, IInv, HilosOK
  <2>6. Sabe(h, pc[h], loc[h])'
    BY <1>1, <1>2, <2>1, <2>4, <2>5, PerfilNuevoEsPerfil, FicherosAparte
    DEF Sabe, SabeAlta, SabePerfil, SabeEnvio, SabeIP, SabeRespuesta, Cierto, alias, Completo
  <2> QED
    BY <2>4, <2>6, ArmaSerie
<1> QED
  BY <1>4, <1>5, <1>6, <1>7 DEF register_gestiones, RegMensajes, RegSoloMensajes, En

LEMMA UnregisterSerie ==
  ASSUME UnHilo, IInv, SerieOK, NEW h \in Hilos, unregister_gestiones(h)
  PROVE  SerieOK'
<1>1. /\ pc[h] \in PcUnregister /\ pc[h] # "libre" /\ alias(h) \in Alias /\ loc[h] \in Local
      /\ pet[h].op = "UNREGISTER" /\ Sabe(h, pc[h], loc[h])
  BY TienePeticion DEF unregister_gestiones, BajaAccessPerfil, BajaAccessMensajes, Access, BajaPerfil, BajaMensajes,
                       En, PcUnregister, IInv, HilosOK, Encaja, SerieOK
<1>2. loc[h].id = 0
  BY <1>1 DEF Sabe, SabeEnvio
<1>3. ASSUME NEW r \in {1, 2}, Devuelve(h, r, "responder") PROVE SerieOK'
  BY <1>1, <1>3, DevuelveSerie
<1>4. CASE BajaAccessPerfil(h) \/ BajaAccessMensajes(h)
  BY <1>1, <1>3, <1>4, DevuelveSerie DEF BajaAccessPerfil, BajaAccessMensajes, Access, PcLigero
<1>5. CASE BajaPerfil(h) /\ ~Devuelve(h, 2, "responder")
  <2>1. /\ perfiles' = [perfiles EXCEPT ![alias(h)] = NoHay] /\ bajas' = bajas \cup {alias(h)}
        /\ Mueve(h, "baja_mensajes", loc[h])
        /\ UNCHANGED <<mensajes, pet>>
    BY <1>5 DEF BajaPerfil, clientes
  <2>2. pc'[h] = "baja_mensajes" /\ loc'[h] = loc[h]
    BY <2>1 DEF Mueve, IInv, HilosOK
  <2>3. perfiles'[alias(h)] = NoHay /\ \A b \in Alias : b # alias(h) => perfiles'[b] = perfiles[b]
    BY <1>1, <2>1 DEF IInv, GlobalOK
  <2>4. FicherosSanos'
    BY <2>1, <2>3 DEF SerieOK, FicherosSanos, IdsCrecientes, SinPerfilSinMensajes, ConPendientes, Completo,
                      EnLineaConIP, EnLinea
  <2>5. Sabe(h, pc[h], loc[h])'
    BY <1>1, <1>2, <2>1, <2>2, <2>3
    DEF Sabe, SabeAlta, SabePerfil, SabeEnvio, SabeIP, SabeRespuesta, alias
  <2> QED
    BY <2>4, <2>5, ArmaSerie
<1>6. CASE BajaMensajes(h) /\ ~Devuelve(h, 2, "responder")
  <2> DEFINE l == [loc[h] EXCEPT !.res = 0]
  <2>1. /\ mensajes' = [mensajes EXCEPT ![alias(h)] = NoHay] /\ Mueve(h, "responder", l)
        /\ UNCHANGED <<perfiles, pet, bajas>>
    BY <1>6 DEF BajaMensajes, clientes, historia
  <2>2. FicherosSanos' /\ mensajes'[alias(h)] = NoHay
    BY <1>1, <2>1, BuzonSerie
  <2>3. l.id = 0
    BY <1>1, <1>2 DEF Local
  <2> HIDE DEF l
  <2>4. pc'[h] = "responder" /\ loc'[h] = l /\ perfiles[alias(h)] = NoHay
    BY <1>1, <1>6, <2>1 DEF Mueve, IInv, HilosOK, BajaMensajes, En, Sabe, SabeAlta
  <2>5. Sabe(h, pc[h], loc[h])'
    BY <1>1, <2>1, <2>2, <2>3, <2>4
    DEF Sabe, SabeAlta, SabePerfil, SabeEnvio, SabeIP, SabeRespuesta, Cierto, alias
  <2> QED
    BY <2>2, <2>5, ArmaSerie
<1> QED
  BY <1>3, <1>4, <1>5, <1>6 DEF unregister_gestiones

(* What is read of a profile that may be written back: an address, if it   *)
(* says that the user is on line, and a counter no message is beyond.      *)
LEMMA LecturasSanas ==
  ASSUME SerieOK, BasuraConIP, NEW a \in Alias, NEW reg \in Lecturas(a)
  PROVE  /\ reg.status = Conectado /\ reg.vivos => reg.IP \in IPs
         /\ a \notin bajas /\ mensajes[a] # NoHay => \A i \in DOMAIN mensajes[a] : mensajes[a][i].id <= reg.last_id
<1>1. CASE perfiles[a] = Vacio
  <2>1. a \notin bajas /\ mensajes[a] # NoHay => mensajes[a] = <<>>
    BY <1>1 DEF SerieOK, FicherosSanos, SinPerfilSinMensajes, ConPendientes, Completo
  <2> QED
    BY <1>1, <2>1, DominioVacio DEF Lecturas, BasuraConIP
<1>2. CASE Completo(a)
  <2>1. reg = perfiles[a]
    BY <1>2 DEF Lecturas, Completo
  <2> QED
    BY <1>2, <2>1 DEF SerieOK, FicherosSanos, IdsCrecientes, EnLineaConIP, EnLinea
<1> QED
  BY <1>1, <1>2 DEF Lecturas, Completo

LEMMA ConnectSerie ==
  ASSUME UnHilo, BasuraConIP, IInv, SerieOK, NEW h \in Hilos, connect_gestiones(h)
  PROVE  SerieOK'
<1>1. /\ pc[h] \in PcConnect /\ pc[h] # "libre" /\ alias(h) \in Alias /\ loc[h] \in Local
      /\ pet[h].op = "CONNECT" /\ Sabe(h, pc[h], loc[h])
  BY TienePeticion DEF connect_gestiones, ConNtop, TomaDireccion, ConAccess, ConLeer, ConEscribir, EscribeConexion,
                       Access, En, PcConnect, IInv, HilosOK, Encaja, SerieOK
<1>2. loc[h].id = 0 /\ Destino(h) = alias(h)
  BY <1>1 DEF Sabe, SabeEnvio, Destino
<1>3. ASSUME NEW r, Devuelve(h, r, "is_connected") PROVE SerieOK'
  BY <1>1, <1>3, DevuelveSerie DEF PcLigero
<1>4. ASSUME NEW sig \in {"con_access", "con_leer"}, NEW l, Va(h, sig, l), l.IP \in IPs, l.id = 0
      PROVE  SerieOK'
  <2>1. Sabe(h, sig, l)
    BY <1>1, <1>4 DEF Sabe, SabeAlta, SabePerfil, SabeEnvio, SabeIP, SabeRespuesta
  <2> QED
    BY <1>4, <2>1, VaSerie
<1>5. CASE ConNtop(h)
  <2> DEFINE l == [loc[h] EXCEPT !.IP = address_thread, !.port = pet[h].port]
  <2>1. l.IP \in IPs /\ l.id = 0 /\ Va(h, "con_access", l)
    BY <1>1, <1>2, <1>5 DEF ConNtop, TomaDireccion, Local, IInv, GlobalOK
  <2> HIDE DEF l
  <2> QED
    BY <1>4, <2>1
<1>6. CASE ConAccess(h)
  <2>1. loc[h].IP \in IPs
    BY <1>1, <1>6 DEF ConAccess, Access, En, Sabe, SabePerfil
  <2> QED
    BY <1>2, <1>3, <1>4, <1>6, <2>1 DEF ConAccess, Access, Sigue
<1>7. CASE ConLeer(h)
  <2>1. loc[h].IP \in IPs
    BY <1>1, <1>7 DEF ConLeer, En, Sabe, SabePerfil
  <2>2. ASSUME NEW reg \in Lecturas(alias(h)), AbrePerfil(h, alias(h), "con_escribir", reg) PROVE SerieOK'
    BY <1>1, <1>2, <2>1, <2>2, AbrePerfilSerie
  <2> QED
    BY <1>3, <1>7, <2>2 DEF ConLeer
<1>8. CASE ConEscribir(h)
  <2> DEFINE p == [status |-> Conectado, IP |-> loc[h].IP, port |-> loc[h].port,
                   last_id |-> loc[h].reg.last_id, vivos |-> TRUE]
             l == [loc[h] EXCEPT !.res = 0]
  <2>1. /\ EscribePerfil(h, alias(h), p) /\ Mueve(h, "is_connected", l)
        /\ abierto[h] = <<"perfil", alias(h)>> /\ loc[h].reg \in Lecturas(alias(h)) /\ loc[h].IP \in IPs
    BY <1>1, <1>2, <1>8 DEF ConEscribir, EscribeConexion, En, Sabe, SabePerfil
  <2>2. p \in Perfil /\ p.last_id = loc[h].reg.last_id /\ p.IP \in IPs
    BY <1>1, <2>1, LocalCampos DEF Perfil
  <2>3. l.id = 0
    BY <1>1, <1>2 DEF Local
  <2> HIDE DEF p, l
  <2>4. FicherosSanos' /\ UNCHANGED <<mensajes, pet, bajas>>
    BY <1>1, <2>1, <2>2, LecturasSanas, EscribePerfilSerie
  <2>5. pc'[h] = "is_connected" /\ loc'[h] = l
    BY <2>1 DEF Mueve, IInv, HilosOK
  <2>6. Sabe(h, pc[h], loc[h])'
    BY <1>1, <2>3, <2>4, <2>5 DEF Sabe, SabeAlta, SabePerfil, SabeEnvio, SabeIP, SabeRespuesta
  <2> QED
    BY <2>4, <2>6, ArmaSerie
<1> QED
  BY <1>5, <1>6, <1>7, <1>8 DEF connect_gestiones

LEMMA DisconnectSerie ==
  ASSUME UnHilo, BasuraConIP, IInv, SerieOK, NEW h \in Hilos, disconnect_gestiones(h)
  PROVE  SerieOK'
<1>1. /\ pc[h] \in PcDisconnect /\ pc[h] # "libre" /\ alias(h) \in Alias /\ loc[h] \in Local
      /\ pet[h].op = "DISCONNECT" /\ Sabe(h, pc[h], loc[h])
  BY TienePeticion DEF disconnect_gestiones, DesAccess, DesLeer, DesEscribir, Access, En, PcDisconnect, IInv, HilosOK,
                       Encaja, SerieOK
<1>2. loc[h].id = 0 /\ Destino(h) = alias(h)
  BY <1>1 DEF Sabe, SabeEnvio, Destino
<1>3. ASSUME NEW r \in {1, 2, 3}, Devuelve(h, r, "responder") PROVE SerieOK'
  BY <1>1, <1>3, DevuelveSerie
<1>4. CASE DesAccess(h)
  BY <1>1, <1>3, <1>4, DevuelveSerie DEF DesAccess, Access, PcLigero
<1>5. CASE DesLeer(h)
  <2>1. ASSUME NEW reg \in Lecturas(alias(h)), AbrePerfil(h, alias(h), "des_escribir", reg) PROVE SerieOK'
    BY <1>1, <1>2, <2>1, AbrePerfilSerie
  <2> QED
    BY <1>3, <1>5, <2>1 DEF DesLeer
<1>6. CASE DesEscribir(h)
  <2> DEFINE p == [PerfilNuevo EXCEPT !.last_id = loc[h].reg.last_id]
             l == [loc[h] EXCEPT !.res = 0]
  <2>1. /\ EscribePerfil(h, alias(h), p) /\ Mueve(h, "responder", l)
        /\ abierto[h] = <<"perfil", alias(h)>> /\ loc[h].reg \in Lecturas(alias(h))
    BY <1>1, <1>2, <1>6 DEF DesEscribir, En, Sabe, SabePerfil
  <2>2. p \in Perfil /\ p.last_id = loc[h].reg.last_id /\ p.status # Conectado
    BY <1>1, LocalCampos DEF Perfil, PerfilNuevo, Conectado, Desconectado
  <2>3. l.id = 0
    BY <1>1, <1>2 DEF Local
  <2> HIDE DEF p, l
  <2>4. /\ FicherosSanos' /\ perfiles'[alias(h)] = p
        /\ UNCHANGED <<mensajes, pet, bajas>>
    BY <1>1, <2>1, <2>2, LecturasSanas, EscribePerfilSerie
  <2>5. pc'[h] = "responder" /\ loc'[h] = l
    BY <2>1 DEF Mueve, IInv, HilosOK
  <2>6. Sabe(h, pc[h], loc[h])'
    BY <1>1, <2>2, <2>3, <2>4, <2>5, FicherosAparte
    DEF Sabe, SabeAlta, SabePerfil, SabeEnvio, SabeIP, SabeRespuesta, Cierto, Completo, EnLinea, alias
  <2> QED
    BY <2>4, <2>6, ArmaSerie
<1> QED
  BY <1>4, <1>5, <1>6 DEF disconnect_gestiones

LEMMA IdsEnteros ==
  ASSUME GlobalOK, NEW a \in Alias, mensajes[a] # NoHay
  PROVE  \A i \in DOMAIN mensajes[a] : mensajes[a][i].id \in Int
<1>1. \A i \in DOMAIN mensajes[a] : mensajes[a][i] \in Mensaje
  BY BuzonEsSecuencia, ElementOfSeq, LenProperties
<1> QED
  BY <1>1 DEF Mensaje

(* A record written at the end is appended.                                *)
LEMMA EscribirAlFinal ==
  ASSUME NEW b \in Seq(Mensaje), NEW m \in Mensaje
  PROVE  LET c == EscribirEn(b, Len(b) + 1, m)
         IN  /\ DOMAIN c = 1..(Len(b) + 1) /\ c[Len(b) + 1] = m
             /\ \A i \in 1..Len(b) : c[i] = b[i]
<1>1. Len(b) \in Nat
  BY LenProperties
<1> QED
  BY <1>1 DEF EscribirEn

LEMMA SendSerie ==
  ASSUME UnHilo, BasuraConIP, IInv, SerieOK, NEW h \in Hilos, send_to_server_gestiones(h)
  PROVE  SerieOK'
<1>1. /\ pc[h] \in PcSend /\ pc[h] # "libre" /\ dest(h) \in Alias /\ alias(h) \in Alias /\ loc[h] \in Local
      /\ pet[h].op = "SEND" /\ Sabe(h, pc[h], loc[h])
  BY TienePeticion DEF send_to_server_gestiones, EnvRemitente, EnvMensajes, EnvPerfil, EnvLeer, EnvEscribir,
                       EscribeContador, EnvAbrir, EnvAnexar, Access, En, PcSend, IInv, HilosOK, Encaja, SerieOK
<1>2. Destino(h) = dest(h) /\ SabeEnvio(h, pc[h], loc[h])
  BY <1>1 DEF Sabe, Destino
<1>3. ASSUME NEW r, Devuelve(h, r, "is_connected") PROVE SerieOK'
  BY <1>1, <1>3, DevuelveSerie DEF PcLigero
<1>4. CASE EnvRemitente(h) \/ EnvMensajes(h) \/ EnvPerfil(h)
  BY <1>1, <1>3, <1>4, DevuelveSerie DEF EnvRemitente, EnvMensajes, EnvPerfil, Access, PcLigero
<1>5. CASE EnvLeer(h)
  <2>1. ASSUME NEW reg \in Lecturas(dest(h)), AbrePerfil(h, dest(h), "env_escribir", reg) PROVE SerieOK'
    BY <1>1, <1>2, <2>1, AbrePerfilSerie
  <2> QED
    BY <1>3, <1>5, <2>1 DEF EnvLeer
<1>6. CASE EnvEscribir(h)
  <2> DEFINE reg == loc[h].reg
             p == [reg EXCEPT !.last_id = reg.last_id + 1]
             l == [loc[h] EXCEPT !.id = reg.last_id + 1]
  <2>1. /\ EscribePerfil(h, dest(h), p) /\ Mueve(h, "env_abrir", l)
        /\ abierto[h] = <<"perfil", dest(h)>> /\ reg \in Lecturas(dest(h))
    BY <1>1, <1>2, <1>6 DEF EnvEscribir, EscribeContador, En, Sabe, SabePerfil
  <2>2. reg \in Perfil /\ reg.last_id \in Int
    BY <1>1, LocalCampos
  <2>3. /\ p \in Perfil /\ p.last_id = reg.last_id + 1 /\ p.status = reg.status /\ p.vivos = reg.vivos
        /\ p.IP = reg.IP
    BY <2>2 DEF Perfil
  <2>4. l.id = reg.last_id + 1
    BY <1>1 DEF Local
  <2>5. mensajes[dest(h)] # NoHay => \A i \in DOMAIN mensajes[dest(h)] : mensajes[dest(h)][i].id \in Int
    BY <1>1, IdsEnteros DEF IInv
  <2>6. dest(h) \notin bajas /\ mensajes[dest(h)] # NoHay =>
          \A i \in DOMAIN mensajes[dest(h)] : mensajes[dest(h)][i].id <= reg.last_id
    BY <1>1, <2>1, LecturasSanas
  <2>7. reg.status = Conectado /\ reg.vivos => reg.IP \in IPs
    BY <1>1, <2>1, LecturasSanas
  <2> HIDE DEF p, l
  <2>8. /\ FicherosSanos' /\ perfiles'[dest(h)] = p
        /\ UNCHANGED <<mensajes, pet, bajas>>
    <3> HIDE DEF reg
    <3>1. dest(h) \notin bajas /\ mensajes[dest(h)] # NoHay =>
            \A i \in DOMAIN mensajes[dest(h)] : mensajes[dest(h)][i].id <= p.last_id
      BY <2>2, <2>3, <2>5, <2>6
    <3> QED
      BY <1>1, <2>1, <2>3, <2>7, <3>1, EscribePerfilSerie
  <2>9. pc'[h] = "env_abrir" /\ loc'[h] = l
    BY <2>1 DEF Mueve, IInv, HilosOK
  <2>10. SabeEnvio(h, pc[h], loc[h])'
    <3> HIDE DEF reg
    <3>1. dest(h) \notin bajas /\ mensajes[dest(h)] # NoHay =>
            \A i \in DOMAIN mensajes[dest(h)] : mensajes[dest(h)][i].id < l.id
      BY <2>2, <2>4, <2>5, <2>6
    <3> QED
      BY <1>1, <1>2, <2>3, <2>4, <2>8, <2>9, <3>1, FicherosAparte DEF SabeEnvio, Completo, alias, dest
  <2>11. Sabe(h, pc[h], loc[h])'
    BY <2>9, <2>10 DEF Sabe, SabeAlta, SabePerfil, SabeIP, SabeRespuesta
  <2> QED
    BY <2>8, <2>11, ArmaSerie
<1>7. CASE EnvAbrir(h) /\ ~Devuelve(h, 2, "is_connected")
  <2> DEFINE l == [loc[h] EXCEPT !.pos = Len(mensajes[dest(h)]) + 1]
  <2>1. /\ Mueve(h, "env_anexar", l) /\ abierto' = [abierto EXCEPT ![h] = <<"mensajes", dest(h)>>]
        /\ UNCHANGED <<perfiles, mensajes, pet, bajas>>
    BY <1>7 DEF EnvAbrir, disco, clientes, historia
  <2>2. l.id = loc[h].id /\ l.pos = Len(mensajes[dest(h)]) + 1 /\ pc[h] = "env_abrir"
    BY <1>1, <1>7 DEF Local, EnvAbrir, En
  <2> HIDE DEF l
  <2>3. pc'[h] = "env_anexar" /\ loc'[h] = l /\ abierto'[h] = <<"mensajes", dest(h)>>
    BY <2>1 DEF Mueve, IInv, HilosOK, GlobalOK
  <2>4. SabeEnvio(h, pc[h], loc[h])'
    BY <1>2, <2>1, <2>2, <2>3 DEF SabeEnvio, Completo, alias, dest
  <2>5. Sabe(h, pc[h], loc[h])'
    BY <2>3, <2>4 DEF Sabe, SabeAlta, SabePerfil, SabeIP, SabeRespuesta
  <2> QED
    BY <2>1, <2>5, QuietoSerie, ArmaSerie
<1>8. CASE EnvAnexar(h)
  <2> DEFINE l == [loc[h] EXCEPT !.res = 0]
             m == [id |-> loc[h].id, remitente |-> alias(h), mensaje |-> loc[h].uid]
             a == dest(h)
             b == mensajes[a]
             c == EscribirEn(b, Len(b) + 1, m)
  <2>1. /\ pc[h] = "env_anexar" /\ abierto[h] = <<"mensajes", a>> /\ loc[h].pos = Len(b) + 1
        /\ Completo(a) /\ perfiles[a].last_id = loc[h].id
        /\ a \notin bajas /\ b # NoHay => \A i \in DOMAIN b : b[i].id < loc[h].id
    BY <1>2, <1>8 DEF EnvAnexar, En, SabeEnvio
  <2>2. /\ mensajes' = [mensajes EXCEPT ![a] = c] /\ Mueve(h, "is_connected", l)
        /\ UNCHANGED <<perfiles, pet, bajas>>
    BY <1>8, <2>1 DEF EnvAnexar, clientes, historia
  <2>3. b # NoHay /\ b \in Seq(Mensaje) /\ Len(b) \in Nat /\ DOMAIN b = 1..Len(b) /\ m \in Mensaje
    BY <1>1, <2>1, BuzonEsSecuencia, LenProperties, LocalCampos DEF IInv, GlobalOK, Mensaje
  <2>4. \A i \in 1..Len(b) : b[i].id \in Int
    BY <1>1, <2>3, IdsEnteros DEF IInv
  <2>5. m.id = loc[h].id /\ loc[h].id \in Int
    BY <1>1, LocalCampos
  <2>6. l.id = loc[h].id
    BY <1>1 DEF Local
  <2> HIDE DEF l, m, c
  <2>7. DOMAIN c = 1..(Len(b) + 1) /\ c[Len(b) + 1] = m /\ \A i \in 1..Len(b) : c[i] = b[i]
    BY <2>3, EscribirAlFinal DEF c
  <2>8. a \notin bajas => \A i \in DOMAIN b : \A j \in 1..(i-1) : b[j].id < b[i].id
    BY <1>1, <2>3 DEF SerieOK, FicherosSanos, IdsCrecientes
  <2> HIDE DEF a, b
  <2>9. a \notin bajas => \A i \in DOMAIN c : /\ c[i].id <= loc[h].id
                                              /\ \A j \in 1..(i-1) : c[j].id < c[i].id
    <3> SUFFICES ASSUME a \notin bajas, NEW i \in 1..(Len(b) + 1)
                 PROVE  c[i].id <= loc[h].id /\ \A j \in 1..(i-1) : c[j].id < c[i].id
      BY <2>7
    <3>1. CASE i \in 1..Len(b)
      <4>1. c[i] = b[i] /\ \A j \in 1..(i-1) : j \in 1..Len(b) /\ c[j] = b[j]
        BY <2>3, <2>7, <3>1
      <4>2. b[i].id < loc[h].id /\ b[i].id \in Int
        BY <2>1, <2>3, <2>4, <3>1
      <4>3. \A j \in 1..(i-1) : b[j].id < b[i].id
        BY <2>3, <2>8, <3>1
      <4> QED
        BY <2>5, <4>1, <4>2, <4>3
    <3>2. CASE i = Len(b) + 1
      <4>1. c[i].id = loc[h].id /\ \A j \in 1..(i-1) : j \in 1..Len(b) /\ c[j] = b[j]
        BY <2>3, <2>5, <2>7, <3>2
      <4> QED
        BY <2>1, <2>3, <2>5, <4>1
    <3> QED
      BY <2>3, <3>1, <3>2
  <2>10. FicherosSanos'
    BY <1>1, <2>1, <2>2, <2>9, BuzonSerie DEF a
  <2>11. pc'[h] = "is_connected" /\ loc'[h] = l
    BY <2>2 DEF Mueve, IInv, HilosOK
  <2>12. SabeEnvio(h, pc[h], loc[h])'
    BY <1>2, <2>2, <2>6, <2>11 DEF SabeEnvio, Completo, alias, dest
  <2>13. Sabe(h, pc[h], loc[h])'
    BY <2>11, <2>12 DEF Sabe, SabeAlta, SabePerfil, SabeIP, SabeRespuesta
  <2> QED
    BY <2>10, <2>13, ArmaSerie
<1> QED
  BY <1>3, <1>4, <1>5, <1>6, <1>7, <1>8 DEF send_to_server_gestiones, EnvAbrir

-----------------------------------------------------------------------------
(* The deliveries.                                                         *)

(* The null address is_connected may hand out is that of a profile of      *)
(* another process, or of one not written yet.                             *)
LEMMA IPAjena ==
  ASSUME IInv, SerieOK, NEW a \in Alias, NEW reg \in Lecturas(a), reg.status = Conectado, IPde(reg) = SinIP
  PROVE  PerfilAjeno(a)
<1>1. CASE perfiles[a] = Vacio
  BY <1>1 DEF PerfilAjeno
<1>2. CASE Completo(a)
  <2>1. reg = perfiles[a] /\ (reg.vivos => reg.IP \in IPs)
    BY <1>2 DEF Lecturas, Completo, SerieOK, FicherosSanos, EnLineaConIP, EnLinea
  <2> QED
    BY <1>2, <2>1, CentinelasAparte DEF IPde, PerfilAjeno
<1> QED
  BY <1>1, <1>2 DEF Lecturas, Completo

(* The steps from the lookup of the receiver to the last delivery.         *)
PcReparto == {"num", "contar", "ids", "remitentes", "mensajes", "vaciar", "resolver", "conectar", "entregar"}

LEMMA SabeReparto ==
  ASSUME SerieOK, NEW h \in Hilos, pc[h] \in PcReparto, NEW sig \in PcReparto, NEW l,
         l.id = loc[h].id, l.IP = loc[h].IP
  PROVE  Sabe(h, sig, l)
<1>1. SabeEnvio(h, pc[h], loc[h]) /\ SabeIP(h, pc[h], loc[h])
  BY DEF SerieOK, Sabe, PcReparto
<1>2. SabeEnvio(h, sig, l) /\ SabeIP(h, sig, l)
  BY <1>1 DEF SabeEnvio, SabeIP, PcReparto
<1>3. SabeAlta(h, sig, l) /\ SabePerfil(h, sig, l) /\ SabeRespuesta(h, sig, l)
  BY DEF SabeAlta, SabePerfil, SabeRespuesta, PcReparto
<1> QED
  BY <1>2, <1>3 DEF Sabe

LEMMA IsConnectedSerie ==
  ASSUME UnHilo, IInv, SerieOK, NEW h \in Hilos, IsConnected(h)
  PROVE  SerieOK'
<1>1. /\ pc[h] = "is_connected" /\ pc[h] # "libre" /\ Destino(h) \in Alias /\ loc[h] \in Local
      /\ pet[h].op \in {"CONNECT", "SEND"} /\ Sabe(h, pc[h], loc[h])
  BY TienePeticion DEF IsConnected, En, PcEntrega, IInv, HilosOK, Encaja, SerieOK
<1>2. CASE Sigue(h, "responder") \/ \E causa : Cae(causa)
  BY <1>1, <1>2, DevuelveSerie, CaeSerie
<1>3. ASSUME NEW reg \in Lecturas(Destino(h)), reg.status = Conectado,
             Va(h, "num", [loc[h] EXCEPT !.IP = IPde(reg), !.port = reg.port, !.res = loc[h].res])
      PROVE  SerieOK'
  <2> DEFINE l == [loc[h] EXCEPT !.IP = IPde(reg), !.port = reg.port, !.res = loc[h].res]
  <2>1. l.id = loc[h].id /\ l.IP = IPde(reg)
    BY <1>1 DEF Local
  <2> HIDE DEF l
  <2>2. SabeEnvio(h, "num", l)
    BY <1>1, <2>1 DEF Sabe, SabeEnvio
  <2>3. SabeIP(h, "num", l)
    BY <1>1, <1>3, <2>1, IPAjena DEF SabeIP
  <2>4. Sabe(h, "num", l)
    BY <2>2, <2>3 DEF Sabe, SabeAlta, SabePerfil, SabeRespuesta
  <2> QED
    BY <1>3, <2>4, VaSerie DEF l
<1> QED
  BY <1>2, <1>3 DEF IsConnected, is_connected

LEMMA PasadaSerie ==
  ASSUME UnHilo, IInv, SerieOK, NEW h \in Hilos, ExtraerIDs(h) \/ ExtraerRemitentes(h) \/ ExtraerMensajes(h)
  PROVE  SerieOK'
<1>1. pc[h] \in {"ids", "remitentes", "mensajes"} /\ pc[h] # "libre" /\ loc[h] \in Local
  BY DEF ExtraerIDs, ExtraerRemitentes, ExtraerMensajes, Lee, En, IInv, HilosOK
<1>2. CASE Cae("exit(1)")
  BY <1>2, CaeSerie
<1>3. ASSUME NEW sig \in {"remitentes", "mensajes", "vaciar"}, NEW lote, Va(h, sig, [loc[h] EXCEPT !.lote = lote])
      PROVE  SerieOK'
  <2> DEFINE l == [loc[h] EXCEPT !.lote = lote]
  <2>1. l.id = loc[h].id /\ l.IP = loc[h].IP
    BY <1>1 DEF Local
  <2> HIDE DEF l
  <2>2. Sabe(h, sig, l)
    BY <1>1, <2>1, SabeReparto DEF PcReparto
  <2> QED
    BY <1>3, <2>2, VaSerie DEF l
<1> QED
  BY <1>2, <1>3 DEF ExtraerIDs, ExtraerRemitentes, ExtraerMensajes, Lee

LEMMA BuzonLeidoSerie ==
  ASSUME UnHilo, IInv, SerieOK, NEW h \in Hilos, NumMensajesPendientes(h) \/ Contar(h) \/ VaciarMensajes(h)
  PROVE  SerieOK'
<1>1. /\ pc[h] \in {"num", "contar", "vaciar"} /\ pc[h] # "libre" /\ Destino(h) \in Alias /\ loc[h] \in Local
      /\ pet[h].op \in {"CONNECT", "SEND"} /\ Sabe(h, pc[h], loc[h])
  BY TienePeticion DEF NumMensajesPendientes, Contar, ContarComo, VaciarMensajes, Lee, En, IInv, HilosOK, Encaja,
                       PcEntrega, SerieOK
<1>2. ASSUME NEW causa, Cae(causa) PROVE SerieOK'
  BY <1>2, CaeSerie
<1>3. CASE NumMensajesPendientes(h)
  <2>1. Sabe(h, "contar", loc[h])
    BY <1>1, SabeReparto DEF PcReparto
  <2> QED
    BY <1>1, <1>2, <1>3, <2>1, DevuelveSerie, VaSerie DEF NumMensajesPendientes, NumMayorQue, Lee, Sigue
<1>4. CASE Contar(h) /\ ~Cae("exit(1)")
  <2> DEFINE k == Len(mensajes[Destino(h)])
             l == [loc[h] EXCEPT !.n = k, !.lote = [i \in 1..k |-> Hueco]]
  <2>1. Va(h, "ids", l) /\ mensajes[Destino(h)] # NoHay
    BY <1>4 DEF Contar, ContarComo, Lee
  <2>2. l.id = loc[h].id /\ l.IP = loc[h].IP /\ l.n = k
    BY <1>1 DEF Local
  <2> HIDE DEF l
  <2>3. Sabe(h, "ids", l)
    BY <1>1, <2>1, <2>2, SabeReparto DEF PcReparto
  <2> QED
    BY <2>1, <2>3, VaSerie
<1>5. CASE VaciarMensajes(h)
  <2> DEFINE l == [loc[h] EXCEPT !.n = 0]
  <2>1. CASE DejaBuzon(h, <<>>, "resolver", l)
    <3>1. /\ mensajes' = [mensajes EXCEPT ![Destino(h)] = <<>>] /\ Mueve(h, "resolver", l) /\ pc[h] = "vaciar"
          /\ UNCHANGED <<perfiles, pet, bajas>>
      BY <1>5, <2>1 DEF DejaBuzon, VaciarMensajes, En, clientes, historia
    <3>2. FicherosSanos'
      BY <1>1, <3>1, DominioVacio, BuzonSerie
    <3>3. l.id = loc[h].id /\ l.IP = loc[h].IP
      BY <1>1 DEF Local
    <3> HIDE DEF l
    <3>4. pc'[h] = "resolver" /\ loc'[h] = l
      BY <3>1 DEF Mueve, IInv, HilosOK
    <3>5. SabeEnvio(h, pc[h], loc[h])'
      BY <1>1, <3>1, <3>3, <3>4 DEF Sabe, SabeEnvio, Completo, alias, dest
    <3>6. SabeIP(h, pc[h], loc[h])'
      BY <1>1, <3>1, <3>3, <3>4 DEF Sabe, SabeIP, PerfilAjeno, Completo, Destino, alias, dest
    <3>7. Sabe(h, pc[h], loc[h])'
      BY <3>4, <3>5, <3>6 DEF Sabe, SabeAlta, SabePerfil, SabeRespuesta
    <3> QED
      BY <3>2, <3>7, ArmaSerie
  <2> QED
    BY <1>2, <1>5, <2>1 DEF VaciarMensajes
<1> QED
  BY <1>2, <1>3, <1>4, <1>5

LEMMA ResuelveSerie ==
  ASSUME UnHilo, IInv, SerieOK, NEW h \in Hilos, NEW sig, NEW l, Resuelve(h, sig, l), Sabe(h, sig, l)
  PROVE  SerieOK'
<1>1. CASE Cae("SIGSEGV")
  BY <1>1, CaeSerie
<1>2. CASE ~Cae("SIGSEGV")
  BY <1>2, SabeIgual, QuietoSerie, ArmaSerie DEF Resuelve, disco, clientes, historia
<1> QED
  BY <1>1, <1>2

LEMMA TransmiteSerie ==
  ASSUME UnHilo, IInv, SerieOK, NEW h \in Hilos, NEW t, NEW sig, NEW l, Transmite(h, t, sig, l), Sabe(h, sig, l)
  PROVE  SerieOK'
BY SabeIgual, QuietoSerie, ArmaSerie DEF Transmite, disco, historia

LEMMA EnvioSerie ==
  ASSUME UnHilo, IInv, SerieOK, NEW h \in Hilos, EnvioResolver(h) \/ EnvioConectar(h) \/ EnvioEntregar(h)
  PROVE  SerieOK'
<1>1. /\ pc[h] \in {"resolver", "conectar", "entregar"} /\ pc[h] # "libre" /\ loc[h] \in Local
      /\ pet[h].op \in {"CONNECT", "SEND"} /\ Sabe(h, pc[h], loc[h])
  BY DEF EnvioResolver, EnvioConectar, EnvioEntregar, En, IInv, HilosOK, Encaja, PcEntrega, SerieOK
<1>2. ASSUME NEW r, FinEnvio(h, r) PROVE SerieOK'
  <2>1. ASSUME NEW sig \in {"ack_is_connected", "responder"}, NEW l, l.id = loc[h].id, Va(h, sig, l)
        PROVE  SerieOK'
    <3>1. Sabe(h, sig, l)
      BY <1>1, <2>1, SabeLigero DEF PcLigero, Cierto
    <3> QED
      BY <2>1, <3>1, VaSerie
  <2>2. /\ [loc[h] EXCEPT !.lote = <<>>].id = loc[h].id
        /\ [loc[h] EXCEPT !.lote = <<>>, !.res = r].id = loc[h].id
    BY <1>1 DEF Local
  <2> QED
    BY <1>2, <2>1, <2>2 DEF FinEnvio
<1>3. CASE EnvioResolver(h)
  <2>1. Sabe(h, "conectar", loc[h])
    BY <1>1, SabeReparto DEF PcReparto
  <2> QED
    BY <1>2, <1>3, <2>1, ResuelveSerie DEF EnvioResolver
<1>4. CASE EnvioConectar(h)
  <2> DEFINE l == [loc[h] EXCEPT !.dir = <<hostent, loc[h].port>>]
  <2>1. l.id = loc[h].id /\ l.IP = loc[h].IP
    BY <1>1 DEF Local
  <2>2. (\E r : FinEnvio(h, r)) \/ Va(h, "entregar", l)
    BY <1>4 DEF EnvioConectar
  <2> HIDE DEF l
  <2>3. Sabe(h, "entregar", l)
    BY <1>1, <2>1, SabeReparto DEF PcReparto
  <2> QED
    BY <1>2, <2>2, <2>3, VaSerie
<1>5. CASE EnvioEntregar(h)
  <2> DEFINE l == [loc[h] EXCEPT !.lote = Tail(@)]
  <2>1. l.id = loc[h].id /\ l.IP = loc[h].IP
    BY <1>1 DEF Local
  <2>2. \/ \E t : Transmite(h, t, "resolver", l)
        \/ Va(h, "resolver", l) \/ FinEnvio(h, 3) \/ Cae("SIGPIPE")
    BY <1>5 DEF EnvioEntregar
  <2> HIDE DEF l
  <2>3. Sabe(h, "resolver", l)
    BY <1>1, <2>1, SabeReparto DEF PcReparto
  <2> QED
    BY <1>2, <2>2, <2>3, TransmiteSerie, VaSerie, CaeSerie
<1> QED
  BY <1>3, <1>4, <1>5

LEMMA AckSerie ==
  ASSUME UnHilo, IInv, SerieOK, NEW h \in Hilos, envio_ack(h)
  PROVE  SerieOK'
<1>1. /\ pc[h] \in PcAck /\ pc[h] # "libre" /\ alias(h) \in Alias /\ dest(h) \in Alias /\ loc[h] \in Local
      /\ pet[h].op = "SEND" /\ Sabe(h, pc[h], loc[h]) /\ Cierto(h)
  BY TienePeticion DEF envio_ack, AckIsConnected, AckResolver, AckConectar, AckIdAccess, AckIdLeer, IdAccess, IdLeer,
                       AckEnviar, En, PcAck, IInv, HilosOK, Encaja, SerieOK, Cierto
<1>2. CASE Sigue(h, "responder") \/ (\E r : Devuelve(h, r, "responder")) \/ \E causa : Cae(causa)
  BY <1>1, <1>2, DevuelveSerie, CaeSerie
<1>3. ASSUME NEW sig \in PcLigero \cup {"responder"}, NEW l, l.id = loc[h].id
      PROVE  Sabe(h, sig, l)
  BY <1>1, <1>3, SabeLigero
<1>4. CASE AckIsConnected(h)
  <2>1. ASSUME NEW reg \in Lecturas(alias(h)), reg.status = Conectado,
               Va(h, "ack_resolver", [loc[h] EXCEPT !.IP = IPde(reg), !.port = reg.port, !.res = 0])
        PROVE  SerieOK'
    <3> DEFINE l == [loc[h] EXCEPT !.IP = IPde(reg), !.port = reg.port, !.res = 0]
    <3>1. l.id = loc[h].id /\ l.IP = IPde(reg)
      BY <1>1 DEF Local
    <3> HIDE DEF l
    <3>2. SabeEnvio(h, "ack_resolver", l)
      BY <1>1, <3>1 DEF Sabe, SabeEnvio
    <3>3. SabeIP(h, "ack_resolver", l)
      BY <1>1, <2>1, <3>1, IPAjena DEF SabeIP
    <3>4. Sabe(h, "ack_resolver", l)
      BY <3>2, <3>3 DEF Sabe, SabeAlta, SabePerfil, SabeRespuesta
    <3> QED
      BY <2>1, <3>4, VaSerie DEF l
  <2> QED
    BY <1>2, <1>4, <2>1 DEF AckIsConnected, is_connected
<1>5. CASE AckResolver(h)
  <2>1. [loc[h] EXCEPT !.res = 3].id = loc[h].id
    BY <1>1 DEF Local
  <2> QED
    BY <1>3, <1>5, <2>1, ResuelveSerie DEF AckResolver, PcLigero
<1>6. CASE AckConectar(h)
  <2> DEFINE l == [loc[h] EXCEPT !.dir = <<hostent, loc[h].port>>]
  <2>1. l.id = loc[h].id
    BY <1>1 DEF Local
  <2>2. Cae("SIGPIPE") \/ Va(h, "ack_id_access", l)
    BY <1>6 DEF AckConectar
  <2> HIDE DEF l
  <2> QED
    BY <1>2, <1>3, <2>1, <2>2, VaSerie DEF PcLigero
<1>7. CASE AckIdAccess(h) \/ AckIdLeer(h)
  <2>1. \/ Va(h, "ack_id_leer", loc[h])
        \/ \E id \in Int : Va(h, "ack_enviar", [loc[h] EXCEPT !.ultimo = id])
    BY <1>1, <1>7, UltimoLeido DEF AckIdAccess, AckIdLeer, IInv
  <2>2. \A id \in Int : [loc[h] EXCEPT !.ultimo = id].id = loc[h].id
    BY <1>1 DEF Local
  <2> QED
    BY <1>3, <2>1, <2>2, VaSerie DEF PcLigero
<1>8. CASE AckEnviar(h)
  BY <1>2, <1>3, <1>8, TransmiteSerie DEF AckEnviar
<1> QED
  BY <1>4, <1>5, <1>6, <1>7, <1>8 DEF envio_ack

LEMMA FinSerie ==
  ASSUME UnHilo, IInv, SerieOK, NEW h \in Hilos,
         OpInvalida(h) \/ Responder(h) \/ UltimoIdAccess(h) \/ UltimoIdLeer(h) \/ Cerrar(h)
  PROVE  SerieOK'
<1>1. /\ pc[h] \in PcFin /\ pc[h] # "libre" /\ dest(h) \in Alias /\ loc[h] \in Local
      /\ Sabe(h, pc[h], loc[h]) /\ SabeEnvio(h, pc[h], loc[h]) /\ SabeRespuesta(h, pc[h], loc[h])
  <2>1. pc[h] \in PcFin /\ pc[h] # "libre"
    BY DEF OpInvalida, Responder, UltimoIdAccess, UltimoIdLeer, IdAccess, IdLeer, Cerrar, En, PcFin
  <2> QED
    BY <2>1, TienePeticion DEF IInv, HilosOK, SerieOK, Sabe
<1>2. ASSUME NEW l, l.id = loc[h].id, SabeRespuesta(h, "cerrar", l) PROVE Sabe(h, "cerrar", l)
  BY <1>1, <1>2 DEF Sabe, SabeAlta, SabePerfil, SabeEnvio, SabeIP
<1>3. CASE OpInvalida(h)
  BY <1>3, CaeSerie DEF OpInvalida
<1>4. CASE Responder(h)
  <2> DEFINE l == [loc[h] EXCEPT !.codigo = loc[h].res]
  <2>1. l.id = loc[h].id /\ l.codigo = loc[h].res /\ pc[h] = "responder"
    BY <1>1, <1>4 DEF Local, Responder, En
  <2>2. Va(h, IF pet[h].op = "SEND" THEN "id_access" ELSE "cerrar", l)
    BY <1>4 DEF Responder
  <2> HIDE DEF l
  <2>3. CASE pet[h].op = "SEND"
    <3>1. Sabe(h, "id_access", l)
      BY <1>1, <2>1, SabeLigero DEF PcLigero
    <3> QED
      BY <2>2, <2>3, <3>1, VaSerie
  <2>4. CASE pet[h].op # "SEND"
    <3>1. Sabe(h, "cerrar", l)
      BY <1>1, <1>2, <2>1, <2>4 DEF SabeRespuesta
    <3> QED
      BY <2>2, <2>4, <3>1, VaSerie
  <2> QED
    BY <2>3, <2>4
<1>5. CASE UltimoIdAccess(h) \/ UltimoIdLeer(h)
  <2>1. pet[h].op = "SEND"
    BY <1>5 DEF UltimoIdAccess, UltimoIdLeer, IdAccess, IdLeer, En, IInv, HilosOK, Encaja
  <2>2. ASSUME NEW id, Va(h, "cerrar", [loc[h] EXCEPT !.ultimo = id]),
               loc[h].id # 0 => id = loc[h].id \/ (FallosES /\ id = 2)
        PROVE  SerieOK'
    <3> DEFINE l == [loc[h] EXCEPT !.ultimo = id]
    <3>1. l.id = loc[h].id /\ l.ultimo = id
      BY <1>1 DEF Local
    <3> HIDE DEF l
    <3>2. Sabe(h, "cerrar", l)
      BY <1>2, <2>1, <2>2, <3>1 DEF SabeRespuesta, Cierto
    <3> QED
      BY <2>2, <3>2, VaSerie DEF l
  <2>3. loc[h].id # 0 => perfiles[dest(h)] # NoHay /\ \A reg \in Lecturas(dest(h)) : reg.last_id = loc[h].id
    BY <1>1 DEF SabeEnvio, Lecturas, Completo
  <2>4. CASE UltimoIdAccess(h)
    <3>1. CASE Sigue(h, "id_leer")
      BY <1>1, <3>1, DevuelveSerie DEF PcLigero
    <3> QED
      BY <2>2, <2>3, <2>4, <3>1 DEF UltimoIdAccess, IdAccess
  <2>5. CASE UltimoIdLeer(h)
    BY <2>2, <2>3, <2>5 DEF UltimoIdLeer, IdLeer
  <2> QED
    BY <1>5, <2>4, <2>5
<1>6. CASE Cerrar(h)
  <2>1. FicherosSanos'
    BY <1>6, QuietoSerie DEF Cerrar, disco, clientes
  <2>2. pc'[h] = "libre"
    BY <1>6 DEF Cerrar, Mueve, IInv, HilosOK
  <2> QED
    BY <2>1, <2>2, ArmaSerie
<1> QED
  BY <1>3, <1>4, <1>5, <1>6

(* A new request knows nothing.                                            *)
LEMMA RecibirSerie ==
  ASSUME UnHilo, IInv, SerieOK, NEW h \in Hilos, Recibir(h)
  PROVE  SerieOK'
<1> DEFINE l == [LocalInicial EXCEPT !.uid = n_pet + 1]
<1>1. PICK p \in Peticiones : Mueve(h, Entrada(p.op), l) /\ UNCHANGED <<perfiles, mensajes, bajas>>
  BY DEF Recibir, disco
<1>2. l.id = 0 /\ l.IP = SinIP
  BY DEF LocalInicial
<1> HIDE DEF l
<1>3. /\ pc'[h] = Entrada(p.op) /\ loc'[h] = l
      /\ Entrada(p.op) \in {"reg_access", "baja_access_perfil", "con_ntop", "des_access", "env_remitente", "op_invalida"}
  BY <1>1 DEF Mueve, IInv, HilosOK, Entrada
<1>4. Sabe(h, pc[h], loc[h])'
  BY <1>2, <1>3 DEF Sabe, SabeAlta, SabePerfil, SabeEnvio, SabeIP, SabeRespuesta
<1> QED
  BY <1>1, <1>4, QuietoSerie, ArmaSerie

LEMMA EntornoSerie ==
  ASSUME IInv, SerieOK, (\E d \in Dirs : ClienteMuere(d)) \/ Matar \/ Reiniciar \/ UNCHANGED vars
  PROVE  SerieOK'
<1>1. CASE Matar
  BY <1>1, CaeSerie DEF Matar
<1>2. CASE ~Matar
  <2>1. UNCHANGED <<perfiles, mensajes, pc, loc, abierto, pet, bajas>>
    BY <1>2 DEF ClienteMuere, Reiniciar, vars, disco, hilos, clientes, historia
  <2>2. FicherosSanos'
    BY <2>1, QuietoSerie
  <2>3. ASSUME NEW h \in Hilos, pc'[h] # "libre" PROVE Sabe(h, pc[h], loc[h])'
    <3>1. Mueve(h, pc[h], loc[h]) /\ Sabe(h, pc[h], loc[h])
      BY <2>1, <2>3 DEF Mueve, IInv, HilosOK, SerieOK
    <3> QED
      BY <2>1, <3>1, SabeIgual
  <2> QED
    BY <2>2, <2>3 DEF SerieOK
<1> QED
  BY <1>1, <1>2

LEMMA InitSerie == Init => SerieOK
<1> SUFFICES ASSUME Init PROVE SerieOK
  OBVIOUS
<1>1. PerfilNuevo \in Perfil
  BY PerfilNuevoEsPerfil
<1>2. \A a \in Alias : /\ perfiles[a] \in {NoHay, [PerfilNuevo EXCEPT !.vivos = FALSE]}
                       /\ mensajes[a] \in {NoHay, <<>>}
  BY DEF Init
<1>3. \A a \in Alias : ~EnLinea(a)
  BY <1>2 DEF EnLinea, Completo, PerfilNuevo
<1>4. FicherosSanos
  BY <1>2, <1>3, DominioVacio
  DEF FicherosSanos, IdsCrecientes, SinPerfilSinMensajes, ConPendientes, EnLineaConIP
<1> QED
  BY <1>4 DEF SerieOK, Init, Arranque

LEMMA PasoSerie == UnHilo /\ BasuraConIP /\ IInv /\ SerieOK /\ [Next]_vars => SerieOK'
<1> SUFFICES ASSUME UnHilo, BasuraConIP, IInv, SerieOK, [Next]_vars PROVE SerieOK'
  OBVIOUS
<1>1. ASSUME NEW h \in Hilos, tratar_mensaje(h) PROVE SerieOK'
  BY <1>1, RegisterSerie, UnregisterSerie, ConnectSerie, DisconnectSerie, SendSerie, IsConnectedSerie,
     BuzonLeidoSerie, PasadaSerie, EnvioSerie, AckSerie, FinSerie
  DEF tratar_mensaje, envio_mensajes_pendientes
<1> QED
  BY <1>1, RecibirSerie, EntornoSerie DEF Next

-----------------------------------------------------------------------------
(* The theorems.                                                           *)

(* A server of one thread keeps its files in order and never says what is  *)
(* not so: at every step its thread knows what the files hold, whichever   *)
(* calls fail and whenever the process is killed and started again.        *)
THEOREM SpecSerie == UnHilo /\ BasuraConIP => (Spec => []SerieOK)
<1> SUFFICES ASSUME UnHilo, BasuraConIP PROVE Spec => []SerieOK
  OBVIOUS
<1>1. IInv /\ SerieOK /\ [Next]_vars => SerieOK'
  BY PasoSerie
<1> QED
  BY <1>1, InitSerie, SpecIInv, PTL DEF Spec

(* With one thread, the messages of a user who never left are numbered     *)
(* upwards and none is beyond the counter in the profile: a crash between  *)
(* the two writes of a SEND leaves a number unused, never used twice       *)
(* (gestiones.c:334-364).                                                  *)
THEOREM NumerosEnOrden == UnHilo /\ BasuraConIP => (Spec => []IdsCrecientes)
<1> SUFFICES ASSUME UnHilo, BasuraConIP PROVE Spec => []IdsCrecientes
  OBVIOUS
<1>1. SerieOK => IdsCrecientes
  BY DEF SerieOK, FicherosSanos
<1>2. Spec => []SerieOK
  BY SpecSerie
<1> QED
  BY <1>1, <1>2, PTL

(* With one thread, a reply of 0 to a REGISTER, UNREGISTER or DISCONNECT   *)
(* is the truth about the files, whichever fopen fails on the way.         *)
THEOREM CeroEsVerdad == UnHilo /\ BasuraConIP => (Spec => []RespuestaVeraz)
<1> SUFFICES ASSUME UnHilo, BasuraConIP PROVE Spec => []RespuestaVeraz
  OBVIOUS
<1>1. SerieOK => RespuestaVeraz
  BY DEF SerieOK, Sabe, SabeRespuesta, Cierto, RespuestaVeraz
<1>2. Spec => []SerieOK
  BY SpecSerie
<1> QED
  BY <1>1, <1>2, PTL

(* With one thread, the id in the reply to an accepted SEND is the one its *)
(* message got, though it is read again from the profile once the message  *)
(* is stored (server.c:358-361), or the 2 of a profile that could not be   *)
(* opened (gestiones.c:277-281).                                           *)
THEOREM IdDelMensaje == UnHilo /\ BasuraConIP => (Spec => []IdRespondido)
<1> SUFFICES ASSUME UnHilo, BasuraConIP PROVE Spec => []IdRespondido
  OBVIOUS
<1>1. SerieOK => IdRespondido
  BY DEF SerieOK, Sabe, SabeRespuesta, IdRespondido
<1>2. Spec => []SerieOK
  BY SpecSerie
<1> QED
  BY <1>1, <1>2, PTL

(* Who follows a bad pointer: a thread that read it from a profile that is *)
(* not this process's work, or the fclose of a mailbox that did not open.  *)
LEMMA QuienApunta ==
  ASSUME IInv, SerieOK, NEW h \in Hilos, tratar_mensaje(h), estado = "activo", estado' = "SIGSEGV"
  PROVE  \/ pc[h] = "vaciar"
         \/ pc[h] \in {"is_connected", "resolver"} /\ PerfilAjeno(Destino(h))
         \/ pc[h] \in {"ack_is_connected", "ack_resolver"} /\ PerfilAjeno(alias(h))
<1>1. ~\E sig, l : Va(h, sig, l)
  BY DEF Va
<1>2. \A causa : Cae(causa) => causa = "SIGSEGV"
  BY DEF Cae
<1>3. /\ ~register_gestiones(h) /\ ~unregister_gestiones(h) /\ ~connect_gestiones(h)
      /\ ~disconnect_gestiones(h)
  BY <1>1
  DEF register_gestiones, RegAccess, RegPerfil, CreaPerfil, RegMensajes, CreaMensajes, RegSoloMensajes,
      RegEscribir, EscribePerfil, unregister_gestiones, BajaAccessPerfil, BajaAccessMensajes, Access,
      BajaPerfil, BajaMensajes, connect_gestiones, ConNtop, TomaDireccion, ConAccess, ConLeer,
      ConEscribir, EscribeConexion, AbrePerfil, disconnect_gestiones, DesAccess, DesLeer, DesEscribir,
      Sigue, Devuelve
<1>4. ~send_to_server_gestiones(h)
  BY <1>1
  DEF send_to_server_gestiones, EnvRemitente, EnvMensajes, EnvPerfil, Access, EnvLeer, AbrePerfil,
      EnvEscribir, EscribeContador, EscribePerfil, EnvAbrir, EnvAnexar, Sigue, Devuelve
<1>5. /\ ~NumMensajesPendientes(h) /\ ~Contar(h) /\ ~ExtraerIDs(h) /\ ~ExtraerRemitentes(h) /\ ~ExtraerMensajes(h)
      /\ ~OpInvalida(h) /\ ~Responder(h) /\ ~UltimoIdAccess(h) /\ ~UltimoIdLeer(h) /\ ~Cerrar(h)
  BY <1>1, <1>2
  DEF NumMensajesPendientes, NumMayorQue, Contar, ContarComo, ExtraerIDs, ExtraerRemitentes,
      ExtraerMensajes, Lee, Sigue, OpInvalida, Responder, UltimoIdAccess, UltimoIdLeer, IdAccess, IdLeer, Cerrar
<1>6. (\A r : ~FinEnvio(h, r)) /\ (\A t, sig, l : ~Transmite(h, t, sig, l))
  BY <1>1 DEF FinEnvio, Transmite
<1>7. /\ ~EnvioConectar(h) /\ ~EnvioEntregar(h) /\ ~AckConectar(h) /\ ~AckIdAccess(h) /\ ~AckIdLeer(h)
      /\ ~AckEnviar(h)
  BY <1>1, <1>2, <1>6
  DEF EnvioConectar, EnvioEntregar, AckConectar, AckIdAccess, AckIdLeer, IdAccess, IdLeer, AckEnviar, Sigue, Devuelve
<1>8. \A reg : IPde(reg) = SinIP <=> ~reg.vivos \/ reg.IP = SinIP
  BY DEF IPde
<1>9. pc[h] # "libre" => Destino(h) \in Alias /\ alias(h) \in Alias /\ SabeIP(h, pc[h], loc[h])
  BY TienePeticion DEF IInv, SerieOK, Sabe
<1>10. CASE IsConnected(h)
  <2>1. pc[h] = "is_connected" /\ \E reg \in Lecturas(Destino(h)) : reg.status = Conectado /\ ~reg.vivos
    BY <1>1, <1>10 DEF IsConnected, is_connected, Sigue, En
  <2> QED
    BY <1>8, <1>9, <2>1, IPAjena
<1>11. CASE AckIsConnected(h)
  <2>1. pc[h] = "ack_is_connected" /\ \E reg \in Lecturas(alias(h)) : reg.status = Conectado /\ ~reg.vivos
    BY <1>1, <1>11 DEF AckIsConnected, is_connected, Devuelve, En
  <2> QED
    BY <1>8, <1>9, <2>1, IPAjena
<1>12. \A sig, l : Resuelve(h, sig, l) => loc[h].IP = SinIP
  BY DEF Resuelve
<1>13. CASE EnvioResolver(h)
  BY <1>6, <1>9, <1>12, <1>13 DEF EnvioResolver, En, SabeIP
<1>14. CASE AckResolver(h)
  BY <1>9, <1>12, <1>14 DEF AckResolver, En, SabeIP
<1>15. CASE VaciarMensajes(h)
  BY <1>15 DEF VaciarMensajes, En
<1> QED
  BY <1>3, <1>4, <1>5, <1>7, <1>10, <1>11, <1>13, <1>14, <1>15 DEF tratar_mensaje, envio_mensajes_pendientes, envio_ack

(* With one thread, the server follows a bad pointer only when the profile *)
(* it reads is not this process's work (gestiones.c:255), or when the      *)
(* mailbox it truncates cannot be opened (gestiones.c:428-429).            *)
THEOREM SoloPunterosAjenos == UnHilo /\ BasuraConIP => (Spec => PunteroAjeno)
<1> SUFFICES ASSUME UnHilo, BasuraConIP PROVE Spec => PunteroAjeno
  OBVIOUS
<1> DEFINE Aviso == estado = "activo" /\ estado' = "SIGSEGV" =>
                      \E h \in Hilos :
                        \/ pc[h] = "vaciar"
                        \/ pc[h] \in {"is_connected", "resolver"} /\ PerfilAjeno(Destino(h))
                        \/ pc[h] \in {"ack_is_connected", "ack_resolver"} /\ PerfilAjeno(alias(h))
<1>1. IInv /\ SerieOK /\ [Next]_vars => Aviso
  <2> SUFFICES ASSUME IInv, SerieOK, [Next]_vars, estado = "activo", estado' = "SIGSEGV" PROVE Aviso
    OBVIOUS
  <2>1. PICK h \in Hilos : tratar_mensaje(h)
    BY DEF Next, Recibir, ClienteMuere, Matar, Reiniciar, Cae, vars
  <2> QED
    BY <2>1, QuienApunta
<1>2. IInv /\ SerieOK /\ [Next]_vars => [Aviso]_vars
  BY <1>1
<1> HIDE DEF Aviso
<1>3. Spec => []SerieOK
  BY SpecSerie
<1>4. Spec => [][Aviso]_vars
  BY <1>2, <1>3, SpecIInv, PTL DEF Spec
<1> QED
  BY <1>4 DEF PunteroAjeno, Aviso

-----------------------------------------------------------------------------
(* The first run of a server of one thread: no profile was left by an      *)
(* earlier process, and none is half written while another request is      *)
(* served.                                                                 *)

(* A client listens there, or has died.                                    *)
Llega(d) == d \in escuchando \/ muertes > 0
Propio(p) == p.status = Conectado => p.vivos /\ p.IP \in IPs /\ Llega(<<p.IP, p.port>>)

(* The files, while the thread is at step sig: only a REGISTER on its way  *)
(* leaves a profile empty or, if no call fails, without a mailbox.         *)
FicherosPropios(h, sig) ==
  /\ \A a \in Alias : Completo(a) => Propio(perfiles[a])
  /\ \A a \in Alias : perfiles[a] = Vacio => sig \in {"reg_mensajes", "reg_escribir"} /\ a = alias(h)
  /\ ~FallosES => \A a \in Alias : perfiles[a] # NoHay /\ mensajes[a] = NoHay => sig = "reg_mensajes" /\ a = alias(h)

(* The profile the thread will write is there, and what it will write in   *)
(* it is its own work too.                                                 *)
EscrituraPropia(h, sig, l) ==
  /\ sig \in {"reg_mensajes", "reg_escribir"} =>
       perfiles[alias(h)] # NoHay /\ abierto[h] = <<"perfil", alias(h)>>
  /\ sig \in {"con_escribir", "des_escribir", "env_escribir"} =>
       perfiles[Destino(h)] # NoHay /\ abierto[h] = <<"perfil", Destino(h)>>
  /\ sig = "env_escribir" => Propio(l.reg)
  /\ sig = "baja_mensajes" => perfiles[alias(h)] = NoHay
  /\ sig \in {"num", "contar", "ids", "remitentes", "mensajes"} => perfiles[Destino(h)] # NoHay

(* The address in its hands is that of a client.                           *)
DireccionPropia(h, sig, l) ==
  /\ sig = "con_ntop" => Llega(<<address_thread, pet[h].port>>)
  /\ sig \in {"con_access", "con_leer", "con_escribir", "ack_resolver"} => l.IP \in IPs /\ Llega(<<l.IP, l.port>>)
  /\ sig \in {"num", "contar", "ids", "remitentes", "mensajes", "vaciar", "resolver", "conectar", "entregar"} =>
       l.IP \in IPs
  /\ sig = "ack_conectar" => Llega(<<hostent, l.port>>)
  /\ sig \in {"entregar", "ack_id_access", "ack_id_leer", "ack_enviar"} => Llega(l.dir)

TrabajoPropio(h, sig, l) == FicherosPropios(h, sig) /\ EscrituraPropia(h, sig, l) /\ DireccionPropia(h, sig, l)

PrimeraOK ==
  /\ SoloCaeConMotivo
  /\ arranques = 0 /\ estado = "activo" => \A h \in Hilos : TrabajoPropio(h, pc[h], loc[h])

LEMMA ArmaPrimera ==
  ASSUME UnHilo, NEW h \in Hilos, estado = "activo", UNCHANGED estado, TrabajoPropio(h, pc[h], loc[h])'
  PROVE  PrimeraOK'
<1>1. \A g \in Hilos : g = h
  BY DEF UnHilo
<1> QED
  BY <1>1 DEF PrimeraOK, SoloCaeConMotivo

LEMMA CaePrimera ==
  ASSUME NEW causa, Cae(causa), causa # "activo", causa = "SIGPIPE" => muertes > 0,
         FallosES \/ causa \notin {"SIGSEGV", "exit(1)"}
  PROVE  PrimeraOK'
BY DEF PrimeraOK, SoloCaeConMotivo, Cae, cotas

(* The steps before which nothing is known but what the files hold.        *)
PcSuelto == {"reg_access", "reg_perfil", "reg_solo_mensajes", "baja_access_perfil", "baja_access_mensajes",
             "baja_perfil", "des_access", "des_leer", "env_remitente", "env_mensajes", "env_perfil",
             "env_leer", "env_abrir", "env_anexar", "is_connected", "ack_is_connected", "responder",
             "id_access", "id_leer", "cerrar", "libre", "op_invalida"}
PcAbre   == {"reg_mensajes", "reg_escribir"}

LEMMA Suelto ==
  ASSUME NEW h \in Hilos, NEW sig \in PcSuelto, NEW l
  PROVE  EscrituraPropia(h, sig, l) /\ DireccionPropia(h, sig, l)
BY DEF PcSuelto, EscrituraPropia, DireccionPropia

(* Any thread but one creating a profile finds the files whole.            *)
LEMMA FicherosEnteros ==
  ASSUME NEW h \in Hilos, FicherosPropios(h, pc[h]), pc[h] \notin PcAbre, NEW sig
  PROVE  FicherosPropios(h, sig)
BY DEF FicherosPropios, PcAbre

LEMMA LecturaPropia ==
  ASSUME NEW h \in Hilos, FicherosPropios(h, pc[h]), pc[h] \notin PcAbre, NEW a \in Alias, NEW reg \in Lecturas(a)
  PROVE  perfiles[a] # NoHay /\ reg = perfiles[a] /\ Propio(reg)
BY DEF FicherosPropios, PcAbre, Lecturas, Completo

(* What is known survives a step that changes neither the files nor who    *)
(* listens.                                                                *)
LEMMA FicherosQuietos ==
  ASSUME IInv, NEW h \in Hilos, NEW sig, NEW l, Mueve(h, sig, l), FicherosPropios(h, sig),
         UNCHANGED <<perfiles, mensajes, pet, escuchando, muertes>>
  PROVE  FicherosPropios(h, pc[h])'
<1>1. pc'[h] = sig /\ alias(h)' = alias(h)
  BY DEF Mueve, IInv, HilosOK, alias
<1> QED
  BY <1>1 DEF FicherosPropios, Completo, Propio, Llega

LEMMA VaPrimera ==
  ASSUME UnHilo, IInv, estado = "activo", NEW h \in Hilos, NEW sig, NEW l, TrabajoPropio(h, sig, l),
         Mueve(h, sig, l),
         UNCHANGED <<perfiles, mensajes, address_thread, hostent, estado, pet, abierto, escuchando, muertes>>
  PROVE  PrimeraOK'
<1>1. pc'[h] = sig /\ loc'[h] = l
  BY DEF Mueve, IInv, HilosOK
<1>2. FicherosPropios(h, pc[h])'
  BY FicherosQuietos DEF TrabajoPropio
<1>3. EscrituraPropia(h, pc[h], loc[h])'
  BY <1>1 DEF TrabajoPropio, EscrituraPropia, Propio, Llega, Destino, alias, dest
<1>4. DireccionPropia(h, pc[h], loc[h])'
  BY <1>1 DEF TrabajoPropio, DireccionPropia, Llega
<1> QED
  BY <1>2, <1>3, <1>4, ArmaPrimera DEF TrabajoPropio

LEMMA VaSuelto ==
  ASSUME UnHilo, IInv, estado = "activo", NEW h \in Hilos, TrabajoPropio(h, pc[h], loc[h]), pc[h] \notin PcAbre,
         NEW sig \in PcSuelto,
         Sigue(h, sig) \/ (\E r : Devuelve(h, r, sig)) \/ (\E l : Va(h, sig, l))
  PROVE  PrimeraOK'
<1>1. PICK l : Va(h, sig, l)
  BY DEF Sigue, Devuelve
<1>2. TrabajoPropio(h, sig, l)
  BY Suelto, FicherosEnteros DEF TrabajoPropio
<1> QED
  BY <1>1, <1>2, VaPrimera DEF Va, disco, estaticas, clientes, cotas

(* A profile that was there is written.                                    *)
LEMMA EscribePrimera ==
  ASSUME UnHilo, IInv, estado = "activo", NEW h \in Hilos, FicherosPropios(h, pc[h]), pc[h] # "reg_mensajes",
         NEW a \in Alias, pc[h] = "reg_escribir" => a = alias(h),
         NEW p \in Perfil, Propio(p), EscribePerfil(h, a, p), abierto[h] = <<"perfil", a>>, perfiles[a] # NoHay,
         NEW sig \in PcSuelto, NEW l, Mueve(h, sig, l)
  PROVE  PrimeraOK'
<1>1. /\ perfiles' = [perfiles EXCEPT ![a] = p]
      /\ UNCHANGED <<mensajes, estado, pet, escuchando, muertes>>
  BY DEF EscribePerfil, clientes, cotas
<1>2. perfiles'[a] = p /\ \A b \in Alias : b # a => perfiles'[b] = perfiles[b]
  BY <1>1 DEF IInv, GlobalOK
<1>3. pc'[h] = sig /\ loc'[h] = l /\ Propio(p)'
  BY <1>1 DEF Mueve, IInv, HilosOK, Propio, Llega
<1>4. ASSUME NEW b \in Alias, Completo(b)' PROVE Propio(perfiles[b])'
  BY <1>1, <1>2, <1>3, <1>4 DEF FicherosPropios, Completo, Propio, Llega
<1>5. \A b \in Alias : perfiles'[b] # Vacio
  BY <1>2, FicherosAparte DEF FicherosPropios
<1>6. ~FallosES => \A b \in Alias : perfiles'[b] # NoHay => mensajes'[b] # NoHay
  BY <1>1, <1>2 DEF FicherosPropios
<1>7. FicherosPropios(h, pc[h])'
  BY <1>4, <1>5, <1>6 DEF FicherosPropios
<1>8. EscrituraPropia(h, pc[h], loc[h])' /\ DireccionPropia(h, pc[h], loc[h])'
  BY <1>3 DEF PcSuelto, EscrituraPropia, DireccionPropia
<1> QED
  BY <1>1, <1>7, <1>8, ArmaPrimera DEF TrabajoPropio

(* A mailbox is created, written or emptied.                               *)
LEMMA BuzonPrimero ==
  ASSUME UnHilo, IInv, estado = "activo", NEW h \in Hilos, FicherosPropios(h, pc[h]),
         NEW a \in Alias, NEW b \in Seq(Mensaje), mensajes' = [mensajes EXCEPT ![a] = b],
         pc[h] = "reg_mensajes" => a = alias(h),
         UNCHANGED <<perfiles, estado, pet, escuchando, muertes>>,
         pc[h] \in PcAbre => pc'[h] = "reg_escribir",
         EscrituraPropia(h, pc[h], loc[h])', DireccionPropia(h, pc[h], loc[h])'
  PROVE  PrimeraOK'
<1>1. mensajes'[a] # NoHay /\ (\A c \in Alias : c # a => mensajes'[c] = mensajes[c]) /\ alias(h)' = alias(h)
  BY FicherosAparte DEF IInv, GlobalOK, alias
<1>2. FicherosPropios(h, pc[h])'
  BY <1>1 DEF FicherosPropios, Completo, Propio, Llega, PcAbre
<1> QED
  BY <1>2, ArmaPrimera DEF TrabajoPropio

LEMMA RegisterPrimera ==
  ASSUME UnHilo, IInv, estado = "activo", NEW h \in Hilos, TrabajoPropio(h, pc[h], loc[h]), register_gestiones(h)
  PROVE  PrimeraOK'
<1>1. pc[h] \in PcRegister /\ pc[h] # "libre"
  BY DEF register_gestiones, RegAccess, RegPerfil, RegMensajes, RegSoloMensajes, RegEscribir, En, PcRegister
<1>2. alias(h) \in Alias /\ loc[h] \in Local
  BY <1>1, TienePeticion DEF IInv, HilosOK
<1>3. CASE RegAccess(h)
  BY <1>3, VaSuelto DEF RegAccess, En, PcAbre, PcSuelto
<1>4. CASE RegPerfil(h)
  <2>1. pc[h] = "reg_perfil" /\ FicherosPropios(h, pc[h])
    BY <1>4 DEF RegPerfil, En, TrabajoPropio
  <2>2. CASE Sigue(h, "reg_solo_mensajes")
    BY <2>1, <2>2, VaSuelto DEF PcAbre, PcSuelto
  <2>3. CASE CreaPerfil(h, "reg_mensajes")
    <3>1. /\ perfiles' = [perfiles EXCEPT ![alias(h)] = Vacio]
          /\ UNCHANGED <<mensajes, estado, pet, escuchando, muertes>>
      BY <2>3 DEF CreaPerfil, clientes, cotas
    <3>2. /\ perfiles'[alias(h)] = Vacio /\ \A a \in Alias : a # alias(h) => perfiles'[a] = perfiles[a]
          /\ alias(h)' = alias(h)
      BY <1>2, <3>1 DEF IInv, GlobalOK, alias
    <3>3. pc'[h] = "reg_mensajes" /\ abierto'[h] = <<"perfil", alias(h)>>
      BY <2>3 DEF CreaPerfil, Mueve, IInv, HilosOK, GlobalOK
    <3>4. FicherosPropios(h, pc[h])'
      BY <2>1, <3>1, <3>2, <3>3 DEF FicherosPropios, Completo, Propio, Llega
    <3>5. EscrituraPropia(h, pc[h], loc[h])' /\ DireccionPropia(h, pc[h], loc[h])'
      BY <3>2, <3>3, FicherosAparte DEF EscrituraPropia, DireccionPropia
    <3> QED
      BY <3>1, <3>4, <3>5, ArmaPrimera DEF TrabajoPropio
  <2> QED
    BY <1>4, <2>2, <2>3 DEF RegPerfil
<1>5. CASE RegMensajes(h)
  <2>1. /\ pc[h] = "reg_mensajes" /\ FicherosPropios(h, pc[h]) /\ abierto[h] = <<"perfil", alias(h)>>
        /\ perfiles[alias(h)] # NoHay
    BY <1>5 DEF RegMensajes, En, TrabajoPropio, EscrituraPropia
  <2>2. PICK l : Mueve(h, "reg_escribir", l)
    BY <1>5 DEF RegMensajes, CreaMensajes, Devuelve, Va
  <2>3. pc'[h] = "reg_escribir" /\ UNCHANGED <<perfiles, estado, pet, abierto, escuchando, muertes>>
    BY <1>5, <2>2 DEF RegMensajes, CreaMensajes, Devuelve, Va, Mueve, IInv, HilosOK, disco, clientes, cotas
  <2>4. EscrituraPropia(h, pc[h], loc[h])' /\ DireccionPropia(h, pc[h], loc[h])'
    BY <2>1, <2>3 DEF EscrituraPropia, DireccionPropia, alias
  <2>5. CASE mensajes' = [mensajes EXCEPT ![alias(h)] = <<>>]
    BY <1>2, <2>1, <2>3, <2>4, <2>5, BuzonPrimero, EmptySeq DEF PcAbre
  <2>6. CASE FallosES /\ UNCHANGED mensajes
    <3>1. FicherosPropios(h, pc[h])'
      BY <2>1, <2>3, <2>6 DEF FicherosPropios, Completo, Propio, Llega, alias
    <3> QED
      BY <2>3, <2>4, <3>1, ArmaPrimera DEF TrabajoPropio
  <2> QED
    BY <1>5, <2>5, <2>6 DEF RegMensajes, CreaMensajes, Devuelve, Va, disco
<1>6. CASE RegSoloMensajes(h)
  <2>1. pc[h] = "reg_solo_mensajes" /\ FicherosPropios(h, pc[h])
    BY <1>6 DEF RegSoloMensajes, En, TrabajoPropio
  <2>2. CASE Devuelve(h, 2, "responder")
    BY <2>1, <2>2, VaSuelto DEF PcAbre, PcSuelto
  <2>3. CASE ~Devuelve(h, 2, "responder")
    <3>1. /\ mensajes' = [mensajes EXCEPT ![alias(h)] = <<>>] /\ pc'[h] = "responder"
          /\ UNCHANGED <<perfiles, estado, pet, escuchando, muertes>>
      BY <1>6, <2>3 DEF RegSoloMensajes, CreaMensajes, Mueve, IInv, HilosOK, clientes, cotas
    <3>2. EscrituraPropia(h, pc[h], loc[h])' /\ DireccionPropia(h, pc[h], loc[h])'
      BY <3>1 DEF EscrituraPropia, DireccionPropia
    <3> QED
      BY <1>2, <2>1, <3>1, <3>2, BuzonPrimero, EmptySeq DEF PcAbre
  <2> QED
    BY <2>2, <2>3
<1>7. CASE RegEscribir(h)
  <2>1. /\ pc[h] = "reg_escribir" /\ FicherosPropios(h, pc[h]) /\ abierto[h] = <<"perfil", alias(h)>>
        /\ EscribePerfil(h, alias(h), PerfilNuevo) /\ Mueve(h, "responder", loc[h])
    BY <1>7 DEF RegEscribir, En, TrabajoPropio, EscrituraPropia
  <2>2. PerfilNuevo \in Perfil /\ Propio(PerfilNuevo)
    BY PerfilNuevoEsPerfil DEF PerfilNuevo, Propio, Conectado, Desconectado
  <2>3. perfiles[alias(h)] # NoHay
    BY <1>7, <2>1 DEF TrabajoPropio, EscrituraPropia
  <2> QED
    BY <1>2, <2>1, <2>2, <2>3, EscribePrimera DEF PcSuelto
<1> QED
  BY <1>3, <1>4, <1>5, <1>6, <1>7 DEF register_gestiones

LEMMA UnregisterPrimera ==
  ASSUME UnHilo, IInv, estado = "activo", NEW h \in Hilos, TrabajoPropio(h, pc[h], loc[h]), unregister_gestiones(h)
  PROVE  PrimeraOK'
<1>1. pc[h] \in PcUnregister /\ pc[h] # "libre" /\ pc[h] \notin PcAbre
  BY DEF unregister_gestiones, BajaAccessPerfil, BajaAccessMensajes, Access, BajaPerfil, BajaMensajes, En,
         PcUnregister, PcAbre
<1>2. alias(h) \in Alias /\ FicherosPropios(h, pc[h])
  BY <1>1, TienePeticion DEF IInv, TrabajoPropio
<1>3. CASE \E sig \in PcSuelto : Sigue(h, sig) \/ \E r : Devuelve(h, r, sig)
  BY <1>1, <1>3, VaSuelto
<1>4. CASE BajaAccessPerfil(h) \/ BajaAccessMensajes(h)
  BY <1>3, <1>4 DEF BajaAccessPerfil, BajaAccessMensajes, Access, PcSuelto
<1>5. CASE BajaPerfil(h)
  <2>1. CASE ~Devuelve(h, 2, "responder")
    <3>1. /\ perfiles' = [perfiles EXCEPT ![alias(h)] = NoHay] /\ Mueve(h, "baja_mensajes", loc[h])
          /\ UNCHANGED <<mensajes, estado, pet, escuchando, muertes>>
      BY <1>5, <2>1 DEF BajaPerfil, clientes, cotas
    <3>2. /\ perfiles'[alias(h)] = NoHay /\ \A a \in Alias : a # alias(h) => perfiles'[a] = perfiles[a]
          /\ alias(h)' = alias(h) /\ pc'[h] = "baja_mensajes"
      BY <1>2, <3>1 DEF IInv, GlobalOK, HilosOK, Mueve, alias
    <3>3. FicherosPropios(h, pc[h])'
      BY <1>1, <1>2, <3>1, <3>2, FicherosAparte DEF FicherosPropios, PcAbre, Completo, Propio, Llega
    <3>4. EscrituraPropia(h, pc[h], loc[h])' /\ DireccionPropia(h, pc[h], loc[h])'
      BY <3>2 DEF EscrituraPropia, DireccionPropia
    <3> QED
      BY <3>1, <3>3, <3>4, ArmaPrimera DEF TrabajoPropio
  <2> QED
    BY <1>3, <2>1 DEF PcSuelto
<1>6. CASE BajaMensajes(h)
  <2>1. CASE ~Devuelve(h, 2, "responder")
    <3>1. /\ mensajes' = [mensajes EXCEPT ![alias(h)] = NoHay] /\ Mueve(h, "responder", [loc[h] EXCEPT !.res = 0])
          /\ UNCHANGED <<perfiles, estado, pet, escuchando, muertes>> /\ perfiles[alias(h)] = NoHay
      BY <1>6, <2>1 DEF BajaMensajes, En, TrabajoPropio, EscrituraPropia, clientes, cotas
    <3>2. /\ \A a \in Alias : a # alias(h) => mensajes'[a] = mensajes[a]
          /\ alias(h)' = alias(h) /\ pc'[h] = "responder"
      BY <1>2, <3>1 DEF IInv, GlobalOK, HilosOK, Mueve, alias
    <3>3. FicherosPropios(h, pc[h])'
      BY <1>1, <1>2, <3>1, <3>2 DEF FicherosPropios, PcAbre, Completo, Propio, Llega
    <3>4. EscrituraPropia(h, pc[h], loc[h])' /\ DireccionPropia(h, pc[h], loc[h])'
      BY <3>2 DEF EscrituraPropia, DireccionPropia
    <3> QED
      BY <3>1, <3>3, <3>4, ArmaPrimera DEF TrabajoPropio
  <2> QED
    BY <1>3, <2>1 DEF PcSuelto
<1> QED
  BY <1>4, <1>5, <1>6 DEF unregister_gestiones

(* A profile is opened to be rewritten.                                    *)
LEMMA AbrePerfilPrimera ==
  ASSUME UnHilo, IInv, estado = "activo", NEW h \in Hilos, TrabajoPropio(h, pc[h], loc[h]), pc[h] \notin PcAbre,
         Destino(h) \in Alias, NEW reg \in Lecturas(Destino(h)),
         NEW sig \in {"con_escribir", "des_escribir", "env_escribir"},
         sig = "con_escribir" => pc[h] = "con_leer", AbrePerfil(h, Destino(h), sig, reg)
  PROVE  PrimeraOK'
<1> DEFINE l == [loc[h] EXCEPT !.reg = reg]
<1>1. l.IP = loc[h].IP /\ l.port = loc[h].port /\ l.reg = reg
  BY DEF IInv, HilosOK, Local
<1>2. /\ Mueve(h, sig, l) /\ abierto' = [abierto EXCEPT ![h] = <<"perfil", Destino(h)>>]
      /\ UNCHANGED <<perfiles, mensajes, estado, pet, escuchando, muertes>>
  BY DEF AbrePerfil, disco, clientes, cotas
<1>3. pc'[h] = sig /\ loc'[h] = l /\ abierto'[h] = <<"perfil", Destino(h)>> /\ Destino(h)' = Destino(h)
  BY <1>2 DEF Mueve, IInv, HilosOK, GlobalOK, Destino, alias, dest
<1> HIDE DEF l
<1>4. FicherosPropios(h, pc[h])'
  BY <1>2, FicherosEnteros, FicherosQuietos DEF TrabajoPropio
<1>5. perfiles[Destino(h)] # NoHay /\ Propio(reg)
  BY LecturaPropia DEF TrabajoPropio
<1>6. EscrituraPropia(h, pc[h], loc[h])'
  BY <1>1, <1>2, <1>3, <1>5 DEF EscrituraPropia, Propio, Llega
<1>7. DireccionPropia(h, pc[h], loc[h])'
  BY <1>1, <1>2, <1>3 DEF TrabajoPropio, DireccionPropia, Llega
<1> QED
  BY <1>2, <1>4, <1>6, <1>7, ArmaPrimera DEF TrabajoPropio

LEMMA ConnectPrimera ==
  ASSUME UnHilo, IInv, estado = "activo", NEW h \in Hilos, TrabajoPropio(h, pc[h], loc[h]), connect_gestiones(h)
  PROVE  PrimeraOK'
<1>1. pc[h] \in PcConnect /\ pc[h] # "libre" /\ pc[h] \notin PcAbre
  BY DEF connect_gestiones, ConNtop, TomaDireccion, ConAccess, Access, ConLeer, ConEscribir, EscribeConexion, En,
         PcConnect, PcAbre
<1>2. /\ alias(h) \in Alias /\ FicherosPropios(h, pc[h]) /\ loc[h] \in Local
      /\ pet[h].op = "CONNECT" /\ pet[h] \in Peticion
  BY <1>1, TienePeticion DEF IInv, TrabajoPropio, HilosOK, Encaja
<1>3. Destino(h) = alias(h)
  BY <1>2 DEF Destino
<1>4. ASSUME NEW r, Devuelve(h, r, "is_connected") PROVE PrimeraOK'
  BY <1>1, <1>4, VaSuelto DEF PcSuelto
<1>5. CASE ConNtop(h)
  <2> DEFINE l == [loc[h] EXCEPT !.IP = address_thread, !.port = pet[h].port]
  <2>1. l.IP = address_thread /\ l.port = pet[h].port /\ address_thread \in IPs
    BY <1>2 DEF Local, IInv, GlobalOK
  <2>2. Llega(<<address_thread, pet[h].port>>) /\ Va(h, "con_access", l)
    BY <1>5 DEF ConNtop, TomaDireccion, En, TrabajoPropio, DireccionPropia
  <2> HIDE DEF l
  <2>3. TrabajoPropio(h, "con_access", l)
    BY <1>1, <1>2, <2>1, <2>2, FicherosEnteros DEF TrabajoPropio, EscrituraPropia, DireccionPropia
  <2> QED
    BY <2>2, <2>3, VaPrimera DEF Va, disco, estaticas, clientes, cotas
<1>6. CASE ConAccess(h)
  <2>1. pc[h] = "con_access"
    BY <1>6 DEF ConAccess, Access, En
  <2>2. TrabajoPropio(h, "con_leer", loc[h])
    BY <1>1, <1>2, <2>1, FicherosEnteros DEF TrabajoPropio, EscrituraPropia, DireccionPropia
  <2>3. CASE Sigue(h, "con_leer")
    BY <2>2, <2>3, VaPrimera DEF Sigue, Va, disco, estaticas, clientes, cotas
  <2> QED
    BY <1>4, <1>6, <2>3 DEF ConAccess, Access
<1>7. CASE ConLeer(h)
  <2>1. ASSUME NEW reg \in Lecturas(alias(h)), AbrePerfil(h, alias(h), "con_escribir", reg) PROVE PrimeraOK'
    <3>1. pc[h] = "con_leer"
      BY <1>7 DEF ConLeer, En
    <3> QED
      BY <1>1, <1>2, <1>3, <2>1, <3>1, AbrePerfilPrimera
  <2> QED
    BY <1>4, <1>7, <2>1 DEF ConLeer
<1>8. CASE ConEscribir(h)
  <2> DEFINE p == [status |-> Conectado, IP |-> loc[h].IP, port |-> loc[h].port,
                   last_id |-> loc[h].reg.last_id, vivos |-> TRUE]
  <2>1. /\ loc[h].IP \in IPs /\ Llega(<<loc[h].IP, loc[h].port>>) /\ perfiles[alias(h)] # NoHay
        /\ abierto[h] = <<"perfil", alias(h)>> /\ pc[h] = "con_escribir"
    BY <1>3, <1>8 DEF ConEscribir, EscribeConexion, En, TrabajoPropio, EscrituraPropia, DireccionPropia
  <2>2. EscribePerfil(h, alias(h), p) /\ Mueve(h, "is_connected", [loc[h] EXCEPT !.res = 0])
    BY <1>8 DEF ConEscribir, EscribeConexion
  <2>3. p \in Perfil
    BY <1>2, <2>1, LocalCampos DEF Perfil
  <2>4. Propio(p)
    BY <2>1 DEF Propio
  <2> HIDE DEF p
  <2> QED
    BY <1>1, <1>2, <2>1, <2>2, <2>3, <2>4, EscribePrimera DEF PcAbre, PcSuelto
<1> QED
  BY <1>5, <1>6, <1>7, <1>8 DEF connect_gestiones

LEMMA DisconnectPrimera ==
  ASSUME UnHilo, IInv, estado = "activo", NEW h \in Hilos, TrabajoPropio(h, pc[h], loc[h]), disconnect_gestiones(h)
  PROVE  PrimeraOK'
<1>1. pc[h] \in PcDisconnect /\ pc[h] # "libre" /\ pc[h] \notin PcAbre
  BY DEF disconnect_gestiones, DesAccess, Access, DesLeer, DesEscribir, En, PcDisconnect, PcAbre
<1>2. alias(h) \in Alias /\ FicherosPropios(h, pc[h]) /\ loc[h] \in Local /\ pet[h].op = "DISCONNECT"
  BY <1>1, TienePeticion DEF IInv, TrabajoPropio, HilosOK, Encaja
<1>3. Destino(h) = alias(h)
  BY <1>2 DEF Destino
<1>4. CASE \E sig \in PcSuelto : Sigue(h, sig) \/ \E r : Devuelve(h, r, sig)
  BY <1>1, <1>4, VaSuelto
<1>5. CASE DesAccess(h)
  BY <1>4, <1>5 DEF DesAccess, Access, PcSuelto
<1>6. CASE DesLeer(h)
  <2>1. ASSUME NEW reg \in Lecturas(alias(h)), AbrePerfil(h, alias(h), "des_escribir", reg) PROVE PrimeraOK'
    BY <1>1, <1>2, <1>3, <2>1, AbrePerfilPrimera
  <2> QED
    BY <1>4, <1>6, <2>1 DEF DesLeer, PcSuelto
<1>7. CASE DesEscribir(h)
  <2> DEFINE p == [PerfilNuevo EXCEPT !.last_id = loc[h].reg.last_id]
  <2>1. perfiles[alias(h)] # NoHay /\ abierto[h] = <<"perfil", alias(h)>> /\ pc[h] = "des_escribir"
    BY <1>3, <1>7 DEF DesEscribir, En, TrabajoPropio, EscrituraPropia
  <2>2. EscribePerfil(h, alias(h), p) /\ Mueve(h, "responder", [loc[h] EXCEPT !.res = 0])
    BY <1>7 DEF DesEscribir
  <2>3. p \in Perfil /\ Propio(p)
    BY <1>2, LocalCampos, PerfilNuevoEsPerfil DEF Perfil, PerfilNuevo, Propio, Conectado, Desconectado
  <2> HIDE DEF p
  <2> QED
    BY <1>1, <1>2, <2>1, <2>2, <2>3, EscribePrimera DEF PcAbre, PcSuelto
<1> QED
  BY <1>5, <1>6, <1>7 DEF disconnect_gestiones

LEMMA SendPrimera ==
  ASSUME UnHilo, IInv, estado = "activo", NEW h \in Hilos, TrabajoPropio(h, pc[h], loc[h]),
         send_to_server_gestiones(h)
  PROVE  PrimeraOK'
<1>1. pc[h] \in PcSend /\ pc[h] # "libre" /\ pc[h] \notin PcAbre
  BY DEF send_to_server_gestiones, EnvRemitente, EnvMensajes, EnvPerfil, EnvLeer, EnvEscribir, EscribeContador,
         EnvAbrir, EnvAnexar, Access, En, PcSend, PcAbre
<1>2. /\ alias(h) \in Alias /\ dest(h) \in Alias /\ FicherosPropios(h, pc[h]) /\ loc[h] \in Local
      /\ pet[h].op = "SEND"
  BY <1>1, TienePeticion DEF IInv, TrabajoPropio, HilosOK, Encaja
<1>3. Destino(h) = dest(h)
  BY <1>2 DEF Destino
<1>4. CASE \E sig \in PcSuelto : Sigue(h, sig) \/ \E r : Devuelve(h, r, sig)
  BY <1>1, <1>4, VaSuelto
<1>5. CASE EnvRemitente(h) \/ EnvMensajes(h) \/ EnvPerfil(h)
  BY <1>4, <1>5 DEF EnvRemitente, EnvMensajes, EnvPerfil, Access, PcSuelto
<1>6. CASE EnvLeer(h)
  <2>1. ASSUME NEW reg \in Lecturas(dest(h)), AbrePerfil(h, dest(h), "env_escribir", reg) PROVE PrimeraOK'
    BY <1>1, <1>2, <1>3, <2>1, AbrePerfilPrimera
  <2> QED
    BY <1>4, <1>6, <2>1 DEF EnvLeer, PcSuelto
<1>7. CASE EnvEscribir(h)
  <2> DEFINE p == [loc[h].reg EXCEPT !.last_id = loc[h].reg.last_id + 1]
  <2>1. /\ perfiles[dest(h)] # NoHay /\ abierto[h] = <<"perfil", dest(h)>> /\ pc[h] = "env_escribir"
        /\ Propio(loc[h].reg)
    BY <1>3, <1>7 DEF EnvEscribir, EscribeContador, En, TrabajoPropio, EscrituraPropia
  <2>2. EscribePerfil(h, dest(h), p) /\ Mueve(h, "env_abrir", [loc[h] EXCEPT !.id = loc[h].reg.last_id + 1])
    BY <1>7 DEF EnvEscribir, EscribeContador
  <2>3. p \in Perfil /\ Propio(p)
    BY <1>2, <2>1, LocalCampos DEF Perfil, Propio
  <2> HIDE DEF p
  <2> QED
    BY <1>1, <1>2, <2>1, <2>2, <2>3, EscribePrimera DEF PcAbre, PcSuelto
<1>8. CASE EnvAbrir(h)
  <2>1. CASE ~Devuelve(h, 2, "is_connected")
    <3>1. /\ Mueve(h, "env_anexar", [loc[h] EXCEPT !.pos = Len(mensajes[dest(h)]) + 1])
          /\ UNCHANGED <<perfiles, mensajes, estado, pet, escuchando, muertes>>
      BY <1>8, <2>1 DEF EnvAbrir, disco, clientes, cotas
    <3>2. FicherosPropios(h, pc[h])'
      BY <1>1, <1>2, <3>1, FicherosEnteros, FicherosQuietos
    <3>3. pc'[h] = "env_anexar"
      BY <3>1 DEF Mueve, IInv, HilosOK
    <3>4. EscrituraPropia(h, pc[h], loc[h])' /\ DireccionPropia(h, pc[h], loc[h])'
      BY <3>3 DEF EscrituraPropia, DireccionPropia
    <3> QED
      BY <3>1, <3>2, <3>4, ArmaPrimera DEF TrabajoPropio
  <2> QED
    BY <1>4, <2>1 DEF PcSuelto
<1>9. CASE EnvAnexar(h)
  <2> DEFINE m == [id |-> loc[h].id, remitente |-> alias(h), mensaje |-> loc[h].uid]
             b == EscribirEn(mensajes[dest(h)], loc[h].pos, m)
  <2>1. /\ Mueve(h, "is_connected", [loc[h] EXCEPT !.res = 0]) /\ UNCHANGED <<perfiles, estado, pet, escuchando, muertes>>
        /\ mensajes' = IF abierto[h] = <<"mensajes", dest(h)>> THEN [mensajes EXCEPT ![dest(h)] = b] ELSE mensajes
    BY <1>9 DEF EnvAnexar, clientes, cotas
  <2>2. pc'[h] = "is_connected"
    BY <2>1 DEF Mueve, IInv, HilosOK
  <2>3. EscrituraPropia(h, pc[h], loc[h])' /\ DireccionPropia(h, pc[h], loc[h])'
    BY <2>2 DEF EscrituraPropia, DireccionPropia
  <2>4. CASE abierto[h] = <<"mensajes", dest(h)>>
    <3>1. mensajes[dest(h)] \in Seq(Mensaje) /\ m \in Mensaje /\ loc[h].pos \in Nat
      BY <1>2, <2>4, BuzonEsSecuencia, LocalCampos DEF IInv, GlobalOK, Mensaje
    <3> HIDE DEF m
    <3>2. b \in Seq(Mensaje)
      BY <3>1, EscribirEnTipo
    <3> HIDE DEF b
    <3> QED
      BY <1>1, <1>2, <2>1, <2>3, <2>4, <3>2, BuzonPrimero DEF PcAbre
  <2>5. CASE abierto[h] # <<"mensajes", dest(h)>>
    <3>1. FicherosPropios(h, pc[h])'
      BY <1>1, <1>2, <2>1, <2>5, FicherosEnteros, FicherosQuietos
    <3> QED
      BY <2>1, <2>3, <3>1, ArmaPrimera DEF TrabajoPropio
  <2> QED
    BY <2>4, <2>5
<1> QED
  BY <1>5, <1>6, <1>7, <1>8, <1>9 DEF send_to_server_gestiones

(* is_connected finds no dangling pointer: every profile is this process's *)
(* work.                                                                   *)
LEMMA ConsultaPropia ==
  ASSUME UnHilo, IInv, NEW h \in Hilos, FicherosPropios(h, pc[h]), pc[h] \notin PcAbre,
         NEW a \in Alias, NEW reg \in Lecturas(a), reg.status = Conectado
  PROVE  /\ perfiles[a] # NoHay /\ reg.vivos
         /\ \A sig, res :
              Va(h, sig, [loc[h] EXCEPT !.IP = IPde(reg), !.port = reg.port, !.res = res]) =>
                \E l : Va(h, sig, l) /\ l.IP \in IPs /\ Llega(<<l.IP, l.port>>)
<1>1. perfiles[a] # NoHay /\ reg.vivos /\ reg.IP \in IPs /\ Llega(<<reg.IP, reg.port>>)
  BY LecturaPropia DEF Propio
<1>2. ASSUME NEW sig, NEW res, Va(h, sig, [loc[h] EXCEPT !.IP = IPde(reg), !.port = reg.port, !.res = res])
      PROVE  \E l : Va(h, sig, l) /\ l.IP \in IPs /\ Llega(<<l.IP, l.port>>)
  <2> DEFINE l == [loc[h] EXCEPT !.IP = IPde(reg), !.port = reg.port, !.res = res]
  <2>1. l.IP = reg.IP /\ l.port = reg.port
    BY <1>1 DEF IInv, HilosOK, Local, IPde
  <2>2. Va(h, sig, l)
    BY <1>2
  <2> HIDE DEF l
  <2> QED
    BY <1>1, <2>1, <2>2
<1> QED
  BY <1>1, <1>2

LEMMA IsConnectedPrimera ==
  ASSUME UnHilo, IInv, estado = "activo", NEW h \in Hilos, TrabajoPropio(h, pc[h], loc[h]), IsConnected(h)
  PROVE  PrimeraOK'
<1>1. pc[h] = "is_connected" /\ is_connected(h, Destino(h), Sigue(h, "responder"), "num", loc[h].res)
  BY DEF IsConnected, En
<1>2. Destino(h) \in Alias /\ FicherosPropios(h, pc[h]) /\ pc[h] \notin PcAbre
  BY <1>1, TienePeticion DEF IInv, TrabajoPropio, PcAbre
<1>3. CASE Sigue(h, "responder")
  BY <1>2, <1>3, VaSuelto DEF PcSuelto
<1>4. ASSUME perfiles[Destino(h)] # NoHay, NEW l, Va(h, "num", l), l.IP \in IPs PROVE PrimeraOK'
  <2>1. TrabajoPropio(h, "num", l)
    BY <1>2, <1>4, FicherosEnteros DEF TrabajoPropio, EscrituraPropia, DireccionPropia
  <2> QED
    BY <1>4, <2>1, VaPrimera DEF Va, disco, estaticas, clientes, cotas
<1>5. ASSUME NEW reg \in Lecturas(Destino(h)), reg.status = Conectado,
             Va(h, "num", [loc[h] EXCEPT !.IP = IPde(reg), !.port = reg.port, !.res = loc[h].res])
      PROVE  PrimeraOK'
  <2>1. PICK l : Va(h, "num", l) /\ l.IP \in IPs /\ perfiles[Destino(h)] # NoHay
    BY <1>2, <1>5, ConsultaPropia
  <2> QED
    BY <1>4, <2>1
<1>6. \A reg \in Lecturas(Destino(h)) : reg.status = Conectado => reg.vivos
  BY <1>2, ConsultaPropia
<1> QED
  BY <1>1, <1>3, <1>5, <1>6 DEF is_connected

(* The mailbox it looks for is there.                                      *)
LEMMA LeePropio ==
  ASSUME NEW h \in Hilos, TrabajoPropio(h, pc[h], loc[h]), Destino(h) \in Alias,
         NEW etiqueta \in {"num", "contar", "ids", "remitentes", "mensajes"}, NEW paso, Lee(h, etiqueta, paso)
  PROVE  PrimeraOK' \/ paso
<1>1. FallosES \/ mensajes[Destino(h)] # NoHay
  BY DEF Lee, En, TrabajoPropio, EscrituraPropia, FicherosPropios
<1> QED
  BY <1>1, CaePrimera DEF Lee

LEMMA LecturaPrimera ==
  ASSUME UnHilo, IInv, estado = "activo", NEW h \in Hilos, TrabajoPropio(h, pc[h], loc[h]),
         \/ NumMensajesPendientes(h) \/ Contar(h)
         \/ ExtraerIDs(h) \/ ExtraerRemitentes(h) \/ ExtraerMensajes(h)
  PROVE  PrimeraOK'
<1>1. pc[h] \in {"num", "contar", "ids", "remitentes", "mensajes"} /\ pc[h] \notin PcAbre
  BY DEF NumMensajesPendientes, Contar, ContarComo, ExtraerIDs, ExtraerRemitentes, ExtraerMensajes, Lee, En, PcAbre
<1>2. /\ Destino(h) \in Alias /\ FicherosPropios(h, pc[h]) /\ loc[h] \in Local
      /\ loc[h].IP \in IPs /\ perfiles[Destino(h)] # NoHay
  BY <1>1, TienePeticion DEF IInv, HilosOK, TrabajoPropio, EscrituraPropia, DireccionPropia
<1>3. ASSUME NEW sig \in {"contar", "ids", "remitentes", "mensajes", "vaciar"}, NEW l, Va(h, sig, l), l.IP \in IPs
      PROVE  PrimeraOK'
  <2>1. TrabajoPropio(h, sig, l)
    BY <1>1, <1>2, <1>3, FicherosEnteros DEF TrabajoPropio, EscrituraPropia, DireccionPropia
  <2> QED
    BY <1>3, <2>1, VaPrimera DEF Va, disco, estaticas, clientes, cotas
<1>4. CASE NumMensajesPendientes(h)
  <2>1. PrimeraOK' \/ NumMayorQue(h, 0)
    BY <1>2, <1>4, LeePropio DEF NumMensajesPendientes
  <2>2. CASE Sigue(h, "contar")
    BY <1>2, <1>3, <2>2 DEF Sigue
  <2>3. CASE Sigue(h, "responder")
    BY <1>1, <2>3, VaSuelto DEF PcSuelto
  <2> QED
    BY <2>1, <2>2, <2>3 DEF NumMayorQue
<1>5. CASE Contar(h)
  <2> DEFINE n == Len(mensajes[Destino(h)])
             l == [loc[h] EXCEPT !.n = n, !.lote = [i \in 1..n |-> Hueco]]
  <2>1. PrimeraOK' \/ Va(h, "ids", l)
    BY <1>2, <1>5, LeePropio DEF Contar, ContarComo
  <2>2. l.IP = loc[h].IP
    BY <1>2 DEF Local
  <2> HIDE DEF l
  <2> QED
    BY <1>2, <1>3, <2>1, <2>2
<1>6. ASSUME NEW sig \in {"remitentes", "mensajes", "vaciar"}, NEW lote, Va(h, sig, [loc[h] EXCEPT !.lote = lote])
      PROVE  PrimeraOK'
  <2> DEFINE l == [loc[h] EXCEPT !.lote = lote]
  <2>1. l.IP = loc[h].IP /\ Va(h, sig, l)
    BY <1>2, <1>6 DEF Local
  <2> HIDE DEF l
  <2> QED
    BY <1>2, <1>3, <2>1
<1>7. CASE ExtraerIDs(h)
  <2>1. PrimeraOK' \/ \E l \in Leidas(h) : Va(h, "remitentes", [loc[h] EXCEPT !.lote = ConIDs(@, l)])
    BY <1>2, <1>7, LeePropio DEF ExtraerIDs
  <2> QED
    BY <1>6, <2>1
<1>8. CASE ExtraerRemitentes(h)
  <2>1. PrimeraOK' \/ \E l \in Leidas(h) : Va(h, "mensajes", [loc[h] EXCEPT !.lote = ConRemitentes(@, l)])
    BY <1>2, <1>8, LeePropio DEF ExtraerRemitentes
  <2> QED
    BY <1>6, <2>1
<1>9. CASE ExtraerMensajes(h)
  <2>1. PrimeraOK' \/ \E l \in Leidas(h) : Va(h, "vaciar", [loc[h] EXCEPT !.lote = ConMensajes(@, l)])
    BY <1>2, <1>9, LeePropio DEF ExtraerMensajes
  <2> QED
    BY <1>6, <2>1
<1> QED
  BY <1>4, <1>5, <1>7, <1>8, <1>9

LEMMA VaciarPrimera ==
  ASSUME UnHilo, IInv, estado = "activo", NEW h \in Hilos, TrabajoPropio(h, pc[h], loc[h]), VaciarMensajes(h)
  PROVE  PrimeraOK'
<1>1. pc[h] = "vaciar" /\ pc[h] \notin PcAbre
  BY DEF VaciarMensajes, En, PcAbre
<1>2. /\ Destino(h) \in Alias /\ FicherosPropios(h, pc[h]) /\ loc[h] \in Local /\ loc[h].IP \in IPs
  BY <1>1, TienePeticion DEF IInv, HilosOK, TrabajoPropio, DireccionPropia
<1>3. CASE FallosES /\ Cae("SIGSEGV")
  BY <1>3, CaePrimera
<1>4. CASE ~(FallosES /\ Cae("SIGSEGV"))
  <2> DEFINE l == [loc[h] EXCEPT !.n = 0]
  <2>1. l.IP = loc[h].IP
    BY <1>2 DEF Local
  <2>2. /\ mensajes' = [mensajes EXCEPT ![Destino(h)] = <<>>] /\ Mueve(h, "resolver", l)
        /\ UNCHANGED <<perfiles, estado, pet, escuchando, muertes>>
    BY <1>4 DEF VaciarMensajes, DejaBuzon, clientes, cotas
  <2> HIDE DEF l
  <2>3. pc'[h] = "resolver" /\ loc'[h] = l
    BY <2>2 DEF Mueve, IInv, HilosOK
  <2>4. EscrituraPropia(h, pc[h], loc[h])' /\ DireccionPropia(h, pc[h], loc[h])'
    BY <1>2, <2>1, <2>3 DEF EscrituraPropia, DireccionPropia
  <2> QED
    BY <1>1, <1>2, <2>2, <2>4, BuzonPrimero, EmptySeq DEF PcAbre
<1> QED
  BY <1>3, <1>4

(* gethostbyname of an address it has: the static buffer holds it now.     *)
LEMMA ResuelvePrimera ==
  ASSUME UnHilo, IInv, estado = "activo", NEW h \in Hilos, FicherosPropios(h, pc[h]), pc[h] \notin PcAbre,
         loc[h].IP \in IPs, NEW sig \in {"conectar", "ack_conectar", "responder"}, NEW l, l.IP \in IPs,
         sig = "ack_conectar" => l = loc[h] /\ Llega(<<loc[h].IP, loc[h].port>>), Resuelve(h, sig, l)
  PROVE  PrimeraOK'
<1>1. /\ hostent' = loc[h].IP /\ Mueve(h, sig, l) /\ UNCHANGED <<perfiles, mensajes, estado, pet, escuchando, muertes>>
  BY CentinelasAparte DEF Resuelve, disco, clientes, cotas
<1>2. pc'[h] = sig /\ loc'[h] = l
  BY <1>1 DEF Mueve, IInv, HilosOK
<1>3. FicherosPropios(h, pc[h])'
  BY <1>1, FicherosEnteros, FicherosQuietos
<1>4. EscrituraPropia(h, pc[h], loc[h])' /\ DireccionPropia(h, pc[h], loc[h])'
  BY <1>1, <1>2 DEF EscrituraPropia, DireccionPropia, Llega
<1> QED
  BY <1>1, <1>3, <1>4, ArmaPrimera DEF TrabajoPropio

LEMMA TransmitePrimera ==
  ASSUME UnHilo, IInv, estado = "activo", NEW h \in Hilos, NEW t, NEW sig, NEW l, Transmite(h, t, sig, l),
         TrabajoPropio(h, sig, l)
  PROVE  PrimeraOK'
BY VaPrimera DEF Transmite, disco, estaticas, cotas

LEMMA FinEnvioPrimera ==
  ASSUME UnHilo, IInv, estado = "activo", NEW h \in Hilos, TrabajoPropio(h, pc[h], loc[h]), pc[h] \notin PcAbre,
         NEW r, FinEnvio(h, r)
  PROVE  PrimeraOK'
<1>1. PICK sig \in {"ack_is_connected", "responder"} : \E l : Va(h, sig, l)
  BY DEF FinEnvio
<1> QED
  BY <1>1, VaSuelto DEF PcSuelto

LEMMA EnvioPrimera ==
  ASSUME UnHilo, IInv, estado = "activo", NEW h \in Hilos, TrabajoPropio(h, pc[h], loc[h]),
         EnvioResolver(h) \/ EnvioConectar(h) \/ EnvioEntregar(h)
  PROVE  PrimeraOK'
<1>1. pc[h] \in {"resolver", "conectar", "entregar"} /\ pc[h] \notin PcAbre
  BY DEF EnvioResolver, EnvioConectar, EnvioEntregar, En, PcAbre
<1>2. FicherosPropios(h, pc[h]) /\ loc[h] \in Local /\ loc[h].IP \in IPs
  BY <1>1 DEF IInv, HilosOK, TrabajoPropio, DireccionPropia
<1>3. ASSUME NEW r, FinEnvio(h, r) PROVE PrimeraOK'
  BY <1>1, <1>3, FinEnvioPrimera
<1>4. CASE EnvioResolver(h)
  BY <1>1, <1>2, <1>3, <1>4, ResuelvePrimera DEF EnvioResolver
<1>5. CASE EnvioConectar(h)
  <2> DEFINE d == <<hostent, loc[h].port>>
             l == [loc[h] EXCEPT !.dir = d]
  <2>1. l.IP = loc[h].IP /\ l.dir = d
    BY <1>2 DEF Local
  <2>2. FinEnvio(h, 3) \/ (d \in escuchando /\ Va(h, "entregar", l))
    BY <1>5 DEF EnvioConectar
  <2> HIDE DEF d, l
  <2>3. d \in escuchando => TrabajoPropio(h, "entregar", l)
    BY <1>1, <1>2, <2>1, FicherosEnteros DEF TrabajoPropio, EscrituraPropia, DireccionPropia, Llega
  <2> QED
    BY <1>3, <2>2, <2>3, VaPrimera DEF Va, disco, estaticas, clientes, cotas
<1>6. CASE EnvioEntregar(h)
  <2> DEFINE l == [loc[h] EXCEPT !.lote = Tail(@)]
  <2>1. l.IP = loc[h].IP
    BY <1>2 DEF Local
  <2>2. loc[h].dir \in escuchando \/ muertes > 0
    BY <1>6 DEF EnvioEntregar, En, TrabajoPropio, DireccionPropia, Llega
  <2>3. \/ \E t : Transmite(h, t, "resolver", l)
        \/ Va(h, "resolver", l) \/ FinEnvio(h, 3)
        \/ loc[h].dir \notin escuchando /\ Cae("SIGPIPE")
    BY <1>6 DEF EnvioEntregar
  <2> HIDE DEF l
  <2>4. TrabajoPropio(h, "resolver", l)
    BY <1>1, <1>2, <2>1, FicherosEnteros DEF TrabajoPropio, EscrituraPropia, DireccionPropia
  <2>5. CASE Va(h, "resolver", l)
    BY <2>4, <2>5, VaPrimera DEF Va, disco, estaticas, clientes, cotas
  <2>6. CASE \E t : Transmite(h, t, "resolver", l)
    BY <2>4, <2>6, TransmitePrimera
  <2>7. CASE loc[h].dir \notin escuchando /\ Cae("SIGPIPE")
    BY <2>2, <2>7, CaePrimera
  <2> QED
    BY <1>3, <2>3, <2>5, <2>6, <2>7
<1> QED
  BY <1>4, <1>5, <1>6

LEMMA AckPrimera ==
  ASSUME UnHilo, IInv, estado = "activo", NEW h \in Hilos, TrabajoPropio(h, pc[h], loc[h]), envio_ack(h)
  PROVE  PrimeraOK'
<1>1. pc[h] \in PcAck /\ pc[h] # "libre" /\ pc[h] \notin PcAbre
  BY DEF envio_ack, AckIsConnected, AckResolver, AckConectar, AckIdAccess, AckIdLeer, IdAccess, IdLeer, AckEnviar, En,
         PcAck, PcAbre
<1>2. alias(h) \in Alias /\ FicherosPropios(h, pc[h]) /\ loc[h] \in Local
  BY <1>1, TienePeticion DEF IInv, HilosOK, TrabajoPropio
<1>3. CASE Sigue(h, "responder") \/ \E r : Devuelve(h, r, "responder")
  BY <1>1, <1>3, VaSuelto DEF PcSuelto
<1>4. CASE AckIsConnected(h)
  <2>1. ASSUME NEW reg \in Lecturas(alias(h)), reg.status = Conectado,
               Va(h, "ack_resolver", [loc[h] EXCEPT !.IP = IPde(reg), !.port = reg.port, !.res = 0])
        PROVE  PrimeraOK'
    <3>1. PICK l : Va(h, "ack_resolver", l) /\ l.IP \in IPs /\ Llega(<<l.IP, l.port>>)
      BY <1>1, <1>2, <2>1, ConsultaPropia
    <3>2. TrabajoPropio(h, "ack_resolver", l)
      BY <1>1, <1>2, <3>1, FicherosEnteros DEF TrabajoPropio, EscrituraPropia, DireccionPropia
    <3> QED
      BY <3>1, <3>2, VaPrimera DEF Va, disco, estaticas, clientes, cotas
  <2>2. \A reg \in Lecturas(alias(h)) : reg.status = Conectado => reg.vivos
    BY <1>1, <1>2, ConsultaPropia
  <2> QED
    BY <1>3, <1>4, <2>1, <2>2 DEF AckIsConnected, is_connected
<1>5. CASE AckResolver(h)
  <2>1. loc[h].IP \in IPs /\ Llega(<<loc[h].IP, loc[h].port>>)
    BY <1>5 DEF AckResolver, En, TrabajoPropio, DireccionPropia
  <2>2. [loc[h] EXCEPT !.res = 3].IP = loc[h].IP
    BY <1>2 DEF Local
  <2> QED
    BY <1>1, <1>2, <1>5, <2>1, <2>2, ResuelvePrimera DEF AckResolver
<1>6. CASE AckConectar(h)
  <2> DEFINE d == <<hostent, loc[h].port>>
             l == [loc[h] EXCEPT !.dir = d]
  <2>1. Llega(d)
    BY <1>6 DEF AckConectar, En, TrabajoPropio, DireccionPropia
  <2>2. (d \notin escuchando /\ Cae("SIGPIPE")) \/ Va(h, "ack_id_access", l)
    BY <1>6 DEF AckConectar
  <2>3. l.dir = d
    BY <1>2 DEF Local
  <2> HIDE DEF d, l
  <2>4. TrabajoPropio(h, "ack_id_access", l)
    BY <1>1, <1>2, <2>1, <2>3, FicherosEnteros DEF TrabajoPropio, EscrituraPropia, DireccionPropia
  <2>5. CASE d \notin escuchando /\ Cae("SIGPIPE")
    BY <2>1, <2>5, CaePrimera DEF Llega
  <2> QED
    BY <2>2, <2>4, <2>5, VaPrimera DEF Va, disco, estaticas, clientes, cotas
<1>7. CASE AckIdAccess(h) \/ AckIdLeer(h)
  <2>1. dest(h) \in Alias /\ Llega(loc[h].dir)
    BY <1>1, <1>7, TienePeticion
    DEF AckIdAccess, AckIdLeer, IdAccess, IdLeer, En, IInv, TrabajoPropio, DireccionPropia
  <2>2. \/ Va(h, "ack_id_leer", loc[h])
        \/ \E id \in Int : Va(h, "ack_enviar", [loc[h] EXCEPT !.ultimo = id])
    BY <1>7, <2>1, UltimoLeido DEF AckIdAccess, AckIdLeer, IInv
  <2>3. \A id : [loc[h] EXCEPT !.ultimo = id].dir = loc[h].dir
    BY <1>2 DEF Local
  <2>4. PICK sig \in {"ack_id_leer", "ack_enviar"} : \E l : Va(h, sig, l) /\ Llega(l.dir)
    BY <2>1, <2>2, <2>3
  <2>5. PICK l : Va(h, sig, l) /\ Llega(l.dir)
    BY <2>4
  <2>6. TrabajoPropio(h, sig, l)
    BY <1>1, <1>2, <2>5, FicherosEnteros DEF TrabajoPropio, EscrituraPropia, DireccionPropia
  <2> QED
    BY <2>5, <2>6, VaPrimera DEF Va, disco, estaticas, clientes, cotas
<1>8. CASE AckEnviar(h)
  <2>1. loc[h].dir \in escuchando \/ muertes > 0
    BY <1>8 DEF AckEnviar, En, TrabajoPropio, DireccionPropia, Llega
  <2>2. ASSUME NEW t, Transmite(h, t, "responder", loc[h]) PROVE PrimeraOK'
    <3>1. TrabajoPropio(h, "responder", loc[h])
      BY <1>1, <1>2, FicherosEnteros, Suelto DEF TrabajoPropio, PcSuelto
    <3> QED
      BY <2>2, <3>1, TransmitePrimera
  <2>3. CASE loc[h].dir \notin escuchando /\ Cae("SIGPIPE")
    BY <2>1, <2>3, CaePrimera
  <2> QED
    BY <1>3, <1>8, <2>2, <2>3 DEF AckEnviar
<1> QED
  BY <1>4, <1>5, <1>6, <1>7, <1>8 DEF envio_ack

LEMMA FinPrimera ==
  ASSUME UnHilo, IInv, estado = "activo", NEW h \in Hilos, TrabajoPropio(h, pc[h], loc[h]),
         OpInvalida(h) \/ Responder(h) \/ UltimoIdAccess(h) \/ UltimoIdLeer(h) \/ Cerrar(h)
  PROVE  PrimeraOK'
<1>1. pc[h] \notin PcAbre /\ FicherosPropios(h, pc[h])
  BY DEF OpInvalida, Responder, UltimoIdAccess, UltimoIdLeer, IdAccess, IdLeer, Cerrar, En, PcAbre, TrabajoPropio
<1>2. CASE OpInvalida(h)
  BY <1>2, CaePrimera DEF OpInvalida
<1>3. CASE Responder(h) \/ UltimoIdAccess(h) \/ UltimoIdLeer(h)
  <2>1. PICK sig \in {"id_access", "id_leer", "cerrar"} : \E l : Va(h, sig, l)
    BY <1>3 DEF Responder, UltimoIdAccess, UltimoIdLeer, IdAccess, IdLeer, Sigue
  <2> QED
    BY <1>1, <2>1, VaSuelto DEF PcSuelto
<1>4. CASE Cerrar(h)
  <2>1. /\ UNCHANGED <<perfiles, mensajes, estado, escuchando, muertes>> /\ pc'[h] = "libre"
    BY <1>4 DEF Cerrar, Mueve, IInv, HilosOK, disco, clientes, cotas
  <2>2. FicherosPropios(h, pc[h])'
    BY <1>1, <2>1 DEF FicherosPropios, PcAbre, Completo, Propio, Llega
  <2>3. EscrituraPropia(h, pc[h], loc[h])' /\ DireccionPropia(h, pc[h], loc[h])'
    BY <2>1 DEF EscrituraPropia, DireccionPropia
  <2> QED
    BY <2>1, <2>2, <2>3, ArmaPrimera DEF TrabajoPropio
<1> QED
  BY <1>2, <1>3, <1>4

LEMMA RecibirPrimera ==
  ASSUME UnHilo, IInv, NEW h \in Hilos, TrabajoPropio(h, pc[h], loc[h]), Recibir(h)
  PROVE  PrimeraOK'
<1>1. PICK p \in Peticiones :
        /\ pc'[h] = Entrada(p.op) /\ pet'[h] = p
        /\ address_thread' = IF p.op = "CONNECT" THEN p.IP ELSE address_thread
        /\ escuchando' = IF p.op = "CONNECT" THEN escuchando \cup {<<p.IP, p.port>>} ELSE escuchando
  BY DEF Recibir, Mueve, IInv, HilosOK
<1>2. pc[h] = "libre" /\ estado = "activo" /\ UNCHANGED <<perfiles, mensajes, estado, muertes>>
  BY DEF Recibir, En, disco
<1>3. /\ Entrada(p.op) \in {"reg_access", "baja_access_perfil", "con_ntop", "des_access", "env_remitente", "op_invalida"}
      /\ Entrada(p.op) = "con_ntop" => p.op = "CONNECT"
  BY DEF Entrada
<1>4. FicherosPropios(h, pc[h])'
  <2>1. FicherosPropios(h, pc[h]) /\ escuchando \subseteq escuchando'
    BY <1>1 DEF TrabajoPropio
  <2> QED
    BY <1>2, <2>1 DEF FicherosPropios, Completo, Propio, Llega
<1>5. EscrituraPropia(h, pc[h], loc[h])'
  BY <1>1, <1>3 DEF EscrituraPropia
<1>6. DireccionPropia(h, pc[h], loc[h])'
  BY <1>1, <1>3 DEF DireccionPropia, Llega
<1> QED
  BY <1>2, <1>4, <1>5, <1>6, ArmaPrimera DEF TrabajoPropio

LEMMA EntornoPrimera ==
  ASSUME IInv, PrimeraOK, (\E d \in Dirs : ClienteMuere(d)) \/ Matar \/ Reiniciar \/ UNCHANGED vars
  PROVE  PrimeraOK'
<1>1. CASE Matar
  BY <1>1, CaePrimera DEF Matar
<1>2. CASE Reiniciar
  BY <1>2 DEF Reiniciar, PrimeraOK, SoloCaeConMotivo, IInv, GlobalOK
<1>3. CASE ~Matar /\ ~Reiniciar
  <2>1. /\ UNCHANGED <<perfiles, mensajes, address_thread, hostent, estado, pc, pet, abierto, loc, arranques>>
        /\ \A d : Llega(d) => Llega(d)'
        /\ muertes > 0 => muertes' > 0
    BY <1>3 DEF ClienteMuere, vars, disco, estaticas, hilos, clientes, cotas, Llega, IInv, GlobalOK
  <2>2. SoloCaeConMotivo'
    BY <2>1 DEF PrimeraOK, SoloCaeConMotivo
  <2>3. \A p : Propio(p) => Propio(p)'
    BY <2>1 DEF Propio
  <2>4. ASSUME NEW h \in Hilos, TrabajoPropio(h, pc[h], loc[h]) PROVE TrabajoPropio(h, pc[h], loc[h])'
    <3>1. FicherosPropios(h, pc[h])'
      BY <2>1, <2>3, <2>4 DEF TrabajoPropio, FicherosPropios, Completo, alias
    <3>2. EscrituraPropia(h, pc[h], loc[h])'
      BY <2>1, <2>3, <2>4 DEF TrabajoPropio, EscrituraPropia, Destino, alias, dest
    <3>3. DireccionPropia(h, pc[h], loc[h])'
      BY <2>1, <2>4 DEF TrabajoPropio, DireccionPropia
    <3> QED
      BY <3>1, <3>2, <3>3 DEF TrabajoPropio
  <2> QED
    BY <2>1, <2>2, <2>4 DEF PrimeraOK
<1> QED
  BY <1>1, <1>2, <1>3

LEMMA InitPrimera == Init => PrimeraOK
<1> SUFFICES ASSUME Init PROVE PrimeraOK
  OBVIOUS
<1>1. ASSUME NEW a \in Alias
      PROVE  /\ perfiles[a] = NoHay \/ (perfiles[a] = [PerfilNuevo EXCEPT !.vivos = FALSE] /\ mensajes[a] # NoHay)
  BY FicherosAparte, EmptySeq DEF Init
<1>2. [PerfilNuevo EXCEPT !.vivos = FALSE] \in Perfil /\ Propio([PerfilNuevo EXCEPT !.vivos = FALSE])
  BY PerfilNuevoEsPerfil DEF Perfil, PerfilNuevo, Propio, Conectado, Desconectado
<1>3. ASSUME NEW h \in Hilos PROVE TrabajoPropio(h, pc[h], loc[h])
  <2>1. pc[h] = "libre"
    BY DEF Init, Arranque
  <2>2. FicherosPropios(h, pc[h])
    BY <1>1, <1>2, FicherosAparte DEF FicherosPropios, Completo
  <2> QED
    BY <2>1, <2>2, Suelto DEF TrabajoPropio, PcSuelto
<1>4. SoloCaeConMotivo
  BY DEF Init, Arranque, SoloCaeConMotivo
<1> QED
  BY <1>3, <1>4 DEF PrimeraOK

(* A thread works only while the process runs, and restarts nothing.       *)
LEMMA TrabajaEnMarcha ==
  ASSUME NEW h \in Hilos, tratar_mensaje(h)
  PROVE  estado = "activo" /\ arranques' = arranques
<1>1. ASSUME NEW sig, NEW l, Va(h, sig, l) PROVE arranques' = arranques
  BY <1>1 DEF Va, cotas
<1>2. ASSUME NEW causa, Cae(causa) PROVE arranques' = arranques
  BY <1>2 DEF Cae, cotas
<1>3. /\ \A sig : (Sigue(h, sig) \/ \E r : Devuelve(h, r, sig)) => arranques' = arranques
      /\ \A r : FinEnvio(h, r) => arranques' = arranques
      /\ \A sig, l : Resuelve(h, sig, l) => arranques' = arranques
      /\ \A t, sig, l : Transmite(h, t, sig, l) => arranques' = arranques
  BY <1>1, <1>2 DEF Sigue, Devuelve, FinEnvio, Resuelve, Transmite, cotas
<1>4. CASE register_gestiones(h) \/ unregister_gestiones(h)
  BY <1>3, <1>4
  DEF register_gestiones, RegAccess, RegPerfil, CreaPerfil, RegMensajes, CreaMensajes, RegSoloMensajes,
      RegEscribir, EscribePerfil, unregister_gestiones, BajaAccessPerfil, BajaAccessMensajes, Access,
      BajaPerfil, BajaMensajes, En, cotas
<1>5. CASE connect_gestiones(h) \/ disconnect_gestiones(h)
  BY <1>1, <1>3, <1>5
  DEF connect_gestiones, ConNtop, TomaDireccion, ConAccess, Access, ConLeer, ConEscribir, EscribeConexion,
      EscribePerfil, AbrePerfil, disconnect_gestiones, DesAccess, DesLeer, DesEscribir, En, cotas
<1>6. CASE send_to_server_gestiones(h)
  BY <1>3, <1>6
  DEF send_to_server_gestiones, EnvRemitente, EnvMensajes, EnvPerfil, Access, EnvLeer, AbrePerfil,
      EnvEscribir, EscribeContador, EscribePerfil, EnvAbrir, EnvAnexar, En, cotas
<1>7. CASE IsConnected(h) \/ NumMensajesPendientes(h)
  BY <1>1, <1>2, <1>3, <1>7
  DEF IsConnected, is_connected, NumMensajesPendientes, NumMayorQue, Lee, En
<1>8. CASE envio_mensajes_pendientes(h)
  BY <1>1, <1>2, <1>3, <1>8
  DEF envio_mensajes_pendientes, Contar, ContarComo, ExtraerIDs, ExtraerRemitentes, ExtraerMensajes, Lee,
      VaciarMensajes, DejaBuzon, EnvioResolver, EnvioConectar, EnvioEntregar, En, cotas
<1>9. CASE envio_ack(h)
  BY <1>1, <1>2, <1>3, <1>9
  DEF envio_ack, AckIsConnected, is_connected, AckResolver, AckConectar, AckIdAccess, AckIdLeer, IdAccess, IdLeer,
      AckEnviar, En
<1>10. CASE OpInvalida(h) \/ Responder(h) \/ UltimoIdAccess(h) \/ UltimoIdLeer(h) \/ Cerrar(h)
  BY <1>1, <1>2, <1>3, <1>10
  DEF OpInvalida, Responder, UltimoIdAccess, UltimoIdLeer, IdAccess, IdLeer, Cerrar, En, cotas
<1> QED
  BY <1>4, <1>5, <1>6, <1>7, <1>8, <1>9, <1>10 DEF tratar_mensaje

LEMMA PasoPrimera == UnHilo /\ IInv /\ PrimeraOK /\ [Next]_vars => PrimeraOK'
<1> SUFFICES ASSUME UnHilo, IInv, PrimeraOK, [Next]_vars PROVE PrimeraOK'
  OBVIOUS
<1>1. ASSUME arranques' # 0 PROVE PrimeraOK'
  BY <1>1 DEF PrimeraOK, SoloCaeConMotivo
<1>2. ASSUME NEW h \in Hilos, tratar_mensaje(h), arranques = 0 PROVE PrimeraOK'
  <2>1. estado = "activo" /\ TrabajoPropio(h, pc[h], loc[h])
    BY <1>2, TrabajaEnMarcha DEF PrimeraOK
  <2> QED
    BY <1>2, <2>1, RegisterPrimera, UnregisterPrimera, ConnectPrimera, DisconnectPrimera, SendPrimera,
       IsConnectedPrimera, LecturaPrimera, VaciarPrimera, EnvioPrimera, AckPrimera, FinPrimera
    DEF tratar_mensaje, envio_mensajes_pendientes
<1>3. ASSUME NEW h \in Hilos, Recibir(h), arranques = 0 PROVE PrimeraOK'
  BY <1>3, RecibirPrimera DEF PrimeraOK, Recibir, En
<1>4. ASSUME NEW h \in Hilos, Recibir(h) PROVE arranques' = arranques
  BY <1>4 DEF Recibir
<1> QED
  BY <1>1, <1>2, <1>3, <1>4, TrabajaEnMarcha, EntornoPrimera DEF Next

(* In its first run a server of one thread gets a SIGPIPE only once a      *)
(* client has died (server.c:302-314) and, while its files open, ends by   *)
(* itself in no other way: no order of requests makes it follow a bad      *)
(* pointer or miss a mailbox.                                              *)
THEOREM MuereConMotivo == UnHilo => (Spec => []SoloCaeConMotivo)
<1> SUFFICES ASSUME UnHilo PROVE Spec => []SoloCaeConMotivo
  OBVIOUS
<1>1. IInv /\ PrimeraOK /\ [Next]_vars => PrimeraOK'
  BY PasoPrimera
<1>2. PrimeraOK => SoloCaeConMotivo
  BY DEF PrimeraOK
<1> QED
  BY <1>1, <1>2, InitPrimera, SpecIInv, PTL DEF Spec
=============================================================================
