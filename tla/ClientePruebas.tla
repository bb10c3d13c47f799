--------------------------- MODULE ClientePruebas ---------------------------
(***************************************************************************)
(* Proofs about Cliente, for any sets of requests, listeners, results and  *)
(* texts, with kills of the client and failures of the server at any step: *)
(* DISCONNECT stops the listeners; a listener shows whole texts in their   *)
(* order; the server acts on the fields the user gave; the window shows    *)
(* the answer; and a code that is no operation is a client's that went.    *)
(***************************************************************************)
EXTENDS ClienteCampos

-----------------------------------------------------------------------------
(* The listeners after DISCONNECT.                                         *)

(* A listener that has shown a text after DISCONNECT has ended, or is      *)
(* about to look at _keep_running, which is down.                          *)
Cuenta(o) ==
  /\ DOMAIN oy[o] = DOMAIN OyenteLibre
  /\ oy[o].tras \in {0, 1}
  /\ oy[o].tras = 1 => oy[o].pc \in {"fin", "muerto"} \/ (oy[o].pc = "mira" /\ fuera)

(* UnaTrasDesconectar is not inductive: it says nothing of where a         *)
(* listener is after that text, nor of the flag that it will look at.      *)
Parados ==
  /\ DOMAIN oy = Oyentes
  /\ fuera => corriendo = FALSE
  /\ \A o \in Oyentes : Cuenta(o)

LEMMA InitParados == Init => Parados
  BY DEF Init, Parados, Cuenta, OyenteLibre

(* The steps that leave the listeners and their flag as they are.          *)
LEMMA SinTocarParados ==
  ASSUME Parados, UNCHANGED <<corriendo, oy, fuera>>
  PROVE  Parados'
  BY DEF Parados, Cuenta

(* What a listener does to itself.                                         *)
LEMMA OyenteParados ==
  ASSUME Parados, NEW o \in Oyentes, NEW r, Oyente(o, r),
         DOMAIN r = DOMAIN OyenteLibre, r.tras \in {0, 1},
         r.tras = 1 => r.pc \in {"fin", "muerto"} \/ (r.pc = "mira" /\ fuera)
  PROVE  Parados'
<1>1. oy' = [oy EXCEPT ![o] = r] /\ corriendo' = corriendo /\ fuera' = fuera
  BY DEF Oyente
<1>2. DOMAIN oy' = Oyentes /\ oy'[o] = r /\ \A q \in Oyentes \ {o} : oy'[q] = oy[q]
  BY <1>1 DEF Parados
<1>3. \A q \in Oyentes : Cuenta(q)'
  BY <1>1, <1>2 DEF Parados, Cuenta
<1> QED  BY <1>1, <1>2, <1>3 DEF Parados

LEMMA MirarParados ==
  ASSUME Parados, NEW o \in Oyentes, Mirar(o)
  PROVE  Parados'
<1> DEFINE r == [oy[o] EXCEPT !.pc = IF corriendo THEN "acepta" ELSE "fin"]
<1>1. Oyente(o, r) /\ oy[o].pc = "mira"
  BY DEF Mirar, MiraSi, EnOyente
<1>2. Cuenta(o) /\ (fuera => corriendo = FALSE)
  BY DEF Parados
<1>3. DOMAIN r = DOMAIN OyenteLibre /\ r.tras = oy[o].tras /\ r.pc = IF corriendo THEN "acepta" ELSE "fin"
  BY <1>2 DEF Cuenta, OyenteLibre
<1>4. r.tras = 1 => r.pc = "fin"
  BY <1>1, <1>2, <1>3 DEF Cuenta
<1> QED  BY <1>1, <1>2, <1>3, <1>4, OyenteParados DEF Cuenta

LEMMA AceptarParados ==
  ASSUME Parados, NEW o \in Oyentes, Aceptar(o)
  PROVE  Parados'
<1> DEFINE r == [oy[o] EXCEPT !.pc = "lee", !.e = Head(oy[o].cola), !.cola = Tail(@)]
<1>1. Oyente(o, r) /\ oy[o].pc = "acepta"
  BY DEF Aceptar, EnOyente
<1>2. Cuenta(o)
  BY DEF Parados
<1>3. DOMAIN r = DOMAIN OyenteLibre /\ r.tras = oy[o].tras
  BY <1>2 DEF Cuenta, OyenteLibre
<1>4. r.tras = 0
  BY <1>1, <1>2, <1>3 DEF Cuenta
<1> HIDE DEF r
<1> QED  BY <1>1, <1>3, <1>4, OyenteParados

LEMMA LeerEntregaParados ==
  ASSUME Parados, NEW o \in Oyentes, LeerEntrega(o)
  PROVE  Parados'
<1> DEFINE r == [oy[o] EXCEPT !.pc = "mira", !.tras = IF fuera THEN @ + 1 ELSE @,
                              !.mostrados = Append(@, [e |-> oy[o].e, campos |-> Campos(Flujo(o))])]
<1>1. Oyente(o, r) /\ oy[o].pc = "lee"
  BY DEF LeerEntrega, EnOyente
<1>2. Cuenta(o)
  BY DEF Parados
<1>3. oy[o].tras = 0
  BY <1>1, <1>2 DEF Cuenta
<1>4. DOMAIN r = DOMAIN OyenteLibre /\ r.pc = "mira" /\ r.tras = IF fuera THEN oy[o].tras + 1 ELSE oy[o].tras
  BY <1>2 DEF Cuenta, OyenteLibre
<1> HIDE DEF r
<1> QED  BY <1>1, <1>3, <1>4, OyenteParados

LEMMA LeerMalParados ==
  ASSUME Parados, NEW o \in Oyentes, LeerRara(o) \/ LeerCortada(o)
  PROVE  Parados'
<1> DEFINE r(fin) == [oy[o] EXCEPT !.pc = fin]
<1>1. PICK fin \in {"muerto", "colgado"} : Oyente(o, r(fin))
  BY DEF LeerRara, LeerCortada
<1>2. Cuenta(o) /\ oy[o].pc = "lee"
  BY DEF Parados, LeerRara, LeerCortada, EnOyente
<1>3. DOMAIN r(fin) = DOMAIN OyenteLibre /\ r(fin).tras = oy[o].tras
  BY <1>2 DEF Cuenta, OyenteLibre
<1>4. r(fin).tras = 0
  BY <1>2, <1>3 DEF Cuenta
<1> HIDE DEF r
<1> QED  BY <1>1, <1>3, <1>4, OyenteParados

(* DISCONNECT lets the flag down; a CONNECT puts it up and begins to count *)
(* again; a kill ends the listeners.                                       *)
LEMMA MuestraParados ==
  ASSUME Parados, NEW id, Muestra(id, FALSE)
  PROVE  Parados'
<1>1. CASE UNCHANGED <<corriendo, oy, fuera>>
  BY <1>1, SinTocarParados
<1>2. CASE /\ corriendo' = FALSE /\ fuera' = TRUE
           /\ oy' = [o \in Oyentes |-> [oy[o] EXCEPT !.dejado = TRUE]]
  <2>1. ASSUME NEW o \in Oyentes PROVE Cuenta(o)'
    <3>1. Cuenta(o) /\ oy'[o] = [oy[o] EXCEPT !.dejado = TRUE]
      BY <1>2 DEF Parados
    <3>2. DOMAIN oy'[o] = DOMAIN OyenteLibre /\ oy'[o].tras = oy[o].tras /\ oy'[o].pc = oy[o].pc
      BY <3>1 DEF Cuenta, OyenteLibre
    <3> QED  BY <1>2, <3>1, <3>2 DEF Cuenta
  <2> QED  BY <1>2, <2>1 DEF Parados
<1> QED  BY <1>1, <1>2 DEF Muestra, SinCambios

LEMMA ConnectParados ==
  ASSUME Parados, PulsarConnect
  PROVE  Parados'
<1> DEFINE o == CHOOSE q \in Oyentes : oy[q].pc = "libre"
<1>1. oy' = [q \in Oyentes |-> IF q = o THEN [OyenteLibre EXCEPT !.pc = "mira"]
                                         ELSE [oy[q] EXCEPT !.tras = 0]]
  BY DEF PulsarConnect
<1> HIDE DEF o
<1>2. corriendo' = TRUE /\ fuera' = FALSE
  BY DEF PulsarConnect
<1>3. ASSUME NEW q \in Oyentes PROVE Cuenta(q)'
  <2>1. CASE q = o
    BY <1>1, <2>1 DEF Cuenta, OyenteLibre
  <2>2. CASE q # o
    <3>1. Cuenta(q) /\ oy'[q] = [oy[q] EXCEPT !.tras = 0]
      BY <1>1, <2>2 DEF Parados
    <3>2. DOMAIN oy'[q] = DOMAIN OyenteLibre /\ oy'[q].tras = 0
      BY <3>1 DEF Cuenta, OyenteLibre
    <3> QED  BY <3>2 DEF Cuenta
  <2> QED  BY <2>1, <2>2
<1> QED  BY <1>1, <1>2, <1>3 DEF Parados

LEMMA MatarParados ==
  ASSUME Parados, Matar
  PROVE  Parados'
<1>1. /\ corriendo' = FALSE /\ fuera' = FALSE
      /\ oy' = [o \in Oyentes |-> [oy[o] EXCEPT !.pc = IF Escucha(o) THEN "muerto" ELSE @]]
  BY DEF Matar
<1>2. ASSUME NEW o \in Oyentes PROVE Cuenta(o)'
  <2>1. Cuenta(o) /\ oy'[o] = [oy[o] EXCEPT !.pc = IF Escucha(o) THEN "muerto" ELSE @]
    BY <1>1 DEF Parados
  <2>2. /\ DOMAIN oy'[o] = DOMAIN OyenteLibre /\ oy'[o].tras = oy[o].tras
        /\ oy'[o].pc = IF Escucha(o) THEN "muerto" ELSE oy[o].pc
    BY <2>1 DEF Cuenta, OyenteLibre
  <2> QED  BY <2>1, <2>2 DEF Cuenta, Escucha
<1> QED  BY <1>1, <1>2 DEF Parados

LEMMA EntregarParados ==
  ASSUME Parados, Entregar
  PROVE  Parados'
<1>1. PICK o \in Oyentes : oy' = [oy EXCEPT ![o].cola = Append(@, Len(ent) + 1)]
  BY DEF Entregar
<1>2. corriendo' = corriendo /\ fuera' = fuera
  BY DEF Entregar
<1>3. ASSUME NEW q \in Oyentes PROVE Cuenta(q)'
  <2>1. Cuenta(q)
    BY DEF Parados
  <2>2. DOMAIN oy'[q] = DOMAIN OyenteLibre /\ oy'[q].tras = oy[q].tras /\ oy'[q].pc = oy[q].pc
    BY <1>1, <2>1 DEF Parados, Cuenta, OyenteLibre
  <2> QED  BY <1>2, <2>1, <2>2 DEF Cuenta
<1> QED  BY <1>1, <1>2, <1>3 DEF Parados

(* Every step.                                                             *)
LEMMA VentanaParados ==
  ASSUME Parados, ventana_sigue
  PROVE  Parados'
<1>1. CASE Enviar \/ LeerRespuestaRara \/ LeerRespuestaCortada
  BY <1>1, SinTocarParados DEF Enviar, EnviaHasta, LeerRespuestaRara, LeerRespuestaCortada, Rompe, SinCambios
<1>2. CASE Mostrar
  BY <1>2, MuestraParados DEF Mostrar
<1>3. CASE MostrarConId
  BY <1>3, MuestraParados, SinTocarParados DEF MostrarConId, Rompe, SinCambios
<1> QED  BY <1>1, <1>2, <1>3 DEF ventana_sigue

LEMMA PasoParados == Parados /\ [Next]_vars => Parados'
<1> SUFFICES ASSUME Parados, [Next]_vars PROVE Parados'
  OBVIOUS
<1>1. CASE UNCHANGED vars
  BY <1>1, SinTocarParados DEF vars
<1>2. CASE Pulsar \/ PulsarSend \/ SinServicioWeb \/ Salir \/ CaerServidor
  BY <1>2, SinTocarParados DEF Pulsar, PulsarSend, SinServicioWeb, Salir, CaerServidor
<1>3. CASE PulsarConnect
  BY <1>3, ConnectParados
<1>4. CASE Matar
  BY <1>4, MatarParados
<1>5. CASE Entregar
  BY <1>5, EntregarParados
<1>6. CASE ventana_sigue
  BY <1>6, VentanaParados
<1>7. CASE \E i \in 1..MaxPet : hilo(i)
  <2>1. UNCHANGED <<corriendo, oy, fuera>>
    BY <1>7 DEF hilo, Atender, CodigoNoValido, Responder, RespondeYCierra, ResponderEnVano, Hilo, CaeConTodos
  <2> QED  BY <2>1, SinTocarParados
<1>8. CASE \E e \in 1..MaxEnt : EscribirEntrega(e) \/ EscribirEnVano(e)
  BY <1>8, SinTocarParados DEF EscribirEntrega, EscribirEnVano
<1>9. CASE \E o \in Oyentes : oyente(o)
  BY <1>9, MirarParados, AceptarParados, LeerEntregaParados, LeerMalParados DEF oyente
<1> QED  BY <1>1, <1>2, <1>3, <1>4, <1>5, <1>6, <1>7, <1>8, <1>9 DEF Next, Sigue

(* After DISCONNECT has been answered OK a listener shows one text more at *)
(* most, until the user connects again (client.py:258, 423).               *)
THEOREM ParaTrasDesconectar == Spec => []UnaTrasDesconectar
<1>1. Spec => []Parados
  BY InitParados, PasoParados, PTL DEF Spec
<1>2. Parados => UnaTrasDesconectar
  BY DEF Parados, Cuenta, UnaTrasDesconectar
<1> QED  BY <1>1, <1>2, PTL

-----------------------------------------------------------------------------
(* What the listeners show.                                                *)

(* What a delivery, a text that was shown and a listener are made of.      *)
Entrega == [o : Oyentes, campos : Entregas, flujo : Seq(Cadena), entera : BOOLEAN, cerrado : BOOLEAN, roto : BOOLEAN]
Mostrado == [e : Nat, campos : Entregas]
EstadoOyente == [pc : PcsOyente, cola : Seq(Nat), e : Nat, mostrados : Seq(Mostrado), tras : Nat, dejado : BOOLEAN]

(* What has come of a delivery, and that it is over if the server is.      *)
EntregaBien(d) ==
  /\ d.flujo \in {<<>>, Piezas(d.campos), Cortada(d.campos)}
  /\ d.cerrado \/ servidor = "vivo"

EsDe(e, o) == e \in DOMAIN ent /\ ent[e].o = o

(* What a listener has shown comes before what it reads, and this before   *)
(* what waits for it.                                                      *)
ColaBien(o) ==
  \A k \in 1..Len(oy[o].cola) :
    /\ EsDe(oy[o].cola[k], o)
    /\ oy[o].pc = "lee" => oy[o].e < oy[o].cola[k]
    /\ \A l \in 1..(k - 1) : oy[o].cola[l] < oy[o].cola[k]
MostradosBien(o) ==
  \A k \in 1..Len(oy[o].mostrados) :
    LET m == oy[o].mostrados[k]
    IN  /\ EsDe(m.e, o) /\ m.campos = ent[m.e].campos
        /\ oy[o].pc = "lee" => m.e < oy[o].e
        /\ \A l \in 1..Len(oy[o].cola) : m.e < oy[o].cola[l]
        /\ \A l \in 1..(k - 1) : oy[o].mostrados[l].e < m.e
EnOrden(o) == ColaBien(o) /\ MostradosBien(o) /\ (oy[o].pc = "lee" => EsDe(oy[o].e, o))

(* SoloEnteras is not inductive: a text that is shown is whole because all *)
(* but the end of it can come, and after the others because the listener   *)
(* takes those that wait in their order.                                   *)
Oidos ==
  /\ ent \in Seq(Entrega) /\ \A e \in DOMAIN ent : EntregaBien(ent[e])
  /\ oy \in [Oyentes -> EstadoOyente] /\ \A o \in Oyentes : EnOrden(o)

(* A text that can be read to its end is the one that was sent.            *)
LEMMA EntregaCompleta ==
  ASSUME NEW d \in Entrega, EntregaBien(d), Completa(Campos(d.flujo))
  PROVE  Campos(d.flujo) = d.campos
<1>1. d.campos \in Seq(Texto) /\ Completa(d.campos) /\ d.flujo \in Seq(Cadena) /\ d.campos # <<>>
  BY ClienteSano DEF Entrega, Completa
<1> DEFINE p == Campos(d.flujo)
           k == Len(d.campos)
<1>2. k \in Nat \ {0}
  BY <1>1, LenProperties, EmptySeq
<1>3. PICK m \in 0..k : LlevaHasta(d.flujo, d.campos, m) /\ (m = k \/ m < k)
  <2>1. CASE d.flujo = <<>>
    BY <1>2, <2>1 DEF LlevaHasta
  <2>2. CASE d.flujo = Piezas(d.campos)
    BY <1>1, <1>2, <2>2, LlevaPiezas
  <2>3. CASE d.flujo = Cortada(d.campos)
    BY <1>1, <1>2, <2>3, LlevaCortada
  <2> QED  BY <2>1, <2>2, <2>3 DEF EntregaBien
<1>4. p \in Seq(Texto) /\ Len(p) <= m /\ \A j \in 1..Len(p) : p[j] = d.campos[j]
  BY <1>1, <1>3, SoloCampos
<1> HIDE DEF p, k
<1>5. p # <<>> /\ Len(p) \in Nat \ {0}
  BY <1>4, LenProperties, EmptySeq DEF Completa, p
<1>6. p[1] = d.campos[1]
  BY <1>4, <1>5
<1>7. Len(p) = k
  BY <1>1, <1>6 DEF Completa, p, k
<1> QED  BY <1>1, <1>4, <1>7, SeqEqual DEF p, k

(* The deliveries keep what they are and whose; there may be more.         *)
Siguen ==
  \A e \in DOMAIN ent : e \in DOMAIN ent' /\ ent'[e].o = ent[e].o /\ ent'[e].campos = ent[e].campos

LEMMA SigueEnOrden ==
  ASSUME NEW o \in Oyentes, EnOrden(o), Siguen,
         oy'[o].cola = oy[o].cola, oy'[o].e = oy[o].e, oy'[o].mostrados = oy[o].mostrados,
         oy'[o].pc = "lee" => oy[o].pc = "lee"
  PROVE  EnOrden(o)'
<1>1. ASSUME NEW e, EsDe(e, o) PROVE EsDe(e, o)'
  BY <1>1 DEF EsDe, Siguen
<1>2. ColaBien(o)'
  BY <1>1 DEF EnOrden, ColaBien
<1>3. MostradosBien(o)'
  <2>1. ASSUME NEW k \in 1..Len(oy[o].mostrados) PROVE ent'[oy[o].mostrados[k].e].campos = ent[oy[o].mostrados[k].e].campos
    BY DEF EnOrden, MostradosBien, EsDe, Siguen
  <2> QED  BY <1>1, <2>1 DEF EnOrden, MostradosBien
<1> QED  BY <1>1, <1>2, <1>3 DEF EnOrden

LEMMA InitOidos == Init => Oidos
<1> SUFFICES ASSUME Init PROVE Oidos
  OBVIOUS
<1>1. ent \in Seq(Entrega) /\ DOMAIN ent = {}
  BY EmptySeq DEF Init
<1>2. OyenteLibre \in EstadoOyente
  BY EmptySeq DEF OyenteLibre, EstadoOyente, PcsOyente
<1>3. \A o \in Oyentes : oy[o] = OyenteLibre
  BY DEF Init
<1>4. \A o \in Oyentes : EnOrden(o)
  BY <1>3 DEF EnOrden, ColaBien, MostradosBien, OyenteLibre
<1>5. oy \in [Oyentes -> EstadoOyente]
  BY <1>2 DEF Init
<1> QED  BY <1>1, <1>4, <1>5 DEF Oidos

(* The steps that change no listener, and what each delivery is not.       *)
CambianLasEntregas ==
  /\ DOMAIN ent' = DOMAIN ent /\ ent' = [e \in DOMAIN ent |-> ent'[e]]
  /\ \A e \in DOMAIN ent : ent'[e] \in Entrega /\ EntregaBien(ent[e])'
                           /\ ent'[e].o = ent[e].o /\ ent'[e].campos = ent[e].campos

LEMMA CambianOidos ==
  ASSUME Oidos, CambianLasEntregas
  PROVE  ent' \in Seq(Entrega) /\ (\A e \in DOMAIN ent' : EntregaBien(ent[e])') /\ Siguen
<1>1. Len(ent) \in Nat /\ DOMAIN ent = 1..Len(ent)
  BY LenProperties DEF Oidos
<1>2. ent' \in [1..Len(ent) -> Entrega]
  BY <1>1 DEF CambianLasEntregas
<1>3. ent' \in Seq(Entrega)
  BY <1>1, <1>2
<1> QED  BY <1>3 DEF CambianLasEntregas, Siguen

LEMMA IgualesCambian ==
  ASSUME Oidos, UNCHANGED ent, servidor' = servidor
  PROVE  CambianLasEntregas
<1>1. ent = [e \in DOMAIN ent |-> ent[e]] /\ \A e \in DOMAIN ent : ent[e] \in Entrega
  BY LenProperties, ElementOfSeq DEF Oidos
<1> QED  BY <1>1 DEF Oidos, CambianLasEntregas, EntregaBien

LEMMA CaeCambian ==
  ASSUME Oidos, NEW causa, Cae(causa)
  PROVE  CambianLasEntregas
<1>1. PICK llega \in BOOLEAN :
        ent' = [e \in DOMAIN ent |-> IF ent[e].cerrado THEN ent[e]
                 ELSE [ent[e] EXCEPT !.flujo = IF llega THEN Cortada(ent[e].campos) ELSE @, !.cerrado = TRUE]]
  BY DEF Cae
<1>2. ASSUME NEW e \in DOMAIN ent
      PROVE  ent'[e] \in Entrega /\ EntregaBien(ent[e])' /\ ent'[e].o = ent[e].o /\ ent'[e].campos = ent[e].campos
  <2>1. ent[e] \in Entrega /\ EntregaBien(ent[e])
    BY LenProperties, ElementOfSeq DEF Oidos
  <2>2. ent[e].campos \in Seq(Texto) /\ ent[e].campos # <<>>
    BY <2>1, ClienteSano DEF Entrega, Completa
  <2>3. Cortada(ent[e].campos) \in Seq(Cadena)
    BY <2>2, LlevaCortada
  <2>4. CASE ent[e].cerrado
    BY <1>1, <2>1, <2>4 DEF EntregaBien
  <2>5. CASE ~ent[e].cerrado
    <3> DEFINE d == [ent[e] EXCEPT !.flujo = IF llega THEN Cortada(ent[e].campos) ELSE @, !.cerrado = TRUE]
    <3>1. ent'[e] = d
      BY <1>1, <2>5
    <3>2. /\ d \in Entrega /\ d.o = ent[e].o /\ d.campos = ent[e].campos /\ d.cerrado
          /\ d.flujo = IF llega THEN Cortada(ent[e].campos) ELSE ent[e].flujo
      BY <2>1, <2>3 DEF Entrega
    <3> HIDE DEF d
    <3> QED  BY <2>1, <3>1, <3>2 DEF EntregaBien
  <2> QED  BY <2>4, <2>5
<1> QED  BY <1>1, <1>2 DEF CambianLasEntregas

(* A listener that goes on with the same texts.                            *)
Igual(o) ==
  /\ oy'[o] \in EstadoOyente
  /\ oy'[o].cola = oy[o].cola /\ oy'[o].e = oy[o].e /\ oy'[o].mostrados = oy[o].mostrados
  /\ oy'[o].pc = "lee" => oy[o].pc = "lee"

LEMMA IgualesOidos ==
  ASSUME Oidos, CambianLasEntregas, oy' = [o \in Oyentes |-> oy'[o]],
         \A o \in Oyentes : Igual(o) \/ (oy'[o] \in EstadoOyente /\ EnOrden(o)')
  PROVE  Oidos'
<1>1. ent' \in Seq(Entrega) /\ (\A e \in DOMAIN ent' : EntregaBien(ent[e])') /\ Siguen
  BY CambianOidos
<1>2. \A o \in Oyentes : EnOrden(o)'
  BY <1>1, SigueEnOrden DEF Oidos, Igual
<1>3. oy' \in [Oyentes -> EstadoOyente]
  BY DEF Igual
<1> QED  BY <1>1, <1>2, <1>3 DEF Oidos

LEMMA QuietosOidos ==
  ASSUME Oidos, CambianLasEntregas, UNCHANGED oy
  PROVE  Oidos'
<1>1. oy = [o \in Oyentes |-> oy[o]] /\ \A o \in Oyentes : oy[o] \in EstadoOyente
  BY DEF Oidos
<1> QED  BY <1>1, IgualesOidos DEF Igual

(* One listener changes and the deliveries do not.                         *)
LEMMA UnOyente ==
  ASSUME Oidos, NEW o \in Oyentes, NEW r, Oyente(o, r), CambianLasEntregas,
         Igual(o) \/ (r \in EstadoOyente /\ EnOrden(o)')
  PROVE  Oidos'
<1>1. oy' = [oy EXCEPT ![o] = r] /\ oy \in [Oyentes -> EstadoOyente]
  BY DEF Oyente, Oidos
<1>2. oy'[o] = r /\ oy' = [q \in Oyentes |-> oy'[q]] /\ \A q \in Oyentes \ {o} : oy'[q] = oy[q]
  BY <1>1
<1>3. \A q \in Oyentes \ {o} : Igual(q)
  BY <1>1, <1>2 DEF Igual
<1> QED  BY <1>2, <1>3, IgualesOidos

LEMMA MirarOidos ==
  ASSUME Oidos, NEW o \in Oyentes, Mirar(o)
  PROVE  Oidos'
<1> DEFINE r == [oy[o] EXCEPT !.pc = IF corriendo THEN "acepta" ELSE "fin"]
<1>1. Oyente(o, r) /\ UNCHANGED <<ent, servidor>>
  BY DEF Mirar, MiraSi, Oyente
<1>2. oy[o] \in EstadoOyente /\ oy'[o] = r
  BY <1>1 DEF Oidos, Oyente
<1>3. /\ r \in EstadoOyente /\ r.cola = oy[o].cola /\ r.e = oy[o].e /\ r.mostrados = oy[o].mostrados
      /\ r.pc # "lee"
  BY <1>2 DEF EstadoOyente, PcsOyente
<1> HIDE DEF r
<1>4. Igual(o)
  BY <1>2, <1>3 DEF Igual
<1> QED  BY <1>1, <1>4, IgualesCambian, UnOyente

LEMMA LeerMalOidos ==
  ASSUME Oidos, NEW o \in Oyentes, LeerRara(o) \/ LeerCortada(o)
  PROVE  Oidos'
<1> DEFINE r(fin) == [oy[o] EXCEPT !.pc = fin]
<1>1. PICK fin \in {"muerto", "colgado"} : Oyente(o, r(fin))
  BY DEF LeerRara, LeerCortada
<1>2. oy[o] \in EstadoOyente /\ oy'[o] = r(fin) /\ oy[o].pc = "lee" /\ servidor' = servidor
  BY <1>1 DEF Oidos, Oyente, LeerRara, LeerCortada, EnOyente
<1>3. /\ r(fin) \in EstadoOyente /\ r(fin).cola = oy[o].cola /\ r(fin).e = oy[o].e
      /\ r(fin).mostrados = oy[o].mostrados
  BY <1>2 DEF EstadoOyente, PcsOyente
<1>4. Igual(o)
  BY <1>2, <1>3 DEF Igual
<1>5. CambianLasEntregas
  <2>1. CASE UNCHANGED ent
    BY <1>2, <2>1, IgualesCambian
  <2>2. CASE ent' = [ent EXCEPT ![oy[o].e].roto = TRUE]
    <3>1. oy[o].e \in DOMAIN ent
      BY <1>2 DEF Oidos, EnOrden, EsDe
    <3>2. \A e \in DOMAIN ent : ent[e] \in Entrega /\ EntregaBien(ent[e])
      BY LenProperties, ElementOfSeq DEF Oidos
    <3>3. ASSUME NEW e \in DOMAIN ent
          PROVE  ent'[e] = IF e = oy[o].e THEN [ent[e] EXCEPT !.roto = TRUE] ELSE ent[e]
      BY <2>2, <3>1
    <3>4. ASSUME NEW e \in DOMAIN ent
          PROVE  /\ ent'[e] \in Entrega /\ ent'[e].o = ent[e].o /\ ent'[e].campos = ent[e].campos
                 /\ ent'[e].flujo = ent[e].flujo /\ ent'[e].cerrado = ent[e].cerrado
      BY <3>2, <3>3 DEF Entrega
    <3>5. \A e \in DOMAIN ent : EntregaBien(ent[e])'
      BY <1>2, <3>2, <3>4 DEF EntregaBien
    <3>6. DOMAIN ent' = DOMAIN ent /\ ent' = [e \in DOMAIN ent |-> ent'[e]]
      BY <2>2
    <3> QED  BY <3>4, <3>5, <3>6 DEF CambianLasEntregas
  <2> QED  BY <2>1, <2>2 DEF LeerRara, LeerCortada
<1> HIDE DEF r
<1> QED  BY <1>1, <1>4, <1>5, UnOyente

(* It takes the first of those that wait.                                  *)
LEMMA AceptarOidos ==
  ASSUME Oidos, NEW o \in Oyentes, Aceptar(o)
  PROVE  Oidos'
<1> DEFINE c == oy[o].cola
           r == [oy[o] EXCEPT !.pc = "lee", !.e = Head(c), !.cola = Tail(@)]
<1>1. Oyente(o, r) /\ UNCHANGED <<ent, servidor>> /\ oy[o].cola # <<>>
  BY DEF Aceptar, Oyente
<1>2. oy[o] \in EstadoOyente /\ oy'[o] = r /\ EnOrden(o)
  BY <1>1 DEF Oidos, Oyente
<1>3. c \in Seq(Nat) /\ c # <<>>
  BY <1>1, <1>2 DEF EstadoOyente
<1>4. /\ Head(c) = c[1] /\ Tail(c) \in Seq(Nat) /\ Len(Tail(c)) = Len(c) - 1 /\ c[1] \in Nat
      /\ Len(c) \in Nat \ {0} /\ \A k \in 1..Len(Tail(c)) : Tail(c)[k] = c[k + 1]
  BY <1>3, HeadTailProperties, LenProperties, EmptySeq
<1>5. r \in EstadoOyente /\ r.cola = Tail(c) /\ r.e = c[1] /\ r.mostrados = oy[o].mostrados /\ r.pc = "lee"
  BY <1>2, <1>4 DEF EstadoOyente, PcsOyente
<1> HIDE DEF r
<1>6. \A e : EsDe(e, o)' <=> EsDe(e, o)
  BY <1>1 DEF EsDe
<1>7. \A k \in 1..Len(Tail(c)) : k + 1 \in 1..Len(c) /\ 1 \in 1..k /\ \A l \in 1..(k - 1) : l + 1 \in 1..((k + 1) - 1) /\ l \in 1..Len(Tail(c))
  BY <1>4
<1>8. EsDe(c[1], o)
  BY <1>2, <1>4 DEF EnOrden, ColaBien
<1>9. ColaBien(o)'
  <2>1. ASSUME NEW k \in 1..Len(Tail(c))
        PROVE  EsDe(Tail(c)[k], o) /\ c[1] < Tail(c)[k] /\ \A l \in 1..(k - 1) : Tail(c)[l] < Tail(c)[k]
    <3>1. EsDe(c[k + 1], o) /\ \A l \in 1..((k + 1) - 1) : c[l] < c[k + 1]
      BY <1>2, <1>7 DEF EnOrden, ColaBien
    <3>2. 1 \in 1..((k + 1) - 1)
      BY <1>4
    <3> QED  BY <1>4, <1>7, <3>1, <3>2
  <2> HIDE DEF c
  <2> QED  BY <1>2, <1>5, <1>6, <2>1 DEF ColaBien
<1>10. MostradosBien(o)'
  <2>1. ASSUME NEW k \in 1..Len(oy[o].mostrados)
        PROVE  oy[o].mostrados[k].e < c[1] /\ \A l \in 1..Len(Tail(c)) : oy[o].mostrados[k].e < Tail(c)[l]
    <3>1. \A l \in 1..Len(c) : oy[o].mostrados[k].e < c[l]
      BY <1>2 DEF EnOrden, MostradosBien
    <3> HIDE DEF c
    <3> QED  BY <1>4, <1>7, <3>1
  <2> HIDE DEF c
  <2> QED  BY <1>1, <1>2, <1>5, <1>6, <2>1 DEF EnOrden, MostradosBien
<1> HIDE DEF c
<1>11. EnOrden(o)'
  BY <1>2, <1>5, <1>6, <1>8, <1>9, <1>10 DEF EnOrden
<1> QED  BY <1>1, <1>5, <1>11, IgualesCambian, UnOyente

(* It shows the text, which is whole, after all the others.                *)
LEMMA LeerEntregaOidos ==
  ASSUME Oidos, NEW o \in Oyentes, LeerEntrega(o)
  PROVE  Oidos'
<1> DEFINE x == [e |-> oy[o].e, campos |-> Campos(Flujo(o))]
           v == oy[o].mostrados
           r == [oy[o] EXCEPT !.pc = "mira", !.tras = IF fuera THEN @ + 1 ELSE @, !.mostrados = Append(@, x)]
<1>1. Oyente(o, r) /\ UNCHANGED <<ent, servidor>> /\ oy[o].pc = "lee" /\ Completa(Campos(Flujo(o)))
  BY DEF LeerEntrega, Oyente, EnOyente
<1>2. oy[o] \in EstadoOyente /\ oy'[o] = r /\ EnOrden(o)
  BY <1>1 DEF Oidos, Oyente
<1>3. EsDe(oy[o].e, o)
  BY <1>1, <1>2 DEF EnOrden
<1>4. Campos(Flujo(o)) = ent[oy[o].e].campos /\ ent[oy[o].e].campos \in Entregas
  <2>1. ent[oy[o].e] \in Entrega /\ EntregaBien(ent[oy[o].e])
    BY <1>3, LenProperties, ElementOfSeq DEF Oidos, EsDe
  <2> QED  BY <1>1, <2>1, EntregaCompleta DEF Flujo, Entrega
<1>5. x \in Mostrado /\ x.e = oy[o].e /\ x.campos = ent[x.e].campos
  BY <1>2, <1>4 DEF Mostrado, EstadoOyente
<1>6. v \in Seq(Mostrado)
  BY <1>2 DEF EstadoOyente
<1> HIDE DEF x
<1>7. /\ Append(v, x) \in Seq(Mostrado) /\ Len(Append(v, x)) = Len(v) + 1 /\ Len(v) \in Nat
      /\ Append(v, x)[Len(v) + 1] = x /\ \A k \in 1..Len(v) : Append(v, x)[k] = v[k]
  BY <1>5, <1>6, AppendProperties, LenProperties
<1>8. r \in EstadoOyente /\ r.cola = oy[o].cola /\ r.pc # "lee" /\ r.mostrados = Append(v, x)
  <2> DEFINE t == IF fuera THEN oy[o].tras + 1 ELSE oy[o].tras
             a == Append(v, x)
  <2>1. t \in Nat /\ a \in Seq(Mostrado) /\ r = [oy[o] EXCEPT !.pc = "mira", !.tras = t, !.mostrados = a]
    BY <1>2, <1>7 DEF EstadoOyente
  <2> HIDE DEF t, a, r, v
  <2>2. r \in EstadoOyente /\ r.cola = oy[o].cola /\ r.pc = "mira" /\ r.mostrados = a
    BY <1>2, <2>1 DEF EstadoOyente, PcsOyente
  <2> QED  BY <2>2 DEF a
<1> HIDE DEF r
<1>9. \A e : EsDe(e, o)' <=> EsDe(e, o)
  BY <1>1 DEF EsDe
<1>10. ColaBien(o)'
  BY <1>2, <1>8, <1>9 DEF EnOrden, ColaBien
<1>11. MostradosBien(o)'
  <2>1. ASSUME NEW k \in 1..(Len(v) + 1)
        PROVE  LET m == Append(v, x)[k]
               IN  /\ EsDe(m.e, o) /\ m.campos = ent[m.e].campos
                   /\ \A l \in 1..Len(oy[o].cola) : m.e < oy[o].cola[l]
                   /\ \A l \in 1..(k - 1) : Append(v, x)[l].e < m.e
    <3>1. CASE k = Len(v) + 1
      <4>1. k - 1 = Len(v) /\ Append(v, x)[k] = x
        BY <1>7, <3>1
      <4>2. \A l \in 1..Len(v) : v[l].e < x.e
        BY <1>1, <1>2, <1>5 DEF EnOrden, MostradosBien
      <4>3. \A l \in 1..Len(oy[o].cola) : x.e < oy[o].cola[l]
        BY <1>1, <1>2, <1>5 DEF EnOrden, ColaBien
      <4> HIDE DEF v
      <4> QED  BY <1>3, <1>5, <1>7, <4>1, <4>2, <4>3
    <3>2. CASE k # Len(v) + 1
      <4>1. k \in 1..Len(v) /\ \A l \in 1..(k - 1) : l \in 1..Len(v)
        BY <1>7, <3>2
      <4>2. /\ EsDe(v[k].e, o) /\ v[k].campos = ent[v[k].e].campos
            /\ \A l \in 1..Len(oy[o].cola) : v[k].e < oy[o].cola[l]
            /\ \A l \in 1..(k - 1) : v[l].e < v[k].e
        BY <1>2, <4>1 DEF EnOrden, MostradosBien
      <4> HIDE DEF v
      <4> QED  BY <1>7, <4>1, <4>2
    <3> QED  BY <3>1, <3>2
  <2> HIDE DEF v
  <2> QED  BY <1>1, <1>2, <1>7, <1>8, <1>9, <2>1 DEF MostradosBien
<1>12. EnOrden(o)'
  BY <1>2, <1>8, <1>10, <1>11 DEF EnOrden
<1> QED  BY <1>1, <1>2, <1>8, <1>12, IgualesCambian, UnOyente

(* A new delivery comes after all that a listener has.                     *)
LEMMA EntregarOidos ==
  ASSUME Oidos, Entregar
  PROVE  Oidos'
<1> DEFINE k == Len(ent) + 1
<1>1. PICK o \in Oyentes, d \in Entregas :
        /\ ent' = Append(ent, [o |-> o, campos |-> d, flujo |-> <<>>, entera |-> FALSE,
                               cerrado |-> FALSE, roto |-> FALSE])
        /\ oy' = [oy EXCEPT ![o].cola = Append(@, k)]
  BY DEF Entregar
<1>2. servidor = "vivo" /\ servidor' = servidor
  BY DEF Entregar
<1> DEFINE x == [o |-> o, campos |-> d, flujo |-> <<>>, entera |-> FALSE, cerrado |-> FALSE, roto |-> FALSE]
<1>3. x \in Entrega /\ x.o = o /\ x.flujo = <<>>
  BY EmptySeq DEF Entrega
<1> HIDE DEF x
<1>4. ent \in Seq(Entrega) /\ Len(ent) \in Nat /\ DOMAIN ent = 1..Len(ent) /\ ent' = Append(ent, x)
  BY <1>1, LenProperties DEF Oidos, x
<1>5. ent' \in Seq(Entrega) /\ Len(ent') = k /\ ent'[k] = x /\ \A e \in 1..Len(ent) : ent'[e] = ent[e]
  BY <1>3, <1>4, AppendProperties
<1>6. DOMAIN ent' = 1..k
  BY <1>5, LenProperties
<1>7. \A e \in DOMAIN ent' : EntregaBien(ent[e])'
  <2>1. ASSUME NEW e \in 1..k PROVE EntregaBien(ent[e])'
    <3>1. e = k \/ e \in 1..Len(ent)
      BY <1>4
    <3> QED  BY <1>2, <1>3, <1>4, <1>5, <3>1 DEF EntregaBien, Oidos
  <2> QED  BY <1>6, <2>1
<1>8. Siguen
  BY <1>4, <1>5, <1>6 DEF Siguen
<1>9. ASSUME NEW q \in Oyentes, q # o PROVE oy'[q] \in EstadoOyente /\ EnOrden(q)'
  <2>1. oy'[q] = oy[q] /\ oy[q] \in EstadoOyente /\ EnOrden(q)
    BY <1>1, <1>9 DEF Oidos
  <2> QED  BY <1>8, <2>1, SigueEnOrden
<1>10. oy'[o] \in EstadoOyente /\ EnOrden(o)'
  <2> DEFINE c == oy[o].cola
             r == [oy[o] EXCEPT !.cola = Append(@, k)]
             Luego(e) == e \in DOMAIN ent' /\ ent'[e].o = o
  <2>1. oy[o] \in EstadoOyente /\ EnOrden(o) /\ oy'[o] = r
    BY <1>1 DEF Oidos
  <2>2. c \in Seq(Nat) /\ k \in Nat
    BY <1>4, <2>1 DEF EstadoOyente
  <2> HIDE DEF k
  <2>3. /\ Append(c, k) \in Seq(Nat) /\ Len(Append(c, k)) = Len(c) + 1 /\ Len(c) \in Nat
        /\ Append(c, k)[Len(c) + 1] = k /\ \A j \in 1..Len(c) : Append(c, k)[j] = c[j]
    BY <2>2, AppendProperties, LenProperties
  <2>4. /\ r \in EstadoOyente /\ r.cola = Append(c, k) /\ r.e = oy[o].e /\ r.pc = oy[o].pc
        /\ r.mostrados = oy[o].mostrados
    BY <2>1, <2>3 DEF EstadoOyente
  <2> HIDE DEF r
  <2>5. ASSUME NEW e, EsDe(e, o) PROVE Luego(e) /\ e < k /\ ent'[e].campos = ent[e].campos
    BY <1>4, <1>8, <2>5 DEF EsDe, Siguen, k
  <2>6. Luego(k)
    BY <1>3, <1>4, <1>5, <1>6 DEF EsDe, k
  <2>7. ColaBien(o)'
    <3>1. ASSUME NEW j \in 1..(Len(c) + 1)
          PROVE  /\ Luego(Append(c, k)[j])
                 /\ oy[o].pc = "lee" => oy[o].e < Append(c, k)[j]
                 /\ \A l \in 1..(j - 1) : Append(c, k)[l] < Append(c, k)[j]
      <4>1. CASE j = Len(c) + 1
        <5>1. j - 1 = Len(c) /\ Append(c, k)[j] = k
          BY <2>3, <4>1
        <5>2. oy[o].pc = "lee" => oy[o].e < k
          BY <2>1, <2>5 DEF EnOrden
        <5>3. \A l \in 1..Len(c) : c[l] < k
          BY <2>1, <2>5 DEF EnOrden, ColaBien
        <5> HIDE DEF c
        <5> QED  BY <2>3, <2>6, <5>1, <5>2, <5>3
      <4>2. CASE j # Len(c) + 1
        <5>1. j \in 1..Len(c) /\ \A l \in 1..(j - 1) : l \in 1..Len(c)
          BY <2>3, <4>2
        <5>2. EsDe(c[j], o) /\ (oy[o].pc = "lee" => oy[o].e < c[j]) /\ \A l \in 1..(j - 1) : c[l] < c[j]
          BY <2>1, <5>1 DEF EnOrden, ColaBien
        <5> HIDE DEF c
        <5> QED  BY <2>3, <2>5, <5>1, <5>2
      <4> QED  BY <4>1, <4>2
    <3> HIDE DEF c
    <3> QED  BY <2>1, <2>3, <2>4, <3>1 DEF ColaBien, EsDe
  <2>8. MostradosBien(o)'
    <3>1. ASSUME NEW j \in 1..Len(oy[o].mostrados)
          PROVE  LET m == oy[o].mostrados[j]
                 IN  /\ Luego(m.e) /\ m.campos = ent'[m.e].campos
                     /\ \A l \in 1..(Len(c) + 1) : m.e < Append(c, k)[l]
      <4> DEFINE m == oy[o].mostrados[j]
      <4>1. EsDe(m.e, o) /\ m.campos = ent[m.e].campos /\ \A l \in 1..Len(c) : m.e < c[l]
        BY <2>1 DEF EnOrden, MostradosBien
      <4>2. m.e < k /\ Luego(m.e) /\ ent'[m.e].campos = ent[m.e].campos
        BY <2>5, <4>1
      <4> HIDE DEF m, c
      <4>3. ASSUME NEW l \in 1..(Len(c) + 1) PROVE m.e < Append(c, k)[l]
        <5>1. l = Len(c) + 1 \/ l \in 1..Len(c)
          BY <2>3
        <5> QED  BY <2>3, <4>1, <4>2, <5>1
      <4> QED  BY <4>1, <4>2, <4>3 DEF m
    <3> HIDE DEF c
    <3> QED  BY <2>1, <2>3, <2>4, <3>1 DEF EnOrden, MostradosBien, EsDe
  <2> QED  BY <2>1, <2>4, <2>5, <2>7, <2>8 DEF EnOrden, EsDe
<1>11. oy' \in [Oyentes -> EstadoOyente]
  <2>1. DOMAIN oy' = Oyentes /\ oy' = [q \in Oyentes |-> oy'[q]]
    BY <1>1 DEF Oidos
  <2> QED  BY <1>9, <1>10, <2>1
<1> QED  BY <1>5, <1>7, <1>9, <1>10, <1>11 DEF Oidos

LEMMA ConnectOidos ==
  ASSUME Oidos, PulsarConnect
  PROVE  Oidos'
<1> DEFINE o == CHOOSE q \in Oyentes : oy[q].pc = "libre"
           nuevo == [OyenteLibre EXCEPT !.pc = "mira"]
<1>1. oy' = [q \in Oyentes |-> IF q = o THEN nuevo ELSE [oy[q] EXCEPT !.tras = 0]]
  BY DEF PulsarConnect
<1> HIDE DEF o
<1>2. UNCHANGED <<ent, servidor>>
  BY DEF PulsarConnect, Pide
<1>3. nuevo \in EstadoOyente /\ nuevo.cola = <<>> /\ nuevo.mostrados = <<>> /\ nuevo.pc # "lee"
  BY EmptySeq DEF OyenteLibre, EstadoOyente, PcsOyente
<1> HIDE DEF nuevo
<1>4. ASSUME NEW q \in Oyentes
      PROVE  Igual(q) \/ (oy'[q] \in EstadoOyente /\ EnOrden(q)')
  <2>1. CASE q = o
    <3>1. oy'[q] = nuevo /\ 1..Len(oy'[q].cola) = {} /\ 1..Len(oy'[q].mostrados) = {}
      BY <1>1, <1>3, <2>1
    <3>2. ColaBien(q)' /\ MostradosBien(q)'
      BY <3>1 DEF ColaBien, MostradosBien
    <3> QED  BY <1>3, <3>1, <3>2 DEF EnOrden
  <2>2. CASE q # o
    <3> DEFINE r == [oy[q] EXCEPT !.tras = 0]
    <3>1. oy[q] \in EstadoOyente /\ oy'[q] = r
      BY <1>1, <2>2 DEF Oidos
    <3>2. /\ r \in EstadoOyente /\ r.cola = oy[q].cola /\ r.e = oy[q].e /\ r.mostrados = oy[q].mostrados
          /\ r.pc = oy[q].pc
      BY <3>1 DEF EstadoOyente
    <3> HIDE DEF r
    <3> QED  BY <3>1, <3>2 DEF Igual
  <2> QED  BY <2>1, <2>2
<1>5. oy' = [q \in Oyentes |-> oy'[q]]
  BY <1>1
<1> QED  BY <1>2, <1>4, <1>5, IgualesCambian, IgualesOidos

LEMMA MuestraOidos ==
  ASSUME Oidos, NEW id, Muestra(id, FALSE)
  PROVE  Oidos'
<1>1. UNCHANGED <<ent, servidor>>
  BY DEF Muestra, Ventana
<1>2. CASE UNCHANGED oy
  BY <1>1, <1>2, IgualesCambian, QuietosOidos
<1>3. CASE oy' = [o \in Oyentes |-> [oy[o] EXCEPT !.dejado = TRUE]]
  <2>1. ASSUME NEW o \in Oyentes PROVE Igual(o)
    <3>1. oy[o] \in EstadoOyente /\ oy'[o] = [oy[o] EXCEPT !.dejado = TRUE]
      BY <1>3 DEF Oidos
    <3> QED  BY <3>1 DEF Igual, EstadoOyente
  <2> QED  BY <1>1, <1>3, <2>1, IgualesCambian, IgualesOidos
<1> QED  BY <1>2, <1>3 DEF Muestra, SinCambios

LEMMA MatarOidos ==
  ASSUME Oidos, Matar
  PROVE  Oidos'
<1>1. /\ ent' = [e \in DOMAIN ent |-> [ent[e] EXCEPT !.roto = TRUE]] /\ servidor' = servidor
      /\ oy' = [o \in Oyentes |-> [oy[o] EXCEPT !.pc = IF Escucha(o) THEN "muerto" ELSE @]]
  BY DEF Matar
<1>2. ASSUME NEW e \in DOMAIN ent
      PROVE  ent'[e] \in Entrega /\ EntregaBien(ent[e])' /\ ent'[e].o = ent[e].o /\ ent'[e].campos = ent[e].campos
  <2>1. ent[e] \in Entrega /\ EntregaBien(ent[e]) /\ ent'[e] = [ent[e] EXCEPT !.roto = TRUE]
    BY <1>1, LenProperties, ElementOfSeq DEF Oidos
  <2>2. /\ ent'[e] \in Entrega /\ ent'[e].o = ent[e].o /\ ent'[e].campos = ent[e].campos
        /\ ent'[e].flujo = ent[e].flujo /\ ent'[e].cerrado = ent[e].cerrado
    BY <2>1 DEF Entrega
  <2> QED  BY <1>1, <2>1, <2>2 DEF EntregaBien
<1>3. CambianLasEntregas
  BY <1>1, <1>2 DEF CambianLasEntregas
<1>4. ASSUME NEW o \in Oyentes PROVE Igual(o)
  <2>1. oy[o] \in EstadoOyente /\ oy'[o] = [oy[o] EXCEPT !.pc = IF Escucha(o) THEN "muerto" ELSE @]
    BY <1>1 DEF Oidos
  <2> QED  BY <2>1 DEF Igual, EstadoOyente, PcsOyente
<1> QED  BY <1>1, <1>3, <1>4, IgualesOidos

LEMMA EscribirOidos ==
  ASSUME Oidos, NEW e, EscribirEntrega(e) \/ EscribirEnVano(e)
  PROVE  Oidos'
<1>1. UNCHANGED oy /\ e \in DOMAIN ent
  BY DEF EscribirEntrega, EscribirEnVano, Escribiendo
<1>2. \A q \in DOMAIN ent : ent[q] \in Entrega /\ EntregaBien(ent[q])
  BY LenProperties, ElementOfSeq DEF Oidos
<1>3. CambianLasEntregas
  <2>1. CASE EscribirEntrega(e)
    <3>1. /\ ent' = [ent EXCEPT ![e].flujo = Piezas(ent[e].campos), ![e].entera = TRUE, ![e].cerrado = TRUE]
          /\ servidor' = servidor
      BY <2>1 DEF EscribirEntrega
    <3>2. ent[e].campos \in Seq(Texto)
      BY <1>1, <1>2, ClienteSano DEF Entrega
    <3> DEFINE p == Piezas(ent[e].campos)
               d == [ent[e] EXCEPT !.flujo = p, !.entera = TRUE, !.cerrado = TRUE]
    <3>3. p \in Seq(Cadena)
      BY <3>2, PiezasSonCadenas
    <3>4. ent' = [q \in DOMAIN ent |-> IF q = e THEN d ELSE ent[q]]
      BY <1>1, <3>1
    <3>5. d \in Entrega /\ d.o = ent[e].o /\ d.campos = ent[e].campos /\ d.flujo = Piezas(d.campos) /\ d.cerrado
      <4> HIDE DEF p
      <4>1. d \in Entrega /\ d.o = ent[e].o /\ d.campos = ent[e].campos /\ d.flujo = p /\ d.cerrado
        BY <1>1, <1>2, <3>3 DEF Entrega
      <4> QED  BY <4>1 DEF p
    <3> HIDE DEF d
    <3> QED  BY <1>2, <3>1, <3>4, <3>5 DEF CambianLasEntregas, EntregaBien
  <2>2. CASE ent' = [ent EXCEPT ![e].cerrado = TRUE] /\ servidor' = servidor
    <3> DEFINE d == [ent[e] EXCEPT !.cerrado = TRUE]
    <3>1. ent' = [q \in DOMAIN ent |-> IF q = e THEN d ELSE ent[q]]
      BY <1>1, <2>2
    <3>2. d \in Entrega /\ d.o = ent[e].o /\ d.campos = ent[e].campos /\ d.flujo = ent[e].flujo /\ d.cerrado
      BY <1>1, <1>2 DEF Entrega
    <3> HIDE DEF d
    <3> QED  BY <1>1, <1>2, <2>2, <3>1, <3>2 DEF CambianLasEntregas, EntregaBien
  <2>3. CASE Cae("SIGPIPE")
    BY <2>3, CaeCambian
  <2> QED  BY <2>1, <2>2, <2>3 DEF EscribirEnVano
<1> QED  BY <1>1, <1>3, QuietosOidos

LEMMA VentanaOidos ==
  ASSUME Oidos, ventana_sigue
  PROVE  Oidos'
<1>1. CASE \E id : Muestra(id, FALSE)
  BY <1>1, MuestraOidos
<1>2. CASE UNCHANGED <<ent, servidor, oy>>
  BY <1>2, IgualesCambian, QuietosOidos
<1>3. CASE Mostrar
  BY <1>1, <1>3 DEF Mostrar
<1>4. CASE MostrarConId
  BY <1>1, <1>2, <1>4 DEF MostrarConId, Rompe, Ventana, SinCambios
<1>5. CASE Enviar \/ LeerRespuestaRara \/ LeerRespuestaCortada
  BY <1>2, <1>5 DEF Enviar, EnviaHasta, LeerRespuestaRara, LeerRespuestaCortada, Rompe, Ventana, SinCambios
<1> QED  BY <1>3, <1>4, <1>5 DEF ventana_sigue

LEMMA PasoOidos == Oidos /\ [Next]_vars => Oidos'
<1> SUFFICES ASSUME Oidos, [Next]_vars PROVE Oidos'
  OBVIOUS
<1>1. CASE UNCHANGED <<ent, servidor, oy>>
  BY <1>1, IgualesCambian, QuietosOidos
<1>2. CASE UNCHANGED vars
  BY <1>1, <1>2 DEF vars
<1>3. CASE Pulsar \/ PulsarSend \/ SinServicioWeb \/ Salir
  BY <1>1, <1>3 DEF Pulsar, PulsarSend, SinServicioWeb, Salir, Pide
<1>4. CASE PulsarConnect
  BY <1>4, ConnectOidos
<1>5. CASE Matar
  BY <1>5, MatarOidos
<1>6. CASE CaerServidor
  BY <1>6, CaeCambian, QuietosOidos DEF CaerServidor
<1>7. CASE Entregar
  BY <1>7, EntregarOidos
<1>8. CASE ventana_sigue
  BY <1>8, VentanaOidos
<1>9. CASE \E i \in 1..MaxPet : hilo(i)
  <2>1. PICK i \in 1..MaxPet : hilo(i)
    BY <1>9
  <2>2. CASE Atender(i) \/ Responder(i)
    BY <1>1, <2>2 DEF Atender, Responder, RespondeYCierra, Hilo
  <2>3. CASE CodigoNoValido(i) \/ ResponderEnVano(i)
    BY <1>1, <2>3, CaeCambian, QuietosOidos DEF CodigoNoValido, ResponderEnVano, CaeConTodos, Hilo
  <2> QED  BY <2>1, <2>2, <2>3 DEF hilo
<1>10. CASE \E e \in 1..MaxEnt : EscribirEntrega(e) \/ EscribirEnVano(e)
  BY <1>10, EscribirOidos
<1>11. CASE \E o \in Oyentes : oyente(o)
  BY <1>11, MirarOidos, AceptarOidos, LeerEntregaOidos, LeerMalOidos DEF oyente
<1> QED  BY <1>2, <1>3, <1>4, <1>5, <1>6, <1>7, <1>8, <1>9, <1>10, <1>11 DEF Next, Sigue

(* A listener shows whole texts, each once and in the order in which they  *)
(* connected, whatever became of the server (client.py:426-442).           *)
THEOREM MuestraSoloEnteras == Spec => []SoloEnteras
<1>1. Spec => []Oidos
  BY InitOidos, PasoOidos, PTL DEF Spec
<1>2. Oidos => SoloEnteras
  <2> SUFFICES ASSUME Oidos, NEW o \in Oyentes, NEW k \in DOMAIN oy[o].mostrados
               PROVE  LET m == oy[o].mostrados[k]
                      IN  /\ ent[m.e].o = o /\ m.campos = ent[m.e].campos
                          /\ \A l \in 1..(k - 1) : oy[o].mostrados[l].e < m.e
    BY DEF SoloEnteras
  <2>1. k \in 1..Len(oy[o].mostrados)
    BY LenProperties DEF Oidos, EstadoOyente
  <2> QED  BY <2>1 DEF Oidos, EnOrden, MostradosBien, EsDe
<1> QED  BY <1>1, <1>2, PTL

-----------------------------------------------------------------------------
(* Requests and answers: the two ends of a connection.                     *)

(* What the state of a connection is made of: what the server answers,     *)
(* what the window shows, and the two ends with the streams between them.  *)
Respuesta == [campos : Seq(Texto), id : Ids \cup {SinId}]
Visto     == [campos : Seq(Texto), id : Ids \cup {SinId, CERO}]
EstadoConexion ==
  [pet : Seq(Texto), falta : Seq(Cadena), visto : Visto, cortada : BOOLEAN,
   pc : Pcs, leidos : Seq(Cadena), resp : Respuesta, escribe : Seq(Cadena), cerrada : BOOLEAN,
   ida : Cadena, vuelta : Seq(Cadena)]

(* A request begins with the code of an operation.                         *)
Codigo(campos) == campos # <<>> /\ campos[1] \in {<<op>> : op \in Ops}

(* The client's end: the request begins with its code, and so does what    *)
(* the server has not read yet, once the code is sent; what is still to be *)
(* sent are its last fields.                                               *)
Empezada(c) == Len(c.falta) < Len(c.pet)
PideBien(c) ==
  /\ Codigo(c.pet) /\ Len(c.falta) <= Len(c.pet)
  /\ \A j \in 1..Len(c.falta) : c.falta[j] = Append(c.pet[Len(c.pet) - Len(c.falta) + j], NUL)
  /\ ~Empezada(c) => c.cortada \/ c.ida = <<>>
  /\ Empezada(c) /\ c.pc = "lee" => \E r \in Cadena : c.ida = Append(c.pet[1], NUL) \o r

(* The server's end: a thread that has not read its request has done        *)
(* nothing; one that has answers its code, and what has come and what it   *)
(* is still to write are together its answer, as long as the server lives. *)
Atendida(c)   == c.pc \in {"escribe", "fin"}
SinAtender(c, vivo) ==
  /\ c.leidos = <<>> /\ c.resp = Nada /\ c.visto = Nada /\ c.escribe = <<>> /\ c.vuelta = <<>>
  /\ vivo => ~c.cerrada

Escrito(r) == Piezas(r.campos) \o (IF r.id = SinId THEN <<>> ELSE <<<<r.id>>>>)

(* What has come of an answer: its fields, or some, and then the id.       *)
LlegaDe(r, vuelta) == Lleva(vuelta, r.campos) /\ (Len(vuelta) = 2 /\ r.id # SinId => vuelta[2] = <<r.id>>)

Responde(c, vivo) ==
  /\ Codigo(c.leidos) /\ Len(c.leidos) <= 4 /\ c.resp \in Respuestas(c.leidos[1][1])
  /\ c.pc = "fin" => c.escribe = <<>> /\ c.cerrada
  /\ ~c.cortada =>
       /\ c.leidos[1] = c.pet[1] /\ LlegaDe(c.resp, c.vuelta)
       /\ vivo => /\ c.vuelta \o c.escribe = Escrito(c.resp) /\ (c.cerrada => c.pc = "fin")
                  /\ c.pc = "escribe" => c.escribe # <<>>

(* The window has shown an answer, and closed, when it had come whole.     *)
VeBien(c, vivo) ==
  c.visto # Nada => /\ c.cortada /\ c.visto.campos = c.resp.campos
                    /\ c.visto.id = c.resp.id \/ (~vivo /\ c.visto.id = CERO)

ConexionBien(c, vivo) ==
  /\ PideBien(c) /\ VeBien(c, vivo)
  /\ IF Atendida(c) THEN Responde(c, vivo) ELSE SinAtender(c, vivo)

Tipos ==
  /\ ventana \in {"quieta", "envia", "espera", "colgada", "acabada"}
  /\ n \in 0..MaxPet /\ {con_alias, corriendo, fuera} \subseteq BOOLEAN /\ fallos \in 0..MaxFallos
  /\ servidor \in {"vivo", "exit(-1)", "SIGPIPE", "fallo"}
  /\ con \in [1..MaxPet -> EstadoConexion]

(* The window is at its last request and nobody has closed it; the exit of *)
(* the server is the fault of a client that went before its code.          *)
EnVentana  ==
  /\ ventana \in {"envia", "espera", "colgada"} => n > 0 /\ ~con[n].cortada
  /\ ventana = "envia" => con[n].falta # <<>>
SinCodigo(c) == c.cortada /\ c.leidos = <<>> /\ ~Empezada(c)
Culpable   == servidor = "exit(-1)" => \E i \in 1..n : SinCodigo(con[i])

(* RespuestaFiel and SoloCaeSiCortan are not inductive: what is shown is   *)
(* what has come, and to know what comes the invariant follows the fields  *)
(* from the client to the thread and back.                                 *)
Conexiones ==
  /\ Tipos /\ EnVentana /\ Culpable
  /\ \A i \in 1..MaxPet : IF i <= n THEN ConexionBien(con[i], servidor = "vivo") ELSE con[i] = Libre

(* No two numbers are written alike.                                       *)
LEMMA CifrasBien ==
  /\ Cuantos \subseteq Nat
  /\ \A k \in Cuantos : Num(k) \in Simbolos \ {NUL} /\ \A j \in Cuantos : Num(j) = Num(k) => j = k
<1>1. Len(Cifra) \in Nat /\ DOMAIN Cifra = 1..Len(Cifra)
  BY ClienteSano, LenProperties
<1>2. \A k \in Cuantos : k \in Nat /\ k + 1 \in DOMAIN Cifra
  BY <1>1 DEF Cuantos
<1>3. \A k \in DOMAIN Cifra : Cifra[k] \in Simbolos \ {NUL}
  BY ClienteSano, <1>1, ElementOfSeq
<1>4. \A j, k \in Nat : j + 1 = k + 1 => j = k
  OBVIOUS
<1> QED  BY <1>2, <1>3, <1>4, ClienteSano DEF Num

(* What the server may answer.                                             *)
LEMMA RespuestasBien ==
  ASSUME NEW op \in Ops, NEW r \in Respuestas(op)
  PROVE  /\ r \in Respuesta /\ r.campos # <<>> /\ Len(r.campos) \in Nat \ {0}
         /\ op = "SEND" <=> r.id # SinId
         /\ op # "CONNECTEDUSERS" => Len(r.campos) = 1
         /\ op = "CONNECTEDUSERS" /\ r.campos[1] # <<OK>> => Len(r.campos) = 1
         /\ op = "CONNECTEDUSERS" /\ r.campos[1] = <<OK>> =>
              \E k \in Cuantos : Len(r.campos) = k + 2 /\ r.campos[2] = <<Num(k)>>
<1>1. \A x \in Resultados \cup {OK} : <<x>> \in Texto
  BY ClienteSano, DeUno DEF Texto
<1>2. \A x \in Resultados : <<<<x>>>> \in Seq(Texto) /\ <<<<x>>>> # <<>> /\ Len(<<<<x>>>>) = 1 /\ <<<<x>>>>[1] = <<x>>
  <2>1. ASSUME NEW x \in Resultados PROVE <<x>> \in Texto
    BY <1>1
  <2> QED  BY <2>1, DeUno
<1>3. CASE op = "SEND"
  <2>1. PICK x \in Resultados : r.campos = <<<<x>>>> /\ r.id \in Ids /\ r = [campos |-> r.campos, id |-> r.id]
    BY <1>3 DEF Respuestas
  <2>2. r.campos \in Seq(Texto) /\ r.campos # <<>> /\ Len(r.campos) = 1 /\ r.id # SinId
    BY <1>2, <2>1, ClienteSano
  <2>3. r \in Respuesta
    BY <2>1, <2>2 DEF Respuesta
  <2> QED  BY <1>3, <2>2, <2>3
<1>4. CASE op \notin {"SEND", "CONNECTEDUSERS"}
  <2>1. PICK x \in Resultados : r.campos = <<<<x>>>> /\ r.id = SinId /\ r = [campos |-> r.campos, id |-> r.id]
    BY <1>4 DEF Respuestas
  <2>2. r.campos \in Seq(Texto) /\ r.campos # <<>> /\ Len(r.campos) = 1
    BY <1>2, <2>1
  <2>3. r \in Respuesta
    BY <2>1, <2>2 DEF Respuesta
  <2> QED  BY <1>4, <2>1, <2>2, <2>3
<1>5. CASE op = "CONNECTEDUSERS"
  <2>1. /\ r.id = SinId /\ r = [campos |-> r.campos, id |-> r.id]
        /\ r.campos \in {<<<<x>>>> : x \in Resultados \ {OK}} \cup {<<<<OK>>, <<Num(Len(l))>>>> \o l : l \in Listas}
    BY <1>5 DEF Respuestas
  <2>2. CASE r.campos \in {<<<<x>>>> : x \in Resultados \ {OK}}
    <3>1. PICK x \in Resultados \ {OK} : r.campos = <<<<x>>>>
      BY <2>2
    <3>2. r.campos \in Seq(Texto) /\ r.campos # <<>> /\ Len(r.campos) = 1
      BY <1>2, <3>1
    <3>3. r.campos[1] # <<OK>>
      BY <3>1
    <3> QED  BY <1>5, <2>1, <3>2, <3>3 DEF Respuesta
  <2>3. CASE r.campos \in {<<<<OK>>, <<Num(Len(l))>>>> \o l : l \in Listas}
    <3>1. PICK l \in Listas : r.campos = <<<<OK>>, <<Num(Len(l))>>>> \o l
      BY <2>3
    <3>2. l \in Seq(Texto) /\ Len(l) \in Cuantos /\ Len(l) \in Nat
      BY ClienteSano, LenProperties
    <3> DEFINE h == <<<<OK>>, <<Num(Len(l))>>>>
    <3>3. h \in Seq(Texto) /\ Len(h) = 2 /\ h[1] = <<OK>> /\ h[2] = <<Num(Len(l))>>
      <4>1. <<Num(Len(l))>> \in Texto
        BY <3>2, CifrasBien DEF Texto
      <4> QED  BY <1>1, <4>1
    <3> HIDE DEF h
    <3>4. h \o l \in Seq(Texto) /\ Len(h \o l) = Len(l) + 2 /\ (h \o l)[1] = <<OK>> /\ (h \o l)[2] = <<Num(Len(l))>>
      <4>1. /\ h \o l \in Seq(Texto) /\ Len(h \o l) = Len(h) + Len(l)
            /\ \A j \in 1..Len(h) + Len(l) : (h \o l)[j] = IF j <= Len(h) THEN h[j] ELSE l[j - Len(h)]
        BY <3>2, <3>3, ConcatProperties
      <4> QED  BY <3>2, <3>3, <4>1
    <3>5. r.campos = h \o l
      BY <3>1 DEF h
    <3>6. r.campos # <<>> /\ Len(r.campos) \in Nat \ {0}
      BY <3>2, <3>4, <3>5
    <3> QED  BY <1>5, <2>1, <3>2, <3>4, <3>5, <3>6 DEF Respuesta
  <2> QED  BY <2>1, <2>2, <2>3
<1> QED  BY <1>3, <1>4, <1>5

(* An answer as it is written.                                             *)
LEMMA EscritoBien ==
  ASSUME NEW r \in Respuesta, r.campos # <<>>
  PROVE  /\ Escrito(r) \in Seq(Cadena) /\ Escrito(r) # <<>>
         /\ Len(Escrito(r)) = IF r.id = SinId THEN Len(r.campos) ELSE Len(r.campos) + 1
         /\ \A j \in 1..Len(r.campos) : Escrito(r)[j] = Append(r.campos[j], NUL)
         /\ r.id # SinId => Escrito(r)[Len(r.campos) + 1] = <<r.id>> /\ r.id \in Simbolos \ {NUL}
<1> DEFINE p == Piezas(r.campos)
           k == Len(r.campos)
<1>1. r.campos \in Seq(Texto) /\ k \in Nat \ {0} /\ r.id \in Ids \cup {SinId}
  BY LenProperties, EmptySeq DEF Respuesta
<1>2. p \in Seq(Cadena) /\ Len(p) = k /\ \A j \in 1..k : p[j] = Append(r.campos[j], NUL)
  BY <1>1, PiezasSonCadenas
<1> HIDE DEF p
<1>3. CASE r.id = SinId
  <2>1. Escrito(r) = p
    BY <1>2, <1>3, ConcatEmptySeq DEF Escrito, p
  <2> QED  BY <1>1, <1>2, <1>3, <2>1
<1>4. CASE r.id # SinId
  <2> DEFINE q == <<<<r.id>>>>
  <2>1. r.id \in Simbolos \ {NUL}
    BY <1>1, <1>4, ClienteSano
  <2>2. q \in Seq(Cadena) /\ Len(q) = 1 /\ q[1] = <<r.id>>
    BY <2>1 DEF Cadena
  <2> HIDE DEF q
  <2>3. Escrito(r) = p \o q
    BY <1>4 DEF Escrito, p, q
  <2> HIDE DEF k
  <2>4. /\ p \o q \in Seq(Cadena) /\ Len(p \o q) = k + 1 /\ (p \o q)[k + 1] = q[1]
        /\ \A j \in 1..k : (p \o q)[j] = p[j]
    <3>1. /\ p \o q \in Seq(Cadena) /\ Len(p \o q) = Len(p) + Len(q)
          /\ \A j \in 1..Len(p) + Len(q) : (p \o q)[j] = IF j <= Len(p) THEN p[j] ELSE q[j - Len(p)]
      BY <1>2, <2>2, ConcatProperties
    <3> QED  BY <1>1, <1>2, <2>2, <3>1
  <2>5. p \o q # <<>>
    BY <1>1, <2>4
  <2> QED  BY <1>1, <1>2, <1>4, <2>1, <2>2, <2>3, <2>4, <2>5 DEF k
<1> QED  BY <1>3, <1>4

(* Whatever part of an answer has been written, and a byte more.           *)
LEMMA ParteDeEscrito ==
  ASSUME NEW r \in Respuesta, r.campos # <<>>, r.id # SinId => Len(r.campos) = 1,
         NEW v \in Seq(Cadena), NEW e \in Seq(Cadena), v \o e = Escrito(r)
  PROVE  LlegaDe(r, v) /\ v \o Trozo(e) \in Seq(Cadena) /\ LlegaDe(r, v \o Trozo(e))
<1> DEFINE E == Escrito(r)
           k == Len(r.campos)
<1>1. r.campos \in Seq(Texto) /\ k \in Nat \ {0} /\ Len(v) \in Nat /\ Len(e) \in Nat
  BY LenProperties, EmptySeq DEF Respuesta
<1>2. /\ Len(E) = IF r.id = SinId THEN k ELSE k + 1
      /\ \A j \in 1..k : E[j] = Append(r.campos[j], NUL)
      /\ r.id # SinId => E[k + 1] = <<r.id>> /\ r.id # NUL
  BY EscritoBien
<1>3. Len(E) = Len(v) + Len(e) /\ \A j \in 1..Len(v) + Len(e) : E[j] = IF j <= Len(v) THEN v[j] ELSE e[j - Len(v)]
  BY ConcatProperties
<1>4. Len(v) <= k + 1 /\ (Len(v) = k + 1 => r.id # SinId)
  BY <1>1, <1>2, <1>3
<1> HIDE DEF E, k
<1>5. \A j \in 1..Len(v) : v[j] = E[j]
  BY <1>1, <1>3
<1>6. LlegaDe(r, v)
  <2> DEFINE m == IF Len(v) <= k THEN Len(v) ELSE k
  <2>1. m \in 0..k /\ m <= Len(v) /\ (m < Len(v) => m = k /\ Len(v) = k + 1)
    BY <1>1, <1>4
  <2> HIDE DEF m
  <2>2. \A j \in 1..m : v[j] = Append(r.campos[j], NUL)
    <3>1. ASSUME NEW j \in 1..m PROVE j \in 1..Len(v) /\ j \in 1..k
      BY <1>1, <2>1
    <3> QED  BY <1>2, <1>5, <3>1
  <2>3. m < Len(v) => NUL \notin ToSet(v[m + 1])
    <3>1. SUFFICES ASSUME m < Len(v) PROVE NUL \notin ToSet(v[m + 1])
      OBVIOUS
    <3>2. v[m + 1] = <<r.id>> /\ r.id # NUL
      BY <1>1, <1>2, <1>4, <1>5, <2>1, <3>1
    <3>3. ToSet(<<r.id>>) = {r.id}
      BY DEF ToSet
    <3> QED  BY <3>2, <3>3
  <2>4. Lleva(v, r.campos)
    BY <2>1, <2>2, <2>3 DEF Lleva, LlevaHasta, k
  <2>5. Len(v) = 2 /\ r.id # SinId => v[2] = <<r.id>>
    BY <1>1, <1>2, <1>5 DEF k
  <2> QED  BY <2>4, <2>5 DEF LlegaDe
<1>7. CASE Trozo(e) = <<>>
  <2>1. v \o Trozo(e) = v
    BY <1>7, ConcatEmptySeq
  <2> QED  BY <1>6, <2>1
<1>8. CASE Trozo(e) # <<>>
  <2>1. e # <<>> /\ Len(Head(e)) # 1 /\ Trozo(e) = <<<<Head(Head(e))>>>>
    BY <1>8 DEF Trozo
  <2>2. Head(e) = E[Len(v) + 1] /\ Len(e) # 0
    <3>1. Head(e) = e[1] /\ Len(e) # 0
      BY <2>1, EmptySeq
    <3>2. Len(v) + 1 \in 1..Len(v) + Len(e) /\ ~(Len(v) + 1 <= Len(v)) /\ (Len(v) + 1) - Len(v) = 1
      BY <1>1, <3>1
    <3>3. E[Len(v) + 1] = e[(Len(v) + 1) - Len(v)]
      BY <1>3, <3>2
    <3> QED  BY <3>1, <3>2, <3>3
  <2>3. Len(v) < k
    <3>1. SUFFICES ASSUME Len(v) >= k PROVE FALSE
      BY <1>1
    <3>2. Len(v) = k /\ r.id # SinId
      BY <1>1, <1>2, <1>3, <2>2, <3>1
    <3>3. Head(e) = <<r.id>>
      BY <1>2, <2>2, <3>2
    <3> QED  BY <2>1, <3>3
  <2> DEFINE x == r.campos[Len(v) + 1]
             p == <<Head(Head(e))>>
             w == v \o <<p>>
  <2>4. Len(v) + 1 \in 1..k
    BY <1>1, <2>3
  <2>5. x \in Texto /\ Head(e) = Append(x, NUL)
    BY <1>1, <1>2, <2>2, <2>4, ElementOfSeq DEF k
  <2> HIDE DEF x
  <2>6. Head(Head(e)) \in Simbolos \ {NUL}
    <3>1. x # <<>>
      <4>1. x \in Seq(Simbolos) /\ NUL \in Simbolos
        BY <2>5, CampoDeTexto, TramaSana DEF Cadena
      <4>2. Len(Append(x, NUL)) = Len(x) + 1
        BY <4>1, AppendProperties
      <4> QED  BY <2>1, <2>5, <4>2, EmptySeq
    <3>2. Head(Append(x, NUL)) = Head(x) /\ Head(x) \in Simbolos \ {NUL}
      BY <2>5, <3>1, HeadTailAppend, HeadTailProperties DEF Texto
    <3> QED  BY <2>5, <3>2
  <2>7. p \in Cadena /\ NUL \notin ToSet(p)
    <3>1. ToSet(p) = {Head(Head(e))}
      BY DEF ToSet
    <3>2. p \in Cadena
      BY <2>6, DeUno DEF Cadena
    <3> QED  BY <2>6, <3>1, <3>2
  <2> HIDE DEF p
  <2>8. w \in Seq(Cadena) /\ Len(w) = Len(v) + 1 /\ w[Len(v) + 1] = p /\ \A j \in 1..Len(v) : w[j] = v[j]
    <3>1. <<p>> \in Seq(Cadena) /\ Len(<<p>>) = 1 /\ <<p>>[1] = p
      BY <2>7, DeUno
    <3> DEFINE q == <<p>>
    <3> HIDE DEF q
    <3>2. /\ v \o q \in Seq(Cadena) /\ Len(v \o q) = Len(v) + Len(q)
          /\ \A j \in 1..Len(v) + Len(q) : (v \o q)[j] = IF j <= Len(v) THEN v[j] ELSE q[j - Len(v)]
      BY <3>1, ConcatProperties DEF q
    <3>3. Len(q) = 1 /\ q[1] = p /\ w = v \o q
      BY <3>1 DEF q
    <3> HIDE DEF w
    <3> QED  BY <1>1, <3>2, <3>3
  <2>9. w = v \o Trozo(e)
    BY <2>1 DEF p
  <2> HIDE DEF w
  <2>10. LlevaHasta(w, r.campos, Len(v))
    <3>1. \A j \in 1..Len(v) : w[j] = Append(r.campos[j], NUL)
      <4>1. ASSUME NEW j \in 1..Len(v) PROVE j \in 1..k
        BY <1>1, <2>3
      <4> QED  BY <1>2, <1>5, <2>8, <4>1
    <3> QED  BY <1>1, <2>7, <2>8, <3>1 DEF LlevaHasta
  <2>11. Lleva(w, r.campos)
    BY <1>1, <2>3, <2>10 DEF Lleva, k
  <2>12. Len(w) = 2 => r.id = SinId
    <3>1. r.id # SinId => k = 1
      BY DEF k
    <3>2. Len(w) = Len(v) + 1
      BY <2>8
    <3>3. Len(v) \in Nat /\ k \in Nat
      BY <1>1
    <3>4. \A i, j \in Nat : i < j /\ i + 1 = 2 => j # 1
      OBVIOUS
    <3> QED  BY <2>3, <3>1, <3>2, <3>3, <3>4
  <2> QED  BY <1>6, <2>8, <2>9, <2>11, <2>12 DEF LlegaDe
<1> QED  BY <1>7, <1>8

(* The client reads all of the fields of an answer, or goes on waiting.    *)
LEMMA RespuestaEntera ==
  ASSUME NEW op \in Ops, NEW r \in Respuestas(op), NEW v \in Seq(Cadena), Lleva(v, r.campos),
         Len(Campos(v)) >= Esperados(op, Campos(v))
  PROVE  SubSeq(Campos(v), 1, Esperados(op, Campos(v))) = r.campos /\ r.campos # <<>> /\ v # <<>>
<1> DEFINE p == Campos(v)
           k == Len(r.campos)
<1>1. r.campos \in Seq(Texto) /\ k \in Nat \ {0} /\ r.campos # <<>>
  BY RespuestasBien DEF Respuesta
<1>2. PICK m \in 0..k : LlevaHasta(v, r.campos, m)
  BY DEF Lleva
<1>3. p \in Seq(Texto) /\ Len(p) <= m /\ \A j \in 1..Len(p) : p[j] = r.campos[j]
  BY <1>1, <1>2, SoloCampos
<1>4. Len(p) \in Nat /\ (p = <<>> => Len(p) = 0) /\ (p # <<>> => Len(p) # 0)
  BY <1>3, LenProperties, EmptySeq
<1> HIDE DEF p
<1>5. Len(p) >= Esperados(op, p)
  BY DEF p
<1>6. Esperados(op, p) = k
  <2>1. CASE op # "CONNECTEDUSERS"
    BY <2>1, RespuestasBien DEF Esperados, CamposDeRespuesta
  <2>2. CASE op = "CONNECTEDUSERS"
    <3>1. p # <<>>
      BY <1>4, <1>5, <2>2 DEF Esperados, CamposDeRespuesta
    <3>2. p[1] = r.campos[1]
      BY <1>3, <1>4, <3>1
    <3>3. CASE p[1] # <<OK>>
      BY <2>2, <3>2, <3>3, RespuestasBien DEF Esperados, CamposDeRespuesta
    <3>4. CASE p[1] = <<OK>>
      <4>1. Len(p) # 1
        BY <1>5, <2>2, <3>1, <3>4 DEF Esperados, CamposDeRespuesta
      <4>2. p[2] = r.campos[2]
        <5>1. 2 \in 1..Len(p)
          <6>1. Len(p) \in Nat /\ Len(p) # 0
            BY <1>4, <3>1
          <6>2. \A i \in Nat : i # 0 /\ i # 1 => 2 \in 1..i
            OBVIOUS
          <6> QED  BY <4>1, <6>1, <6>2
        <5> QED  BY <1>3, <5>1
      <4>3. PICK q \in Cuantos : k = q + 2 /\ r.campos[2] = <<Num(q)>>
        BY <2>2, <3>2, <3>4, RespuestasBien
      <4>4. (CHOOSE j \in Cuantos : <<Num(j)>> = p[2]) = q
        <5>1. \A j \in Cuantos : Num(j) = Num(q) => j = q
          BY CifrasBien
        <5>2. \A j \in Cuantos : <<Num(j)>> = p[2] <=> j = q
          BY <4>2, <4>3, <5>1
        <5> QED  BY <5>2
      <4>5. q \in Nat
        BY CifrasBien
      <4>6. Esperados(op, p) = 2 + q - 0
        BY <2>2, <3>1, <3>4, <4>1, <4>4 DEF Esperados, CamposDeRespuesta
      <4> QED  BY <4>3, <4>5, <4>6
    <3> QED  BY <3>3, <3>4
  <2> QED  BY <2>1, <2>2
<1>7. Len(p) = k
  BY <1>1, <1>2, <1>3, <1>4, <1>5, <1>6
<1>8. p = r.campos
  BY <1>1, <1>3, <1>7, SeqEqual
<1>9. SubSeq(p, 1, k) = r.campos
  BY <1>1, <1>8, SubSeqFull
<1>10. v # <<>>
  <2>1. v = <<>> => Len(v) = 0
    OBVIOUS
  <2> QED  BY <1>1, <1>2, <1>3, <1>7, <2>1 DEF LlevaHasta
<1> QED  BY <1>1, <1>6, <1>9, <1>10 DEF p

-----------------------------------------------------------------------------
(* What each step makes of one connection.                                 *)

(* A request that begins.                                                  *)
LEMMA NuevaBien ==
  ASSUME NEW pet \in Seq(Texto), Codigo(pet), NEW vivo \in BOOLEAN, NEW pc \in {"nada", "sin_hilo", "lee"},
         NEW c, c = [Libre EXCEPT !.pet = pet, !.falta = Piezas(pet), !.pc = pc]
  PROVE  c \in EstadoConexion /\ ConexionBien(c, vivo) /\ ~c.cortada /\ c.falta # <<>>
<1> DEFINE p == Piezas(pet)
<1>1. /\ p \in Seq(Cadena) /\ Len(p) = Len(pet) /\ Len(pet) \in Nat \ {0} /\ p # <<>>
      /\ \A j \in 1..Len(p) : p[j] = Append(pet[Len(pet) - Len(p) + j], NUL)
  <2>1. Len(pet) \in Nat \ {0} /\ Len(p) = Len(pet) /\ \A j \in 1..Len(pet) : p[j] = Append(pet[j], NUL)
    BY EmptySeq, PiezasSonCadenas DEF Codigo
  <2>2. p # <<>>
    BY <2>1
  <2>3. ASSUME NEW j \in 1..Len(p) PROVE Len(pet) - Len(p) + j = j
    BY <2>1
  <2> QED  BY <2>1, <2>2, <2>3, PiezasSonCadenas
<1>2. Nada \in Respuesta /\ Nada \in Visto
  BY CadenaVacia DEF Nada, Respuesta, Visto
<1> HIDE DEF p
<1>3. /\ c.pet = pet /\ c.falta = p /\ c.pc = pc /\ c.visto = Nada /\ ~c.cortada
      /\ c.leidos = <<>> /\ c.resp = Nada /\ c.escribe = <<>> /\ c.ida = <<>> /\ c.vuelta = <<>> /\ ~c.cerrada
      /\ c \in EstadoConexion
  BY <1>1, <1>2, CadenaVacia DEF Libre, EstadoConexion, Pcs, p
<1>4. ~Empezada(c)
  BY <1>1, <1>3 DEF Empezada
<1>5. PideBien(c)
  BY <1>1, <1>3, <1>4 DEF PideBien
<1> QED  BY <1>1, <1>3, <1>5 DEF ConexionBien, VeBien, Atendida, SinAtender

(* One more field is sent.                                                 *)
LEMMA EnviaBien ==
  ASSUME NEW c \in EstadoConexion, NEW vivo \in BOOLEAN, ConexionBien(c, vivo), ~c.cortada, c.falta # <<>>,
         NEW d, d = [c EXCEPT !.ida = @ \o Head(c.falta), !.falta = Tail(@)]
  PROVE  d \in EstadoConexion /\ ConexionBien(d, vivo) /\ ~d.cortada /\ Len(d.falta) = Len(c.falta) - 1
<1> DEFINE f == Tail(c.falta)
           h == Head(c.falta)
           s == c.ida \o h
<1>1. c.falta \in Seq(Cadena) /\ c.ida \in Cadena /\ c.pet \in Seq(Texto)
  BY DEF EstadoConexion
<1>2. /\ f \in Seq(Cadena) /\ Len(f) = Len(c.falta) - 1 /\ h \in Cadena /\ h = c.falta[1]
      /\ \A j \in 1..Len(f) : f[j] = c.falta[j + 1]
  BY <1>1, HeadTailProperties
<1>3. s \in Cadena
  BY <1>1, <1>2, ConcatProperties DEF Cadena
<1>4. Len(c.falta) \in Nat /\ Len(c.pet) \in Nat /\ Len(c.falta) <= Len(c.pet)
  BY <1>1, LenProperties DEF ConexionBien, PideBien
<1> HIDE DEF f, s
<1>5. d = [c EXCEPT !.ida = s, !.falta = f]
  BY DEF s, f
<1>6. /\ d \in EstadoConexion /\ d.ida = s /\ d.falta = f /\ d.pet = c.pet /\ d.pc = c.pc /\ d.visto = c.visto
      /\ d.cortada = c.cortada /\ d.leidos = c.leidos /\ d.resp = c.resp /\ d.escribe = c.escribe
      /\ d.cerrada = c.cerrada /\ d.vuelta = c.vuelta
  BY <1>2, <1>3, <1>5 DEF EstadoConexion
<1>7. Empezada(d)
  BY <1>2, <1>4, <1>6 DEF Empezada
<1>8. c.pc = "lee" => \E r \in Cadena : s = Append(c.pet[1], NUL) \o r
  <2>1. SUFFICES ASSUME c.pc = "lee" PROVE \E r \in Cadena : s = Append(c.pet[1], NUL) \o r
    OBVIOUS
  <2>2. Append(c.pet[1], NUL) \in Cadena
    <3>1. 1 \in 1..Len(c.pet)
      BY <1>2, <1>4, EmptySeq, <1>1 DEF ConexionBien, PideBien, Codigo
    <3> QED  BY <1>1, <3>1, ElementOfSeq, CampoDeTexto
  <2>3. CASE Empezada(c)
    <3>1. PICK r \in Cadena : c.ida = Append(c.pet[1], NUL) \o r
      BY <2>1, <2>3 DEF ConexionBien, PideBien
    <3>2. s = Append(c.pet[1], NUL) \o (r \o h) /\ r \o h \in Cadena
      <4>1. s = (Append(c.pet[1], NUL) \o r) \o h
        BY <3>1 DEF s
      <4> HIDE DEF s, h
      <4> QED  BY <1>2, <2>2, <4>1, Asocia
    <3> QED  BY <3>2
  <2>4. CASE ~Empezada(c)
    <3>1. c.ida = <<>> /\ h = Append(c.pet[1], NUL)
      <4>1. Len(c.falta) = Len(c.pet)
        BY <1>4, <2>4 DEF Empezada
      <4>2. 1 \in 1..Len(c.falta) /\ Len(c.pet) - Len(c.falta) + 1 = 1
        BY <1>1, <1>4, <4>1, EmptySeq
      <4> QED  BY <1>2, <2>4, <4>2 DEF ConexionBien, PideBien
    <3>2. s = h /\ h \o <<>> = h
      BY <1>2, <3>1, ConcatEmptySeq DEF s, Cadena
    <3> QED  BY <3>1, <3>2, CadenaVacia
  <2> QED  BY <2>3, <2>4
<1>9. PideBien(d)
  <2>1. Codigo(d.pet) /\ Len(d.falta) <= Len(d.pet)
    BY <1>2, <1>4, <1>6 DEF ConexionBien, PideBien
  <2>2. d.pc = "lee" => \E r \in Cadena : d.ida = Append(d.pet[1], NUL) \o r
    BY <1>6, <1>8
  <2>3. ASSUME NEW j \in 1..Len(f) PROVE f[j] = Append(c.pet[Len(c.pet) - Len(f) + j], NUL)
    <3>1. j + 1 \in 1..Len(c.falta) /\ Len(c.pet) - Len(c.falta) + (j + 1) = Len(c.pet) - Len(f) + j
      <4>1. \A a, b, g \in Nat : g = b - 1 => \A i \in 1..g : i + 1 \in 1..b /\ a - b + (i + 1) = a - g + i
        OBVIOUS
      <4>2. Len(f) \in Nat
        BY <1>2, LenProperties
      <4> QED  BY <1>2, <1>4, <4>1, <4>2
    <3> QED  BY <1>2, <3>1 DEF ConexionBien, PideBien
  <2> QED  BY <1>6, <1>7, <2>1, <2>2, <2>3 DEF PideBien
<1>10. VeBien(d, vivo) /\ IF Atendida(d) THEN Responde(d, vivo) ELSE SinAtender(d, vivo)
  BY <1>6 DEF ConexionBien, VeBien, Atendida, Responde, SinAtender
<1> QED  BY <1>2, <1>6, <1>9, <1>10 DEF ConexionBien

(* The client goes, perhaps in the middle of a field.                      *)
LEMMA CortaBien ==
  ASSUME NEW c \in EstadoConexion, NEW vivo \in BOOLEAN, ConexionBien(c, vivo), NEW trozo \in Cadena,
         NEW d, d = [c EXCEPT !.cortada = TRUE, !.ida = @ \o trozo]
  PROVE  d \in EstadoConexion /\ ConexionBien(d, vivo)
<1> DEFINE s == c.ida \o trozo
<1>1. c.ida \in Cadena /\ c.pet \in Seq(Texto)
  BY DEF EstadoConexion
<1>2. s \in Cadena
  BY <1>1, ConcatProperties DEF Cadena
<1> HIDE DEF s
<1>3. /\ d \in EstadoConexion /\ d.ida = s /\ d.falta = c.falta /\ d.pet = c.pet /\ d.pc = c.pc /\ d.visto = c.visto
      /\ d.cortada /\ d.leidos = c.leidos /\ d.resp = c.resp /\ d.escribe = c.escribe
      /\ d.cerrada = c.cerrada /\ d.vuelta = c.vuelta
  BY <1>2 DEF EstadoConexion, s
<1>4. Empezada(c) /\ c.pc = "lee" => \E r \in Cadena : s = Append(c.pet[1], NUL) \o r
  <2>1. SUFFICES ASSUME Empezada(c), c.pc = "lee" PROVE \E r \in Cadena : s = Append(c.pet[1], NUL) \o r
    OBVIOUS
  <2>2. Append(c.pet[1], NUL) \in Cadena
    <3>1. 1 \in 1..Len(c.pet)
      BY <1>1, EmptySeq DEF ConexionBien, PideBien, Codigo
    <3> QED  BY <1>1, <3>1, ElementOfSeq, CampoDeTexto
  <2>3. PICK r \in Cadena : c.ida = Append(c.pet[1], NUL) \o r
    BY <2>1 DEF ConexionBien, PideBien
  <2>4. s = Append(c.pet[1], NUL) \o (r \o trozo) /\ r \o trozo \in Cadena
    <3>1. s = (Append(c.pet[1], NUL) \o r) \o trozo
      BY <2>3 DEF s
    <3> HIDE DEF s
    <3> QED  BY <2>2, <3>1, Asocia
  <2> QED  BY <2>4
<1>5. PideBien(d)
  BY <1>3, <1>4 DEF ConexionBien, PideBien, Empezada
<1>6. VeBien(d, vivo) /\ IF Atendida(d) THEN Responde(d, vivo) ELSE SinAtender(d, vivo)
  BY <1>3 DEF ConexionBien, VeBien, Atendida, Responde, SinAtender
<1> QED  BY <1>3, <1>5, <1>6 DEF ConexionBien

(* The answer is shown, and the connection closed.                         *)
LEMMA MuestraBien ==
  ASSUME NEW c \in EstadoConexion, NEW vivo \in BOOLEAN, ConexionBien(c, vivo), Atendida(c),
         NEW id \in Ids \cup {SinId, CERO}, id = c.resp.id \/ (~vivo /\ id = CERO),
         NEW d, d = [c EXCEPT !.visto = [campos |-> c.resp.campos, id |-> id], !.cortada = TRUE, !.vuelta = <<>>]
  PROVE  d \in EstadoConexion /\ ConexionBien(d, vivo)
<1> DEFINE v == [campos |-> c.resp.campos, id |-> id]
<1>1. v \in Visto /\ v.campos = c.resp.campos /\ v.id = id
  BY DEF EstadoConexion, Respuesta, Visto
<1> HIDE DEF v
<1>2. /\ d \in EstadoConexion /\ d.ida = c.ida /\ d.falta = c.falta /\ d.pet = c.pet /\ d.pc = c.pc /\ d.visto = v
      /\ d.cortada /\ d.leidos = c.leidos /\ d.resp = c.resp /\ d.escribe = c.escribe
      /\ d.cerrada = c.cerrada
  BY <1>1, CadenaVacia DEF EstadoConexion, v
<1>3. PideBien(d)
  BY <1>2 DEF ConexionBien, PideBien, Empezada
<1>4. VeBien(d, vivo) /\ Atendida(d) /\ Responde(d, vivo)
  BY <1>1, <1>2 DEF ConexionBien, VeBien, Atendida, Responde
<1> QED  BY <1>2, <1>3, <1>4 DEF ConexionBien

(* The code that the server reads is the one of the request, if the client *)
(* got to send it.                                                         *)
LEMMA CodigoLeido ==
  ASSUME NEW c \in EstadoConexion, NEW vivo \in BOOLEAN, ConexionBien(c, vivo), c.pc = "lee"
  PROVE  /\ Op(c.pet) \in Ops /\ c.pet[1] = <<Op(c.pet)>>
         /\ Empezada(c) => Terminada(c.ida) /\ readLine(c.ida, SinLeer).campo[1] = Op(c.pet)
         /\ ~Empezada(c) /\ ~c.cortada => ~Terminada(c.ida)
<1>1. PICK op \in Ops : c.pet[1] = <<op>>
  BY DEF ConexionBien, PideBien, Codigo
<1>2. Op(c.pet) = op
  BY <1>1 DEF Op
<1>3. op \in Simbolos \ {NUL, NL}
  BY ClienteSano
<1> DEFINE x == <<op>>
<1>4. x \in Linea /\ x \in Cadena /\ Len(x) = 1 /\ x[1] = op
  BY <1>3, DeUno DEF Linea, Cadena
<1> HIDE DEF x
<1>5. Recorta(x) = x
  <2>1. MAXSIZE \in Nat /\ MAXSIZE >= 2
    BY TramaSana, ClienteSano
  <2>2. Len(x) <= MAXSIZE - 1
    BY <1>4, <2>1
  <2> QED  BY <1>4, <2>2, RecortaBien
<1>6. ASSUME Empezada(c) PROVE Terminada(c.ida) /\ readLine(c.ida, SinLeer).campo[1] = op
  <2>1. PICK r \in Cadena : c.ida = Append(x, NUL) \o r
    BY <1>1, <1>6 DEF ConexionBien, PideBien, x
  <2> QED  BY <1>4, <1>5, <2>1, LeeCampo
<1>7. ASSUME ~Empezada(c), ~c.cortada PROVE ~Terminada(c.ida)
  <2>1. c.ida = <<>>
    BY <1>7 DEF ConexionBien, PideBien
  <2>2. Primero(<<>>, {NUL, NL}) \in 1..(Len(<<>>) + 1)
    BY CadenaVacia, PrimeroBien
  <2> QED  BY <2>1, <2>2, EmptySeq DEF Terminada
<1> QED  BY <1>1, <1>2, <1>6, <1>7

LEMMA AtiendeBien ==
  ASSUME NEW c \in EstadoConexion, ConexionBien(c, TRUE), c.pc = "lee",
         NEW op \in Ops, ~c.cortada => Empezada(c) /\ op = Op(c.pet),
         NEW l \in Lecturas(c.ida, NumCampos[op]), NEW r \in Respuestas(op),
         NEW d, d = [c EXCEPT !.pc = "escribe", !.ida = l.resto, !.leidos = [l.campos EXCEPT ![1] = <<op>>],
                              !.resp = r, !.escribe = Escrito(r)]
  PROVE  d \in EstadoConexion /\ ConexionBien(d, TRUE)
<1> DEFINE leidos == [l.campos EXCEPT ![1] = <<op>>]
           e == Escrito(r)
<1>1. NumCampos[op] \in 2..4
  BY DEF NumCampos, Ops
<1>2. l.resto \in Cadena /\ l.campos \in Seq(Cadena) /\ Len(l.campos) = NumCampos[op]
  <2>1. NumCampos[op] \in Nat /\ c.ida \in Cadena
    BY <1>1 DEF EstadoConexion
  <2>2. l \in Leidas /\ Len(l.campos) = NumCampos[op]
    BY <2>1, LecturasBien
  <2> QED  BY <2>2 DEF Leidas
<1>3. <<op>> \in Cadena
  BY ClienteSano, DeUno DEF Cadena
<1>4. leidos \in Seq(Cadena) /\ Len(leidos) = NumCampos[op] /\ leidos[1] = <<op>>
  BY <1>1, <1>2, <1>3, ExceptSeq
<1>5. leidos # <<>> /\ leidos[1][1] = op
  BY <1>1, <1>4, EmptySeq
<1>6. r \in Respuesta /\ r.campos # <<>>
  BY RespuestasBien
<1>7. e \in Seq(Cadena) /\ e # <<>>
  BY <1>6, EscritoBien
<1> HIDE DEF leidos, e
<1>8. SinAtender(c, TRUE) /\ PideBien(c)
  BY DEF ConexionBien, Atendida
<1>9. /\ d \in EstadoConexion /\ d.ida = l.resto /\ d.falta = c.falta /\ d.pet = c.pet /\ d.pc = "escribe"
      /\ d.visto = c.visto /\ d.cortada = c.cortada /\ d.leidos = leidos /\ d.resp = r /\ d.escribe = e
      /\ d.cerrada = c.cerrada /\ d.vuelta = <<>>
  BY <1>2, <1>4, <1>6, <1>7, <1>8 DEF EstadoConexion, Pcs, SinAtender, leidos, e
<1>10. PideBien(d)
  BY <1>8, <1>9 DEF PideBien, Empezada
<1>11. Lleva(<<>>, r.campos)
  <2>1. Len(r.campos) \in Nat
    BY <1>6, LenProperties DEF Respuesta
  <2>2. LlevaHasta(<<>>, r.campos, 0)
    BY DEF LlevaHasta
  <2> QED  BY <2>1, <2>2 DEF Lleva
<1>12. <<>> \o e = e /\ Len(<<>>) = 0
  BY <1>7, ConcatEmptySeq
<1>13. ~c.cortada => leidos[1] = c.pet[1]
  BY <1>4, CodigoLeido
<1>14. Codigo(leidos) /\ Len(leidos) <= 4 /\ r \in Respuestas(leidos[1][1])
  BY <1>1, <1>4, <1>5 DEF Codigo
<1>15. Responde(d, TRUE)
  <2>1. Codigo(d.leidos) /\ Len(d.leidos) <= 4 /\ d.resp \in Respuestas(d.leidos[1][1])
    BY <1>9, <1>14
  <2>2. LlegaDe(d.resp, d.vuelta)
    BY <1>9, <1>11, <1>12 DEF LlegaDe
  <2>3. d.vuelta \o d.escribe = Escrito(d.resp)
    BY <1>9, <1>12 DEF e
  <2>4. ~d.cerrada
    BY <1>8, <1>9 DEF SinAtender
  <2> QED  BY <1>7, <1>9, <1>13, <2>1, <2>2, <2>3, <2>4 DEF Responde
<1>16. VeBien(d, TRUE) /\ Atendida(d)
  BY <1>8, <1>9 DEF SinAtender, VeBien, Atendida
<1> QED  BY <1>9, <1>10, <1>15, <1>16 DEF ConexionBien

LEMMA PasaUno ==
  ASSUME NEW S, NEW v \in Seq(S), NEW e \in Seq(S), e # <<>>
  PROVE  Append(v, Head(e)) \in Seq(S) /\ Tail(e) \in Seq(S) /\ Append(v, Head(e)) \o Tail(e) = v \o e
<1> DEFINE h == Head(e)
           f == Tail(e)
           w == Append(v, h)
<1>1. h = e[1] /\ h \in S /\ f \in Seq(S) /\ Len(f) = Len(e) - 1 /\ \A i \in 1..Len(f) : f[i] = e[i + 1]
  BY HeadTailProperties
<1>2. Len(v) \in Nat /\ Len(e) \in Nat \ {0}
  BY LenProperties, EmptySeq
<1> HIDE DEF h, f
<1>3. w \in Seq(S) /\ Len(w) = Len(v) + 1 /\ w[Len(v) + 1] = h /\ \A i \in 1..Len(v) : w[i] = v[i]
  BY <1>1, AppendProperties
<1> HIDE DEF w
<1>4. /\ w \o f \in Seq(S) /\ Len(w \o f) = Len(w) + Len(f)
      /\ \A i \in 1..Len(w) + Len(f) : (w \o f)[i] = IF i <= Len(w) THEN w[i] ELSE f[i - Len(w)]
  BY <1>1, <1>3, ConcatProperties
<1>5. /\ v \o e \in Seq(S) /\ Len(v \o e) = Len(v) + Len(e)
      /\ \A i \in 1..Len(v) + Len(e) : (v \o e)[i] = IF i <= Len(v) THEN v[i] ELSE e[i - Len(v)]
  BY ConcatProperties
<1>6. ASSUME NEW i \in 1..Len(v) + Len(e) PROVE (w \o f)[i] = (v \o e)[i]
  <2>1. i \in 1..Len(w) + Len(f)
    BY <1>1, <1>2, <1>3
  <2>2. CASE i <= Len(v)
    <3>1. i \in 1..Len(v) /\ i <= Len(w)
      BY <1>2, <1>3, <2>2
    <3> QED  BY <1>3, <1>4, <1>5, <2>1, <2>2, <3>1
  <2>3. CASE i = Len(v) + 1
    <3>1. i <= Len(w) /\ ~(i <= Len(v)) /\ i - Len(v) = 1
      BY <1>2, <1>3, <2>3
    <3>2. (w \o f)[i] = h
      BY <1>3, <1>4, <2>1, <2>3, <3>1
    <3>3. (v \o e)[i] = e[1]
      BY <1>5, <3>1
    <3> QED  BY <1>1, <3>2, <3>3
  <2>4. CASE i > Len(v) + 1
    <3>1. ~(i <= Len(w)) /\ ~(i <= Len(v)) /\ i - Len(w) \in 1..Len(f) /\ (i - Len(w)) + 1 = i - Len(v)
      BY <1>1, <1>2, <1>3, <2>4
    <3>2. (w \o f)[i] = f[i - Len(w)]
      BY <1>4, <2>1, <3>1
    <3>3. (v \o e)[i] = e[i - Len(v)]
      BY <1>5, <3>1
    <3>4. f[i - Len(w)] = e[(i - Len(w)) + 1]
      BY <1>1, <3>1
    <3> QED  BY <3>1, <3>2, <3>3, <3>4
  <2>5. \A j \in Nat : i <= j \/ i = j + 1 \/ i > j + 1
    BY <1>2
  <2> QED  BY <1>2, <2>2, <2>3, <2>4, <2>5
<1>7. Len(w \o f) = Len(v \o e)
  BY <1>1, <1>2, <1>3, <1>4, <1>5
<1>8. w \o f = v \o e
  BY <1>4, <1>5, <1>6, <1>7, SeqEqual
<1> QED  BY <1>1, <1>3, <1>8 DEF w, h, f

(* What Responde says of a thread that is not done.                        *)
LEMMA RespondiendoBien ==
  ASSUME NEW c \in EstadoConexion, ConexionBien(c, TRUE), Atendida(c)
  PROVE  /\ c.resp \in Respuesta /\ c.resp.campos # <<>> /\ c.resp # Nada
         /\ c.resp.id # SinId => Len(c.resp.campos) = 1
         /\ c.vuelta \in Seq(Cadena) /\ c.escribe \in Seq(Cadena)
         /\ ~c.cortada => c.vuelta \o c.escribe = Escrito(c.resp)
<1>1. PICK op \in Ops : c.leidos[1][1] = op /\ c.resp \in Respuestas(op)
  BY DEF ConexionBien, Responde, Codigo
<1>2. c.resp \in Respuesta /\ c.resp.campos # <<>> /\ (c.resp.id # SinId => Len(c.resp.campos) = 1)
  <2>1. "SEND" # "CONNECTEDUSERS"
    OBVIOUS
  <2> QED  BY <1>1, <2>1, RespuestasBien
<1>3. c.resp # Nada
  BY <1>2 DEF Nada
<1> QED  BY <1>2, <1>3 DEF ConexionBien, Responde, EstadoConexion

(* The server writes one piece more.                                       *)
LEMMA RespondeBien ==
  ASSUME NEW c \in EstadoConexion, ConexionBien(c, TRUE), c.pc = "escribe", ~c.cortada,
         NEW d, d = [c EXCEPT !.vuelta = Append(@, Head(c.escribe)), !.escribe = Tail(c.escribe),
                              !.cerrada = (Tail(c.escribe) = <<>>),
                              !.pc = IF Tail(c.escribe) = <<>> THEN "fin" ELSE "escribe"]
  PROVE  d \in EstadoConexion /\ ConexionBien(d, TRUE)
<1> DEFINE w == Append(c.vuelta, Head(c.escribe))
           f == Tail(c.escribe)
<1>1. Atendida(c) /\ Responde(c, TRUE) /\ PideBien(c) /\ VeBien(c, TRUE)
  BY DEF Atendida, ConexionBien
<1>2. c.escribe # <<>>
  BY <1>1 DEF Responde
<1>3. /\ c.resp \in Respuesta /\ c.resp.campos # <<>> /\ (c.resp.id # SinId => Len(c.resp.campos) = 1)
      /\ c.vuelta \in Seq(Cadena) /\ c.escribe \in Seq(Cadena) /\ c.vuelta \o c.escribe = Escrito(c.resp)
  BY <1>1, RespondiendoBien
<1>4. w \in Seq(Cadena) /\ f \in Seq(Cadena) /\ w \o f = Escrito(c.resp)
  <2>1. w \in Seq(Cadena) /\ f \in Seq(Cadena) /\ w \o f = c.vuelta \o c.escribe
    <3> DEFINE T == Cadena
    <3>1. c.vuelta \in Seq(T) /\ c.escribe \in Seq(T)
      BY <1>3
    <3> HIDE DEF T
    <3>2. w \in Seq(T) /\ f \in Seq(T) /\ w \o f = c.vuelta \o c.escribe
      BY <1>2, <3>1, PasaUno
    <3> QED  BY <3>2 DEF T
  <2> HIDE DEF w, f
  <2> QED  BY <1>3, <2>1
<1> HIDE DEF w, f
<1>5. LlegaDe(c.resp, w)
  BY <1>3, <1>4, ParteDeEscrito
<1>6. d = [c EXCEPT !.vuelta = w, !.escribe = f, !.cerrada = (f = <<>>), !.pc = IF f = <<>> THEN "fin" ELSE "escribe"]
  BY DEF w, f
<1>7. /\ d \in EstadoConexion /\ d.ida = c.ida /\ d.falta = c.falta /\ d.pet = c.pet
      /\ d.pc = (IF f = <<>> THEN "fin" ELSE "escribe") /\ d.visto = c.visto
      /\ d.cortada = c.cortada /\ d.leidos = c.leidos /\ d.resp = c.resp /\ d.escribe = f
      /\ (d.cerrada <=> f = <<>>) /\ d.vuelta = w
  BY <1>4, <1>6 DEF EstadoConexion, Pcs
<1>8. PideBien(d)
  BY <1>1, <1>7 DEF PideBien, Empezada
<1>9. VeBien(d, TRUE) /\ Atendida(d)
  BY <1>1, <1>7 DEF VeBien, Atendida
<1>10. Responde(d, TRUE)
  <2>1. Codigo(d.leidos) /\ Len(d.leidos) <= 4 /\ d.resp \in Respuestas(d.leidos[1][1])
    BY <1>1, <1>7 DEF Responde
  <2>2. d.leidos[1] = d.pet[1]
    BY <1>1, <1>7 DEF Responde
  <2>3. /\ d.pc = "fin" => d.escribe = <<>> /\ d.cerrada
        /\ d.cerrada => d.pc = "fin"
        /\ d.pc = "escribe" => d.escribe # <<>>
    <3>1. CASE f = <<>>
      BY <1>7, <3>1
    <3>2. CASE f # <<>>
      BY <1>7, <3>2
    <3> QED  BY <3>1, <3>2
  <2> QED  BY <1>4, <1>5, <1>7, <2>1, <2>2, <2>3 DEF Responde
<1> QED  BY <1>7, <1>8, <1>9, <1>10 DEF ConexionBien

(* It writes to a client that has gone.                                    *)
LEMMA EnVanoBien ==
  ASSUME NEW c \in EstadoConexion, ConexionBien(c, TRUE), c.pc = "escribe", c.cortada,
         NEW d, d = [c EXCEPT !.pc = "fin", !.escribe = <<>>, !.cerrada = TRUE]
  PROVE  d \in EstadoConexion /\ ConexionBien(d, TRUE)
<1>1. Atendida(c) /\ Responde(c, TRUE) /\ PideBien(c) /\ VeBien(c, TRUE)
  BY DEF Atendida, ConexionBien
<1>2. /\ d \in EstadoConexion /\ d.ida = c.ida /\ d.falta = c.falta /\ d.pet = c.pet /\ d.pc = "fin" /\ d.visto = c.visto
      /\ d.cortada /\ d.leidos = c.leidos /\ d.resp = c.resp /\ d.escribe = <<>> /\ d.cerrada
  BY CadenaVacia DEF EstadoConexion, Pcs
<1>3. PideBien(d)
  BY <1>1, <1>2 DEF PideBien, Empezada
<1>4. VeBien(d, TRUE) /\ Atendida(d) /\ Responde(d, TRUE)
  BY <1>1, <1>2 DEF VeBien, Atendida, Responde
<1> QED  BY <1>2, <1>3, <1>4 DEF ConexionBien

(* The server ends.                                                        *)
LEMMA CaeBien ==
  ASSUME NEW c \in EstadoConexion, ConexionBien(c, TRUE),
         NEW d, d = [c EXCEPT !.vuelta = IF c.cortada THEN <<>> ELSE @ \o Trozo(c.escribe),
                              !.cerrada = @ \/ c.pc # "nada"]
  PROVE  d \in EstadoConexion /\ ConexionBien(d, FALSE)
<1> DEFINE v == IF c.cortada THEN <<>> ELSE c.vuelta \o Trozo(c.escribe)
           q == c.cerrada \/ c.pc # "nada"
<1>1. PideBien(c) /\ VeBien(c, TRUE)
  BY DEF ConexionBien
<1>2. v \in Seq(Cadena) /\ IF Atendida(c) THEN ~c.cortada => LlegaDe(c.resp, v) ELSE v = <<>>
  <2>1. CASE c.cortada
    BY <2>1, CadenaVacia
  <2>2. CASE ~c.cortada /\ Atendida(c)
    <3>1. /\ c.resp \in Respuesta /\ c.resp.campos # <<>> /\ (c.resp.id # SinId => Len(c.resp.campos) = 1)
          /\ c.vuelta \in Seq(Cadena) /\ c.escribe \in Seq(Cadena) /\ c.vuelta \o c.escribe = Escrito(c.resp)
      BY <2>2, RespondiendoBien
    <3>2. v = c.vuelta \o Trozo(c.escribe)
      BY <2>2
    <3> HIDE DEF v
    <3> QED  BY <2>2, <3>1, <3>2, ParteDeEscrito
  <2>3. CASE ~c.cortada /\ ~Atendida(c)
    <3>1. c.vuelta = <<>> /\ c.escribe = <<>>
      BY <2>3 DEF ConexionBien, SinAtender
    <3>2. Trozo(c.escribe) = <<>>
      BY <3>1 DEF Trozo
    <3>3. v = <<>>
      BY <2>3, <3>1, <3>2, ConcatEmptySeq, CadenaVacia
    <3> HIDE DEF v
    <3> QED  BY <2>3, <3>3, CadenaVacia
  <2> QED  BY <2>1, <2>2, <2>3
<1> HIDE DEF v
<1>3. q \in BOOLEAN
  OBVIOUS
<1> HIDE DEF q
<1>4. /\ d \in EstadoConexion /\ d.ida = c.ida /\ d.falta = c.falta /\ d.pet = c.pet /\ d.pc = c.pc /\ d.visto = c.visto
      /\ d.cortada = c.cortada /\ d.leidos = c.leidos /\ d.resp = c.resp /\ d.escribe = c.escribe
      /\ d.cerrada = q /\ d.vuelta = v
  BY <1>2, <1>3 DEF EstadoConexion, v, q
<1>5. PideBien(d) /\ VeBien(d, FALSE)
  BY <1>1, <1>4 DEF PideBien, Empezada, VeBien
<1>6. CASE Atendida(c)
  <2>1. Responde(c, TRUE)
    BY <1>6 DEF ConexionBien
  <2>2. d.pc = "fin" => d.escribe = <<>> /\ d.cerrada
    BY <1>4, <2>1 DEF Responde, q
  <2>3. Responde(d, FALSE)
    BY <1>2, <1>4, <1>6, <2>1, <2>2 DEF Responde
  <2> QED  BY <1>4, <1>5, <1>6, <2>3 DEF ConexionBien, Atendida
<1>7. CASE ~Atendida(c)
  <2>1. SinAtender(d, FALSE)
    BY <1>2, <1>4, <1>7 DEF ConexionBien, SinAtender
  <2> QED  BY <1>4, <1>5, <1>7, <2>1 DEF ConexionBien, Atendida
<1> QED  BY <1>6, <1>7

-----------------------------------------------------------------------------
(* The connections, step by step.                                          *)

LEMMA InitConexiones == Init => Conexiones
<1> SUFFICES ASSUME Init PROVE Conexiones
  OBVIOUS
<1>1. Libre \in EstadoConexion
  BY CadenaVacia DEF Libre, Nada, EstadoConexion, Respuesta, Visto, Pcs
<1>2. con = [i \in 1..MaxPet |-> Libre] /\ n = 0 /\ servidor = "vivo" /\ ventana = "quieta"
  BY DEF Init
<1>3. con \in [1..MaxPet -> EstadoConexion]
  BY <1>1, <1>2
<1>4. Tipos
  <2>1. MaxPet \in Nat /\ MaxFallos \in Nat
    BY ClienteSano
  <2>2. con_alias = FALSE /\ corriendo = FALSE /\ fuera = FALSE /\ fallos = 0
    BY DEF Init
  <2>3. n \in 0..MaxPet /\ fallos \in 0..MaxFallos
    BY <1>2, <2>1, <2>2
  <2>4. {con_alias, corriendo, fuera} \subseteq BOOLEAN
    BY <2>2
  <2> QED  BY <1>2, <1>3, <2>3, <2>4 DEF Tipos
<1>5. \A i \in 1..MaxPet : ~(i <= n) /\ con[i] = Libre
  BY <1>2
<1> QED  BY <1>2, <1>4, <1>5 DEF Conexiones, EnVentana, Culpable

(* The variables that have no structure keep their kind.                   *)
Sueltas ==
  /\ ventana \in {"quieta", "envia", "espera", "colgada", "acabada"}
  /\ n \in 0..MaxPet /\ {con_alias, corriendo, fuera} \subseteq BOOLEAN /\ fallos \in 0..MaxFallos
  /\ servidor \in {"vivo", "exit(-1)", "SIGPIPE", "fallo"}

LEMMA SueltasPaso == Conexiones /\ [Next]_vars => Sueltas'
<1> SUFFICES ASSUME Conexiones, [Next]_vars PROVE Sueltas'
  OBVIOUS
<1>1. Sueltas
  BY DEF Conexiones, Tipos, Sueltas
<1>2. Falla => fallos' \in 0..MaxFallos
  BY <1>1, ClienteSano DEF Sueltas, Falla
<1>3. n < MaxPet => n + 1 \in 0..MaxPet
  BY <1>1, ClienteSano DEF Sueltas
<1>4. CASE UNCHANGED vars
  BY <1>1, <1>4 DEF vars, Sueltas
<1>5. CASE Pulsar \/ PulsarSend \/ PulsarConnect
  <2>1. \E pet, pc : Pide(pet) /\ Acoge(pc)
    BY <1>5 DEF Pulsar, PulsarSend, PulsarConnect, Pide
  <2>2. fallos' \in 0..MaxFallos
    BY <1>1, <1>2, <2>1 DEF Acoge, Sueltas
  <2>3. n' \in 0..MaxPet
    BY <1>3, <1>5 DEF Pulsar, PulsarSend, PulsarConnect, Pide
  <2> QED  BY <1>1, <1>5, <2>2, <2>3 DEF Pulsar, PulsarSend, PulsarConnect, Pide, Sueltas
<1>6. CASE SinServicioWeb \/ Salir \/ Matar \/ CaerServidor \/ Entregar
  BY <1>1, <1>2, <1>6 DEF SinServicioWeb, Salir, Matar, CaerServidor, Cae, Entregar, Sueltas
<1>7. ASSUME NEW sig \in {"quieta", "envia", "espera", "colgada", "acabada"}, NEW c, Ventana(sig, c),
             SinCambios \/ (corriendo' = FALSE /\ fuera' = TRUE)
      PROVE  Sueltas'
  BY <1>1, <1>7 DEF Ventana, SinCambios, Sueltas
<1>8. CASE ventana_sigue
  <2>1. CASE Enviar \/ LeerRespuestaRara \/ LeerRespuestaCortada \/ Rompe
    BY <1>7, <2>1 DEF Enviar, EnviaHasta, LeerRespuestaRara, LeerRespuestaCortada, Rompe
  <2>2. ASSUME NEW id, Muestra(id, FALSE) PROVE Sueltas'
    BY <1>7, <2>2 DEF Muestra
  <2> QED  BY <1>8, <2>1, <2>2 DEF ventana_sigue, Mostrar, MostrarConId
<1>9. CASE \E i \in 1..MaxPet : hilo(i)
  BY <1>1, <1>9 DEF hilo, Atender, CodigoNoValido, Responder, RespondeYCierra, ResponderEnVano, Hilo,
                    CaeConTodos, Cae, Sueltas
<1>10. CASE \E e \in 1..MaxEnt : EscribirEntrega(e) \/ EscribirEnVano(e)
  BY <1>1, <1>10 DEF EscribirEntrega, EscribirEnVano, Cae, Sueltas
<1>11. CASE \E o \in Oyentes : oyente(o)
  BY <1>1, <1>11 DEF oyente, Mirar, MiraSi, Aceptar, LeerEntrega, LeerRara, LeerCortada, Oyente, Sueltas
<1> QED  BY <1>4, <1>5, <1>6, <1>8, <1>9, <1>10, <1>11 DEF Next, Sigue

(* The steps that leave the connections as they are.                       *)
LEMMA QuietasConexiones ==
  ASSUME Conexiones, Sueltas', UNCHANGED <<con, n, servidor>>, ventana' \in {ventana, "quieta", "acabada"}
  PROVE  Conexiones'
BY DEF Conexiones, Tipos, Sueltas, EnVentana, Culpable

(* One connection changes.                                                 *)
LEMMA UnaConexion ==
  ASSUME Conexiones, Sueltas', NEW i \in 1..n, NEW c \in EstadoConexion, ConexionBien(c, servidor = "vivo"),
         con' = [con EXCEPT ![i] = c], UNCHANGED <<n, servidor>>, servidor = "vivo" \/ ~con[i].cortada,
         EnVentana'
  PROVE  Conexiones'
<1>1. n \in 0..MaxPet /\ MaxPet \in Nat /\ con \in [1..MaxPet -> EstadoConexion]
  BY ClienteSano DEF Conexiones, Tipos
<1>2. con' \in [1..MaxPet -> EstadoConexion] /\ con'[i] = c /\ \A j \in 1..MaxPet \ {i} : con'[j] = con[j]
  BY <1>1
<1>3. Culpable'
  <2>1. SUFFICES ASSUME servidor = "exit(-1)" PROVE \E j \in 1..n : SinCodigo(con'[j])
    BY DEF Culpable
  <2>2. PICK j \in 1..n : SinCodigo(con[j])
    BY <2>1 DEF Conexiones, Culpable
  <2>3. j # i /\ j \in 1..MaxPet
    BY <1>1, <2>1, <2>2 DEF SinCodigo
  <2> QED  BY <1>2, <2>2, <2>3
<1>4. \A j \in 1..MaxPet : IF j <= n THEN ConexionBien(con'[j], servidor = "vivo") ELSE con'[j] = Libre
  BY <1>1, <1>2 DEF Conexiones
<1>5. Tipos'
  BY <1>2 DEF Sueltas, Tipos
<1> QED  BY <1>3, <1>4, <1>5 DEF Conexiones

(* The window asks for one operation more.                                 *)
LEMMA PideConexiones ==
  ASSUME Conexiones, Sueltas', n < MaxPet, NEW pet \in Seq(Texto), Codigo(pet), Pide(pet)
  PROVE  Conexiones'
<1>1. n \in 0..MaxPet /\ MaxPet \in Nat /\ con \in [1..MaxPet -> EstadoConexion]
  BY ClienteSano DEF Conexiones, Tipos
<1>2. PICK pc \in {"nada", "sin_hilo", "lee"} :
        con' = [con EXCEPT ![n + 1] = [Libre EXCEPT !.pet = pet, !.falta = Piezas(pet), !.pc = pc]]
  BY DEF Pide, Acoge
<1> DEFINE vivo == servidor = "vivo"
           c == [Libre EXCEPT !.pet = pet, !.falta = Piezas(pet), !.pc = pc]
<1>3. n' = n + 1 /\ con' = [con EXCEPT ![n + 1] = c] /\ UNCHANGED servidor
  BY <1>2 DEF Pide
<1>4. c \in EstadoConexion /\ ConexionBien(c, vivo) /\ ~c.cortada /\ c.falta # <<>>
  <2> DEFINE v == vivo
  <2>1. v \in BOOLEAN /\ c = [Libre EXCEPT !.pet = pet, !.falta = Piezas(pet), !.pc = pc]
    OBVIOUS
  <2> HIDE DEF v, c
  <2>2. c \in EstadoConexion /\ ConexionBien(c, v) /\ ~c.cortada /\ c.falta # <<>>
    BY <2>1, NuevaBien
  <2> QED  BY <2>2 DEF v
<1> HIDE DEF c
<1>5. n + 1 \in 1..MaxPet
  BY <1>1
<1>6. con' \in [1..MaxPet -> EstadoConexion] /\ con'[n + 1] = c /\ \A j \in 1..MaxPet \ {n + 1} : con'[j] = con[j]
  BY <1>1, <1>3, <1>4, <1>5
<1>7. \A j \in 1..MaxPet : IF j <= n + 1 THEN ConexionBien(con'[j], vivo) ELSE con'[j] = Libre
  <2>1. SUFFICES ASSUME NEW j \in 1..MaxPet
                 PROVE  IF j <= n + 1 THEN ConexionBien(con'[j], vivo) ELSE con'[j] = Libre
    OBVIOUS
  <2>2. CASE j = n + 1
    BY <1>1, <1>4, <1>6, <2>2
  <2>3. CASE j # n + 1
    <3>1. con'[j] = con[j] /\ (j <= n + 1 <=> j <= n)
      BY <1>1, <1>6, <2>3
    <3> QED  BY <3>1 DEF Conexiones
  <2> QED  BY <2>2, <2>3
<1>8. EnVentana'
  BY <1>1, <1>3, <1>4, <1>6 DEF EnVentana
<1>9. Culpable'
  <2>1. SUFFICES ASSUME servidor = "exit(-1)" PROVE \E j \in 1..(n + 1) : SinCodigo(con'[j])
    BY <1>3 DEF Culpable
  <2>2. PICK j \in 1..n : SinCodigo(con[j])
    BY <2>1 DEF Conexiones, Culpable
  <2>3. j \in 1..(n + 1) /\ j # n + 1 /\ j \in 1..MaxPet
    BY <1>1
  <2> QED  BY <1>6, <2>2, <2>3
<1>10. Tipos'
  BY <1>6 DEF Sueltas, Tipos
<1> QED  BY <1>3, <1>7, <1>8, <1>9, <1>10 DEF Conexiones

LEMMA PulsarConexiones ==
  ASSUME Conexiones, Sueltas', Pulsar \/ PulsarSend \/ PulsarConnect
  PROVE  Conexiones'
<1>1. \A p \in Peticiones : p \in Seq(Texto) /\ Codigo(p) /\ (Op(p) = "SEND" => Len(p) = 4)
  <2>1. NumCampos["SEND"] = 4
    BY DEF NumCampos, Ops
  <2>2. \A p \in Peticiones : p \in Seq(Texto) /\ Codigo(p)
    BY ClienteSano DEF Codigo
  <2>3. ASSUME NEW p \in Peticiones, Op(p) = "SEND" PROVE Len(p) = 4
    <3>1. Len(p) = NumCampos[Op(p)]
      BY ClienteSano, <2>3
    <3> QED  BY <2>1, <2>3, <3>1
  <2> QED  BY <2>2, <2>3
<1>2. CASE Pulsar
  BY <1>1, <1>2, PideConexiones DEF Pulsar
<1>3. CASE PulsarSend
  <2>1. n < MaxPet /\ \E p \in Peticiones : Op(p) = "SEND" /\ Pide([p EXCEPT ![4] = modify_text(p[4])])
    BY <1>3 DEF PulsarSend
  <2>2. PICK p \in Peticiones : Op(p) = "SEND" /\ Pide([p EXCEPT ![4] = modify_text(p[4])])
    BY <2>1
  <2> DEFINE m == modify_text(p[4])
             pet == [p EXCEPT ![4] = m]
  <2>3. p \in [1..4 -> Texto] /\ p[1] \in {<<op>> : op \in Ops}
    BY <1>1, <2>2, LenProperties DEF Codigo
  <2>4. m \in Texto
    <3>1. p[4] \in Texto
      BY <2>3
    <3> HIDE DEF m
    <3>2. m \in Linea
      BY <3>1, ModificadoEnLinea DEF m
    <3>3. Linea \subseteq Texto
      BY DEF Linea, Texto
    <3> QED  BY <3>2, <3>3
  <2> HIDE DEF m
  <2>5. pet \in [1..4 -> Texto] /\ pet[1] = p[1]
    BY <2>3, <2>4
  <2>6. Pide(pet)
    BY <2>2 DEF m
  <2> HIDE DEF pet
  <2>7. pet \in Seq(Texto) /\ pet # <<>>
    <3>1. pet \in Seq(Texto) /\ DOMAIN pet = 1..4
      BY <2>5, SeqDef
    <3> QED  BY <3>1
  <2>8. Codigo(pet)
    BY <2>3, <2>5, <2>7 DEF Codigo
  <2> QED  BY <2>1, <2>6, <2>7, <2>8, PideConexiones
<1>4. CASE PulsarConnect
  <2>1. PICK o \in Oyentes, p \in Peticiones : Pide(Append(p, <<o>>))
    BY <1>4 DEF PulsarConnect
  <2> DEFINE pet == Append(p, <<o>>)
  <2>2. <<o>> \in Texto
    BY <2>1, ClienteSano DEF Texto
  <2>3. p \in Seq(Texto) /\ Codigo(p) /\ Len(p) \in Nat \ {0}
    BY <1>1, EmptySeq, LenProperties DEF Codigo
  <2>4. pet \in Seq(Texto) /\ Len(pet) = Len(p) + 1 /\ pet[1] = p[1]
    BY <2>2, <2>3, AppendProperties
  <2> HIDE DEF pet
  <2>5. Codigo(pet)
    BY <2>3, <2>4 DEF Codigo
  <2>6. n < MaxPet /\ Pide(pet)
    BY <1>4, <2>1 DEF PulsarConnect, pet
  <2> QED  BY <2>4, <2>5, <2>6, PideConexiones
<1> QED  BY <1>2, <1>3, <1>4

(* The request that the window is at, which it has not closed.             *)
LEMMA LaDeLaVentana ==
  ASSUME Conexiones, ventana \in {"envia", "espera", "colgada"}
  PROVE  /\ n \in 1..MaxPet /\ n \in 1..n /\ con \in [1..MaxPet -> EstadoConexion] /\ con[n] \in EstadoConexion
         /\ ConexionBien(con[n], servidor = "vivo") /\ ~con[n].cortada
<1>1. n \in 0..MaxPet /\ MaxPet \in Nat /\ con \in [1..MaxPet -> EstadoConexion] /\ n > 0 /\ ~con[n].cortada
  BY ClienteSano DEF Conexiones, Tipos, EnVentana
<1>2. n \in 1..MaxPet /\ n \in 1..n
  BY <1>1
<1> QED  BY <1>1, <1>2 DEF Conexiones

LEMMA VentanaConexiones ==
  ASSUME Conexiones, Sueltas', ventana \in {"envia", "espera", "colgada"},
         NEW sig, NEW c \in EstadoConexion, ConexionBien(c, servidor = "vivo"), Ventana(sig, c),
         sig \in {"envia", "espera", "colgada"} => ~c.cortada, sig = "envia" => c.falta # <<>>
  PROVE  Conexiones'
<1>1. /\ n \in 1..MaxPet /\ n \in 1..n /\ con \in [1..MaxPet -> EstadoConexion] /\ ~con[n].cortada
  BY LaDeLaVentana
<1>2. con' = [con EXCEPT ![n] = c] /\ UNCHANGED <<n, servidor>> /\ ventana' = sig /\ con'[n] = c
  BY <1>1 DEF Ventana
<1>3. EnVentana'
  BY <1>1, <1>2 DEF EnVentana
<1> QED  BY <1>1, <1>2, <1>3, UnaConexion

LEMMA RompeConexiones ==
  ASSUME Conexiones, Sueltas', ventana \in {"envia", "espera", "colgada"}, Rompe
  PROVE  Conexiones'
<1> DEFINE vivo == servidor = "vivo"
           c == con[n]
           d == [c EXCEPT !.cortada = TRUE]
           e == [c EXCEPT !.cortada = TRUE, !.ida = @ \o <<>>]
<1>1. c \in EstadoConexion /\ ConexionBien(c, vivo) /\ ~c.cortada /\ vivo \in BOOLEAN
  BY LaDeLaVentana
<1>2. Ventana("acabada", d)
  BY DEF Rompe
<1> HIDE DEF c, vivo
<1>3. d = e
  <2>1. c.ida \o <<>> = c.ida
    BY <1>1, ConcatEmptySeq DEF EstadoConexion, Cadena
  <2> QED  BY <1>1, <2>1 DEF EstadoConexion
<1>4. e \in EstadoConexion /\ ConexionBien(e, vivo)
  BY <1>1, CadenaVacia, CortaBien
<1> HIDE DEF d, e
<1> QED  BY <1>2, <1>3, <1>4, VentanaConexiones DEF vivo

LEMMA EnviarConexiones ==
  ASSUME Conexiones, Sueltas', Enviar
  PROVE  Conexiones'
<1> DEFINE vivo == servidor = "vivo"
           c == con[n]
           d == [c EXCEPT !.ida = @ \o Head(c.falta), !.falta = Tail(@)]
           sig == IF Len(c.falta) <= 1 THEN "espera" ELSE "envia"
<1>1. ventana = "envia" /\ (Ventana(sig, d) \/ Ventana("espera", c))
  BY DEF Enviar, EnviaHasta
<1>2. c \in EstadoConexion /\ ConexionBien(c, vivo) /\ ~c.cortada /\ vivo \in BOOLEAN /\ c.falta # <<>>
  BY <1>1, LaDeLaVentana DEF Conexiones, EnVentana
<1>3. CASE Ventana(sig, d)
  <2> HIDE DEF c, vivo
  <2>1. d \in EstadoConexion /\ ConexionBien(d, vivo) /\ ~d.cortada /\ Len(d.falta) = Len(c.falta) - 1
    BY <1>2, EnviaBien
  <2> HIDE DEF d
  <2>2. sig = "envia" => d.falta # <<>>
    <3>1. Len(c.falta) \in Nat
      BY <1>2, LenProperties DEF EstadoConexion
    <3> QED  BY <2>1, <3>1
  <2> HIDE DEF sig
  <2> QED  BY <1>1, <1>3, <2>1, <2>2, VentanaConexiones DEF vivo
<1>4. CASE Ventana("espera", c)
  <2> HIDE DEF c
  <2> QED  BY <1>1, <1>2, <1>4, VentanaConexiones
<1> QED  BY <1>1, <1>3, <1>4

(* What the window has when it shows an answer is all of it.               *)
LEMMA LoQueSeLee ==
  ASSUME Conexiones, Respondida
  PROVE  /\ Atendida(con[n]) /\ SubSeq(Leido, 1, Esperados(OpDe(n), Leido)) = con[n].resp.campos
         /\ con[n].resp \in Respuestas(OpDe(n)) /\ OpDe(n) \in Ops
<1> DEFINE vivo == servidor = "vivo"
           c == con[n]
<1>1. ventana = "espera" /\ Len(Leido) >= Esperados(OpDe(n), Leido)
  BY DEF Respondida
<1>2. c \in EstadoConexion /\ ConexionBien(c, vivo) /\ ~c.cortada
  BY <1>1, LaDeLaVentana
<1>3. Leido = Campos(c.vuelta) /\ OpDe(n) = Op(c.pet)
  BY DEF Leido, OpDe
<1> HIDE DEF c, vivo
<1>4. PICK op \in Ops : c.pet[1] = <<op>>
  BY <1>2 DEF ConexionBien, PideBien, Codigo
<1>5. Op(c.pet) = op
  BY <1>4 DEF Op
<1>6. Atendida(c)
  <2>1. SUFFICES ASSUME ~Atendida(c) PROVE FALSE
    OBVIOUS
  <2>2. c.vuelta = <<>>
    BY <1>2, <2>1 DEF ConexionBien, SinAtender
  <2> DEFINE vacia == <<>>
             p == Campos(vacia)
  <2>3. vacia \in Seq(Cadena) /\ vacia \in Seq(Texto) /\ Len(vacia) = 0
    BY CadenaVacia
  <2> HIDE DEF vacia
  <2>4. 0 \in 0..Len(vacia) /\ LlevaHasta(vacia, vacia, 0)
    BY <2>3 DEF LlevaHasta
  <2>5. p \in Seq(Texto) /\ Len(p) <= 0
    BY <2>3, <2>4, SoloCampos
  <2> HIDE DEF p
  <2>6. p = <<>> /\ Len(p) = 0
    BY <2>5, LenProperties, EmptySeq
  <2>7. Leido = p
    BY <1>3, <2>2 DEF vacia, p
  <2>8. Esperados(OpDe(n), Leido) = 1
    BY <2>6, <2>7 DEF Esperados, CamposDeRespuesta
  <2> QED  BY <1>1, <2>6, <2>7, <2>8
<1>7. c.resp \in Respuestas(op) /\ Lleva(c.vuelta, c.resp.campos)
  <2>1. c.leidos[1] = <<op>> /\ c.resp \in Respuestas(c.leidos[1][1]) /\ LlegaDe(c.resp, c.vuelta)
    BY <1>2, <1>4, <1>6 DEF ConexionBien, Responde
  <2>2. c.leidos[1][1] = op
    BY <2>1
  <2> QED  BY <2>1, <2>2 DEF LlegaDe
<1>8. c.vuelta \in Seq(Cadena)
  BY <1>2 DEF EstadoConexion
<1>9. SubSeq(Leido, 1, Esperados(op, Leido)) = c.resp.campos
  BY <1>1, <1>3, <1>5, <1>7, <1>8, RespuestaEntera
<1> QED  BY <1>3, <1>5, <1>6, <1>7, <1>9 DEF c

(* The id that is shown with the answer of a SEND.                         *)
LEMMA IdLeido ==
  ASSUME NEW c \in EstadoConexion, NEW vivo \in BOOLEAN, ConexionBien(c, vivo), ~c.cortada, Atendida(c),
         c.resp.id # SinId
  PROVE  /\ Len(c.vuelta) = 2 => c.vuelta[2][1] = c.resp.id
         /\ Len(c.vuelta) = 1 /\ c.cerrada => ~vivo
<1>1. PICK op \in Ops : c.resp \in Respuestas(op)
  BY DEF ConexionBien, Responde, Codigo
<1>2. LlegaDe(c.resp, c.vuelta)
  BY DEF ConexionBien, Responde
<1>3. Len(c.vuelta) = 2 => c.vuelta[2][1] = c.resp.id
  BY <1>2 DEF LlegaDe
<1>4. ASSUME Len(c.vuelta) = 1, c.cerrada, vivo PROVE FALSE
  <2>1. c.resp \in Respuesta /\ c.resp.campos # <<>> /\ c.resp.campos \in Seq(Texto)
    BY <1>1, RespuestasBien DEF Respuesta
  <2>2. c.escribe = <<>> /\ c.vuelta \o c.escribe = Escrito(c.resp)
    BY <1>4 DEF ConexionBien, Responde
  <2>3. c.vuelta = Escrito(c.resp)
    BY <2>2, ConcatEmptySeq DEF EstadoConexion
  <2>4. Len(Escrito(c.resp)) = Len(c.resp.campos) + 1 /\ Len(c.resp.campos) \in Nat \ {0}
    BY <2>1, EscritoBien, LenProperties, EmptySeq
  <2>5. \A k \in Nat \ {0} : k + 1 # 1
    OBVIOUS
  <2>6. Len(Escrito(c.resp)) = 1
    BY <1>4, <2>3
  <2> QED  BY <2>4, <2>5, <2>6
<1> QED  BY <1>3, <1>4

LEMMA MuestraConexiones ==
  ASSUME Conexiones, Sueltas', Respondida, NEW id \in Ids \cup {SinId, CERO},
         id = con[n].resp.id \/ (servidor # "vivo" /\ id = CERO), Muestra(id, FALSE)
  PROVE  Conexiones'
<1> DEFINE vivo == servidor = "vivo"
           c == con[n]
           d == [c EXCEPT !.visto = [campos |-> c.resp.campos, id |-> id], !.cortada = TRUE, !.vuelta = <<>>]
<1>1. ventana = "espera" /\ Atendida(c)
  BY LoQueSeLee DEF Respondida
<1>2. c \in EstadoConexion /\ ConexionBien(c, vivo) /\ vivo \in BOOLEAN
  BY <1>1, LaDeLaVentana
<1>3. Ventana("quieta", d)
  BY LoQueSeLee DEF Muestra
<1>4. id = c.resp.id \/ (~vivo /\ id = CERO)
  OBVIOUS
<1> HIDE DEF c, vivo
<1>5. d \in EstadoConexion /\ ConexionBien(d, vivo)
  BY <1>1, <1>2, <1>4, MuestraBien
<1> HIDE DEF d
<1> QED  BY <1>1, <1>3, <1>5, VentanaConexiones DEF vivo

LEMMA MostrarConexiones ==
  ASSUME Conexiones, Sueltas', Mostrar \/ MostrarConId
  PROVE  Conexiones'
<1> DEFINE vivo == servidor = "vivo"
           c == con[n]
           op == OpDe(n)
<1>1. Respondida /\ ventana = "espera"
  BY DEF Mostrar, MostrarConId, Respondida
<1>2. c \in EstadoConexion /\ ConexionBien(c, vivo) /\ ~c.cortada /\ vivo \in BOOLEAN
  BY <1>1, LaDeLaVentana
<1>3. Atendida(c) /\ c.resp \in Respuestas(op) /\ op \in Ops
  BY <1>1, LoQueSeLee
<1>4. c.resp.id \in Ids \cup {SinId} /\ (op = "SEND" <=> c.resp.id # SinId)
  <2> DEFINE r == c.resp
             o == op
  <2>1. r \in Respuestas(o) /\ o \in Ops
    BY <1>3
  <2> HIDE DEF r, o
  <2>2. r \in Respuesta /\ (o = "SEND" <=> r.id # SinId)
    BY <2>1, RespuestasBien
  <2>3. r.id \in Ids \cup {SinId}
    BY <2>2 DEF Respuesta
  <2> QED  BY <2>2, <2>3 DEF r, o
<1>5. CASE Mostrar
  BY <1>1, <1>4, <1>5, MuestraConexiones DEF Mostrar
<1>6. CASE MostrarConId
  <2>1. op = "SEND"
    BY <1>6 DEF MostrarConId
  <2>2. /\ Len(c.vuelta) = 2 => c.vuelta[2][1] = c.resp.id
        /\ Len(c.vuelta) = 1 /\ c.cerrada => ~vivo
    <3>1. c.resp.id # SinId
      BY <1>4, <2>1
    <3> HIDE DEF c, vivo, op
    <3> QED  BY <1>2, <1>3, <3>1, IdLeido
  <2>3. CASE Len(c.vuelta) = 2 /\ Muestra(c.vuelta[2][1], FALSE)
    BY <1>1, <1>4, <2>2, <2>3, MuestraConexiones
  <2>4. CASE Len(c.vuelta) = 1 /\ c.cerrada /\ Muestra(CERO, FALSE)
    BY <1>1, <2>2, <2>4, MuestraConexiones
  <2>5. CASE Rompe
    BY <1>1, <2>5, RompeConexiones
  <2> QED  BY <1>6, <2>3, <2>4, <2>5 DEF MostrarConId
<1> QED  BY <1>5, <1>6

LEMMA SigueVentanaConexiones ==
  ASSUME Conexiones, Sueltas', ventana_sigue
  PROVE  Conexiones'
<1>1. CASE Enviar
  BY <1>1, EnviarConexiones
<1>2. CASE Mostrar \/ MostrarConId
  BY <1>2, MostrarConexiones
<1>3. CASE LeerRespuestaRara \/ LeerRespuestaCortada
  <2>1. ventana = "espera" /\ (Rompe \/ Ventana("colgada", con[n]))
    BY <1>3 DEF LeerRespuestaRara, LeerRespuestaCortada
  <2>2. CASE Rompe
    BY <2>1, <2>2, RompeConexiones
  <2>3. CASE Ventana("colgada", con[n])
    <3> DEFINE c == con[n]
    <3>1. c \in EstadoConexion /\ ConexionBien(c, servidor = "vivo") /\ ~c.cortada
      BY <2>1, LaDeLaVentana
    <3>2. Ventana("colgada", c)
      BY <2>3
    <3> HIDE DEF c
    <3> QED  BY <2>1, <3>1, <3>2, VentanaConexiones
  <2> QED  BY <2>1, <2>2, <2>3
<1> QED  BY <1>1, <1>2, <1>3 DEF ventana_sigue

(* What gets through of a field, when its client is killed.                *)
LEMMA TrozoDePeticion ==
  ASSUME Conexiones, NEW trozo \in {<<>>} \cup (IF ventana = "envia" THEN ToSet(Trozo(con[n].falta)) ELSE {})
  PROVE  trozo \in Cadena
<1>1. CASE trozo = <<>>
  BY <1>1, CadenaVacia
<1>2. CASE trozo # <<>>
  <2> DEFINE f == con[n].falta
  <2>1. ventana = "envia" /\ trozo \in ToSet(Trozo(f))
    BY <1>2
  <2>2. f \in Seq(Cadena) /\ f # <<>> /\ PideBien(con[n]) /\ con[n].pet \in Seq(Texto)
    BY <2>1, LaDeLaVentana DEF Conexiones, EnVentana, ConexionBien, EstadoConexion
  <2> HIDE DEF f
  <2>3. Head(f) \in Cadena /\ Head(f) # <<>>
    <3>1. Len(f) \in Nat \ {0} /\ Head(f) = f[1] /\ Head(f) \in Cadena
      BY <2>2, HeadTailProperties, EmptySeq, LenProperties
    <3>2. Len(f) <= Len(con[n].pet) /\ f[1] = Append(con[n].pet[Len(con[n].pet) - Len(f) + 1], NUL)
      <4>1. 1 \in 1..Len(f)
        BY <3>1
      <4> QED  BY <2>2, <4>1 DEF PideBien, f
    <3>3. Len(con[n].pet) - Len(f) + 1 \in 1..Len(con[n].pet)
      BY <2>2, <3>1, <3>2, LenProperties
    <3>4. con[n].pet[Len(con[n].pet) - Len(f) + 1] \in Texto
      BY <2>2, <3>3, ElementOfSeq
    <3>5. Append(con[n].pet[Len(con[n].pet) - Len(f) + 1], NUL) # <<>>
      BY <3>4, AppendProperties DEF Texto
    <3> QED  BY <3>1, <3>2, <3>5
  <2>4. Head(Head(f)) \in Simbolos
    BY <2>3, HeadTailProperties DEF Cadena
  <2>5. Trozo(f) = <<>> \/ Trozo(f) = <<<<Head(Head(f))>>>>
    BY DEF Trozo
  <2>6. trozo = <<Head(Head(f))>>
    BY <2>1, <2>5 DEF ToSet
  <2> QED  BY <2>4, <2>6 DEF Cadena
<1> QED  BY <1>1, <1>2

(* The client is killed.                                                   *)
LEMMA MatarConexiones ==
  ASSUME Conexiones, Sueltas', Matar
  PROVE  Conexiones'
<1> DEFINE vivo == servidor = "vivo"
<1>1. n \in 0..MaxPet /\ MaxPet \in Nat /\ con \in [1..MaxPet -> EstadoConexion] /\ vivo \in BOOLEAN
  BY ClienteSano DEF Conexiones, Tipos
<1>2. PICK trozo \in {<<>>} \cup (IF ventana = "envia" THEN ToSet(Trozo(con[n].falta)) ELSE {}) :
        con' = [i \in 1..MaxPet |->
                 IF i # n \/ con[i].cortada THEN con[i] ELSE [con[i] EXCEPT !.cortada = TRUE, !.ida = @ \o trozo]]
  BY DEF Matar
<1>3. trozo \in Cadena
  BY <1>2, TrozoDePeticion
<1>4. ASSUME NEW i \in 1..n
      PROVE  /\ con'[i] \in EstadoConexion /\ ConexionBien(con'[i], vivo) /\ (SinCodigo(con[i]) => SinCodigo(con'[i]))
  <2> DEFINE c == con[i]
             d == [c EXCEPT !.cortada = TRUE, !.ida = @ \o trozo]
  <2>1. i \in 1..MaxPet
    BY <1>1
  <2>2. c \in EstadoConexion /\ ConexionBien(c, vivo)
    BY <1>1, <2>1 DEF Conexiones
  <2>3. CASE con'[i] = c
    BY <2>2, <2>3
  <2>4. CASE ~c.cortada /\ con'[i] = d
    <3>1. ~SinCodigo(con[i])
      BY <2>4 DEF SinCodigo
    <3> HIDE DEF c, vivo
    <3>2. d \in EstadoConexion /\ ConexionBien(d, vivo)
      BY <1>1, <1>3, <2>2, CortaBien
    <3> HIDE DEF d
    <3> QED  BY <2>4, <3>1, <3>2
  <2> QED  BY <1>2, <2>1, <2>3, <2>4
<1>5. \A i \in 1..MaxPet : ~(i <= n) => con'[i] = con[i]
  <2>1. \A i \in 1..MaxPet : ~(i <= n) => i # n
    BY <1>1
  <2> QED  BY <1>2, <2>1
<1> HIDE DEF vivo
<1>6. con' \in [1..MaxPet -> EstadoConexion]
  <2>1. \A i \in 1..MaxPet : con'[i] \in EstadoConexion
    BY <1>1, <1>4, <1>5
  <2>2. con' = [i \in 1..MaxPet |-> con'[i]]
    BY <1>2
  <2> QED  BY <2>1, <2>2
<1>7. UNCHANGED <<n, servidor>> /\ ventana' = "quieta"
  BY DEF Matar
<1>8. \A i \in 1..MaxPet : IF i <= n THEN ConexionBien(con'[i], servidor = "vivo") ELSE con'[i] = Libre
  BY <1>1, <1>4, <1>5 DEF Conexiones, vivo
<1>9. Culpable'
  BY <1>4, <1>7 DEF Conexiones, Culpable
<1> QED  BY <1>6, <1>7, <1>8, <1>9 DEF Conexiones, Tipos, Sueltas, EnVentana

(* The server ends.                                                        *)
LEMMA CaeConexiones ==
  ASSUME Conexiones, Sueltas', servidor = "vivo", NEW causa, causa # "vivo", Cae(causa), UNCHANGED <<ventana, n>>,
         causa = "exit(-1)" => \E i \in 1..n : SinCodigo(con[i])
  PROVE  Conexiones'
<1> DEFINE caida(c) == [c EXCEPT !.vuelta = IF c.cortada THEN <<>> ELSE @ \o Trozo(c.escribe),
                                 !.cerrada = @ \/ c.pc # "nada"]
<1>1. n \in 0..MaxPet /\ MaxPet \in Nat /\ con \in [1..MaxPet -> EstadoConexion]
  BY ClienteSano DEF Conexiones, Tipos
<1>2. con' = [i \in 1..MaxPet |-> caida(con[i])] /\ servidor' = causa
  BY DEF Cae
<1>3. \A i \in 1..MaxPet : con'[i] = caida(con[i])
  BY <1>2
<1>4. ASSUME NEW i \in 1..MaxPet, i <= n
      PROVE  /\ con'[i] \in EstadoConexion /\ ConexionBien(con'[i], FALSE)
  <2> DEFINE c == con[i]
             d == caida(c)
  <2>1. c \in EstadoConexion /\ ConexionBien(c, servidor = "vivo")
    BY <1>1, <1>4 DEF Conexiones
  <2>2. ConexionBien(c, TRUE)
    BY <2>1
  <2>3. con'[i] = d
    BY <1>3
  <2> HIDE DEF c
  <2>4. d \in EstadoConexion /\ ConexionBien(d, FALSE)
    BY <2>1, <2>2, CaeBien
  <2> HIDE DEF d
  <2> QED  BY <2>3, <2>4
<1>5. ASSUME NEW i \in 1..MaxPet
      PROVE  /\ con'[i].cortada = con[i].cortada /\ con'[i].leidos = con[i].leidos
             /\ con'[i].falta = con[i].falta /\ con'[i].pet = con[i].pet
  <2>1. con[i] \in EstadoConexion /\ con'[i] = caida(con[i])
    BY <1>1, <1>3
  <2> QED  BY <2>1 DEF EstadoConexion
<1>6. ASSUME NEW i \in 1..MaxPet, ~(i <= n) PROVE con'[i] = Libre
  <2>1. con[i] = Libre /\ con'[i] = caida(con[i])
    BY <1>3, <1>6 DEF Conexiones
  <2>2. Trozo(<<>>) = <<>> /\ <<>> \o <<>> = <<>>
    BY ConcatEmptySeq, CadenaVacia DEF Trozo
  <2>3. Libre.vuelta = <<>> /\ Libre.escribe = <<>> /\ Libre.pc = "nada" /\ Libre.cerrada = FALSE /\ ~Libre.cortada
    BY DEF Libre
  <2>4. caida(Libre) = [Libre EXCEPT !.vuelta = <<>>, !.cerrada = FALSE]
    BY <2>2, <2>3
  <2>5. [Libre EXCEPT !.vuelta = <<>>, !.cerrada = FALSE] = Libre
    <3>1. Libre \in EstadoConexion
      BY CadenaVacia DEF Libre, Nada, EstadoConexion, Respuesta, Visto, Pcs
    <3> QED  BY <2>3, <3>1 DEF EstadoConexion
  <2> QED  BY <2>1, <2>4, <2>5
<1> HIDE DEF caida
<1>7. con' \in [1..MaxPet -> EstadoConexion]
  <2>1. Libre \in EstadoConexion
    BY CadenaVacia DEF Libre, Nada, EstadoConexion, Respuesta, Visto, Pcs
  <2>2. \A i \in 1..MaxPet : con'[i] \in EstadoConexion
    BY <1>4, <1>6, <2>1
  <2>3. con' = [i \in 1..MaxPet |-> con'[i]]
    BY <1>2
  <2> QED  BY <2>2, <2>3
<1>8. \A i \in 1..MaxPet : IF i <= n THEN ConexionBien(con'[i], servidor' = "vivo") ELSE con'[i] = Libre
  BY <1>2, <1>4, <1>6
<1>9. EnVentana'
  <2>1. ventana \in {"envia", "espera", "colgada"} => n \in 1..MaxPet
    BY <1>1 DEF Conexiones, EnVentana
  <2> QED  BY <1>5, <2>1 DEF Conexiones, EnVentana
<1>10. Culpable'
  <2>1. SUFFICES ASSUME causa = "exit(-1)" PROVE \E i \in 1..n : SinCodigo(con'[i])
    BY <1>2 DEF Culpable
  <2>2. PICK i \in 1..n : SinCodigo(con[i])
    BY <2>1
  <2>3. i \in 1..MaxPet
    BY <1>1
  <2> QED  BY <1>5, <2>2, <2>3 DEF SinCodigo, Empezada
<1> QED  BY <1>7, <1>8, <1>9, <1>10 DEF Conexiones, Tipos, Sueltas

(* A thread of the server goes on.                                         *)
LEMMA DelHilo ==
  ASSUME Conexiones, NEW i \in 1..MaxPet, NEW etiqueta, EnHilo(i, etiqueta), etiqueta # "nada"
  PROVE  i \in 1..n /\ con[i] \in EstadoConexion /\ ConexionBien(con[i], TRUE) /\ servidor = "vivo" /\ con[i].pc = etiqueta
<1>1. n \in 0..MaxPet /\ MaxPet \in Nat /\ con \in [1..MaxPet -> EstadoConexion] /\ servidor = "vivo"
  BY ClienteSano DEF Conexiones, Tipos, EnHilo
<1>2. i <= n
  BY DEF Conexiones, EnHilo, Libre
<1>3. ConexionBien(con[i], servidor = "vivo")
  BY <1>2 DEF Conexiones
<1>4. ConexionBien(con[i], TRUE)
  <2>1. (servidor = "vivo") = TRUE
    BY <1>1
  <2> QED  BY <1>3, <2>1
<1>5. i \in 1..n /\ con[i] \in EstadoConexion
  BY <1>1, <1>2
<1> QED  BY <1>1, <1>4, <1>5 DEF EnHilo

LEMMA HiloConexiones ==
  ASSUME Conexiones, Sueltas', NEW i \in 1..n, NEW c \in EstadoConexion, ConexionBien(c, TRUE),
         servidor = "vivo", c.falta = con[i].falta, c.cortada = con[i].cortada, Hilo(i, c)
  PROVE  Conexiones'
<1>1. n \in 0..MaxPet /\ MaxPet \in Nat /\ con \in [1..MaxPet -> EstadoConexion]
  BY ClienteSano DEF Conexiones, Tipos
<1>2. con' = [con EXCEPT ![i] = c] /\ UNCHANGED <<n, servidor, ventana>>
  BY DEF Hilo
<1>3. EnVentana'
  BY <1>1, <1>2 DEF Conexiones, EnVentana
<1>4. ConexionBien(c, servidor = "vivo")
  OBVIOUS
<1> QED  BY <1>2, <1>3, <1>4, UnaConexion

(* The code a thread goes by is the one of its request, if its client got  *)
(* to send it.                                                             *)
LEMMA PorSuCodigo ==
  ASSUME Conexiones, NEW i \in 1..MaxPet, EnHilo(i, "lee"), HayLinea(con[i].ida, con[i].cortada)
  PROVE  /\ Op(con[i].pet) \in Ops
         /\ Empezada(con[i]) => Codigos(i) = {Op(con[i].pet)}
         /\ ~con[i].cortada => Empezada(con[i])
<1> DEFINE c == con[i]
           vivo == TRUE
<1>1. c \in EstadoConexion /\ ConexionBien(c, vivo) /\ c.pc = "lee" /\ vivo \in BOOLEAN
  BY DelHilo
<1>2. HayLinea(c.ida, c.cortada)
  OBVIOUS
<1>3. Terminada(c.ida) => Codigos(i) = {readLine(c.ida, SinLeer).campo[1]}
  BY DEF Codigos
<1> HIDE DEF c, vivo
<1>4. /\ Op(c.pet) \in Ops
      /\ Empezada(c) => Terminada(c.ida) /\ readLine(c.ida, SinLeer).campo[1] = Op(c.pet)
      /\ ~Empezada(c) /\ ~c.cortada => ~Terminada(c.ida)
  BY <1>1, CodigoLeido
<1>5. Empezada(c) => Codigos(i) = {Op(c.pet)}
  BY <1>3, <1>4
<1>6. ~c.cortada => Empezada(c)
  BY <1>2, <1>4 DEF HayLinea
<1> QED  BY <1>4, <1>5, <1>6 DEF c

LEMMA AtenderConexiones ==
  ASSUME Conexiones, Sueltas', NEW i \in 1..MaxPet, Atender(i)
  PROVE  Conexiones'
<1> DEFINE c == con[i]
<1>1. EnHilo(i, "lee") /\ HayLinea(c.ida, c.cortada)
  BY DEF Atender
<1>2. i \in 1..n /\ c \in EstadoConexion /\ ConexionBien(c, TRUE) /\ servidor = "vivo" /\ c.pc = "lee"
  BY <1>1, DelHilo
<1>3. PICK op \in Codigos(i) \cap Ops :
        \E l \in Lecturas(c.ida, NumCampos[op]), r \in Respuestas(op) :
          Hilo(i, [c EXCEPT !.pc = "escribe", !.ida = l.resto, !.leidos = [l.campos EXCEPT ![1] = <<op>>],
                            !.resp = r, !.escribe = Escrito(r)])
  BY DEF Atender, Escrito
<1>4. PICK l \in Lecturas(c.ida, NumCampos[op]), r \in Respuestas(op) :
        Hilo(i, [c EXCEPT !.pc = "escribe", !.ida = l.resto, !.leidos = [l.campos EXCEPT ![1] = <<op>>],
                          !.resp = r, !.escribe = Escrito(r)])
  BY <1>3
<1> DEFINE d == [c EXCEPT !.pc = "escribe", !.ida = l.resto, !.leidos = [l.campos EXCEPT ![1] = <<op>>],
                          !.resp = r, !.escribe = Escrito(r)]
<1>5. ~c.cortada => Empezada(c) /\ op = Op(c.pet)
  BY <1>1, <1>3, PorSuCodigo
<1>6. d.falta = c.falta /\ d.cortada = c.cortada
  BY <1>2 DEF EstadoConexion
<1>7. d \in EstadoConexion /\ ConexionBien(d, TRUE)
  <2> HIDE DEF c
  <2>1. op \in Ops
    BY <1>3
  <2> QED  BY <1>2, <1>5, <2>1, AtiendeBien
<1>8. Hilo(i, d)
  BY <1>4
<1> HIDE DEF d
<1> QED  BY <1>2, <1>6, <1>7, <1>8, HiloConexiones

LEMMA CodigoNoValidoConexiones ==
  ASSUME Conexiones, Sueltas', NEW i \in 1..MaxPet, CodigoNoValido(i)
  PROVE  Conexiones'
<1>1. /\ EnHilo(i, "lee") /\ HayLinea(con[i].ida, con[i].cortada) /\ ~(Codigos(i) \subseteq Ops)
      /\ Cae("exit(-1)") /\ UNCHANGED <<ventana, n>>
  BY DEF CodigoNoValido, CaeConTodos
<1>2. i \in 1..n /\ ConexionBien(con[i], TRUE) /\ servidor = "vivo" /\ con[i].pc = "lee"
  BY <1>1, DelHilo
<1>3. ~Empezada(con[i]) /\ con[i].cortada
  BY <1>1, PorSuCodigo
<1>4. con[i].leidos = <<>>
  BY <1>2 DEF ConexionBien, Atendida, SinAtender
<1>5. SinCodigo(con[i])
  BY <1>3, <1>4 DEF SinCodigo
<1> QED  BY <1>1, <1>2, <1>5, CaeConexiones

LEMMA ResponderConexiones ==
  ASSUME Conexiones, Sueltas', NEW i \in 1..MaxPet, Responder(i) \/ ResponderEnVano(i)
  PROVE  Conexiones'
<1> DEFINE c == con[i]
<1>1. EnHilo(i, "escribe")
  BY DEF Responder, RespondeYCierra, ResponderEnVano
<1>2. i \in 1..n /\ c \in EstadoConexion /\ ConexionBien(c, TRUE) /\ servidor = "vivo" /\ c.pc = "escribe"
  BY <1>1, DelHilo
<1>3. CASE Responder(i)
  <2> DEFINE d == [c EXCEPT !.vuelta = Append(@, Head(c.escribe)), !.escribe = Tail(c.escribe),
                            !.cerrada = (Tail(c.escribe) = <<>>),
                            !.pc = IF Tail(c.escribe) = <<>> THEN "fin" ELSE "escribe"]
  <2>1. ~c.cortada /\ Hilo(i, d)
    <3>1. (TRUE /\ Tail(c.escribe) = <<>>) = (Tail(c.escribe) = <<>>)
      OBVIOUS
    <3> QED  BY <1>3, <3>1 DEF Responder, RespondeYCierra
  <2>2. d.falta = c.falta /\ d.cortada = c.cortada
    BY <1>2 DEF EstadoConexion
  <2>3. d \in EstadoConexion /\ ConexionBien(d, TRUE)
    <3>1. ~c.cortada
      BY <2>1
    <3> HIDE DEF c
    <3> QED  BY <1>2, <3>1, RespondeBien
  <2> HIDE DEF d
  <2> QED  BY <1>2, <2>1, <2>2, <2>3, HiloConexiones
<1>4. CASE ResponderEnVano(i)
  <2> DEFINE d == [c EXCEPT !.pc = "fin", !.escribe = <<>>, !.cerrada = TRUE]
  <2>1. c.cortada /\ (Hilo(i, d) \/ CaeConTodos("SIGPIPE"))
    BY <1>4 DEF ResponderEnVano
  <2>2. CASE Hilo(i, d)
    <3>1. d.falta = c.falta /\ d.cortada = c.cortada
      BY <1>2 DEF EstadoConexion
    <3>2. d \in EstadoConexion /\ ConexionBien(d, TRUE)
      <4>1. c.cortada
        BY <2>1
      <4> HIDE DEF c
      <4> QED  BY <1>2, <4>1, EnVanoBien
    <3> HIDE DEF d
    <3> QED  BY <1>2, <2>2, <3>1, <3>2, HiloConexiones
  <2>3. CASE CaeConTodos("SIGPIPE")
    BY <1>2, <2>3, CaeConexiones DEF CaeConTodos
  <2> QED  BY <2>1, <2>2, <2>3
<1> QED  BY <1>3, <1>4

LEMMA PasoConexiones == Conexiones /\ [Next]_vars => Conexiones'
<1> SUFFICES ASSUME Conexiones, [Next]_vars PROVE Conexiones'
  OBVIOUS
<1>1. Sueltas'
  BY SueltasPaso
<1>2. CASE UNCHANGED <<con, n, servidor>> /\ ventana' \in {ventana, "quieta", "acabada"}
  BY <1>1, <1>2, QuietasConexiones
<1>3. CASE UNCHANGED vars
  BY <1>2, <1>3 DEF vars
<1>4. CASE Pulsar \/ PulsarSend \/ PulsarConnect
  BY <1>1, <1>4, PulsarConexiones
<1>5. CASE SinServicioWeb \/ Salir \/ Entregar
  BY <1>2, <1>5 DEF SinServicioWeb, Salir, Entregar
<1>6. CASE Matar
  BY <1>1, <1>6, MatarConexiones
<1>7. CASE CaerServidor
  BY <1>1, <1>7, CaeConexiones DEF CaerServidor
<1>8. CASE ventana_sigue
  BY <1>1, <1>8, SigueVentanaConexiones
<1>9. CASE \E i \in 1..MaxPet : hilo(i)
  BY <1>1, <1>9, AtenderConexiones, CodigoNoValidoConexiones, ResponderConexiones DEF hilo
<1>10. CASE \E e \in 1..MaxEnt : EscribirEntrega(e) \/ EscribirEnVano(e)
  <2>1. PICK e \in 1..MaxEnt : EscribirEntrega(e) \/ EscribirEnVano(e)
    BY <1>10
  <2>2. CASE UNCHANGED <<con, servidor>>
    BY <1>2, <2>1, <2>2 DEF EscribirEntrega, EscribirEnVano
  <2>3. CASE servidor = "vivo" /\ Cae("SIGPIPE") /\ UNCHANGED <<ventana, n>>
    BY <1>1, <2>3, CaeConexiones
  <2> QED  BY <2>1, <2>2, <2>3 DEF EscribirEntrega, EscribirEnVano, Escribiendo
<1>11. CASE \E o \in Oyentes : oyente(o)
  BY <1>2, <1>11 DEF oyente, Mirar, MiraSi, Aceptar, LeerEntrega, LeerRara, LeerCortada, Oyente
<1> QED  BY <1>3, <1>4, <1>5, <1>6, <1>7, <1>8, <1>9, <1>10, <1>11 DEF Next, Sigue

LEMMA SiempreConexiones == Spec => []Conexiones
<1>1. Init => Conexiones
  BY InitConexiones
<1>2. Conexiones /\ [Next]_vars => Conexiones'
  BY PasoConexiones
<1> QED  BY <1>1, <1>2, PTL DEF Spec

(* A thread has an answer to give, and only if it has carried out a        *)
(* request.                                                                *)
LEMMA ConRespuesta ==
  ASSUME NEW c \in EstadoConexion, NEW vivo \in BOOLEAN, ConexionBien(c, vivo)
  PROVE  /\ c.pc \in Pcs /\ Len(c.leidos) <= 4 /\ (Atendida(c) <=> c.resp # Nada)
         /\ c.pc = "fin" => c.escribe = <<>> /\ c.cerrada
<1>1. c.pc \in Pcs
  BY DEF EstadoConexion
<1>2. CASE Atendida(c)
  <2>1. PICK op \in Ops : c.resp \in Respuestas(op)
    BY <1>2 DEF ConexionBien, Responde, Codigo
  <2>2. c.resp # Nada
    BY <2>1, RespuestasBien DEF Nada
  <2> QED  BY <1>1, <1>2, <2>2 DEF ConexionBien, Responde
<1>3. CASE ~Atendida(c)
  BY <1>1, <1>3 DEF ConexionBien, SinAtender, Atendida
<1> QED  BY <1>2, <1>3

(* The window, the requests, the listeners and the deliveries keep their   *)
(* types; a thread has an answer once it has read its request              *)
(* (client.py:41-464, server.c:113-391).                                   *)
THEOREM SpecTipos == Spec => []TypeOK
<1>1. ASSUME Conexiones, Oidos PROVE TypeOK
  <2>1. /\ ventana \in {"quieta", "envia", "espera", "colgada", "acabada"}
        /\ n \in 0..MaxPet /\ {con_alias, corriendo, fuera} \subseteq BOOLEAN /\ fallos \in 0..MaxFallos
        /\ servidor \in {"vivo", "exit(-1)", "SIGPIPE", "fallo"}
    BY <1>1 DEF Conexiones, Tipos
  <2>2. ASSUME NEW i \in 1..MaxPet
        PROVE  /\ con[i].pc \in Pcs /\ (i > n => con[i] = Libre) /\ Len(con[i].leidos) <= 4
               /\ con[i].pc \in {"escribe", "fin"} <=> con[i].resp # Nada
               /\ con[i].pc = "fin" => con[i].escribe = <<>> /\ con[i].cerrada
    <3>1. MaxPet \in Nat /\ n \in 0..MaxPet
      BY <2>1, ClienteSano
    <3>2. CASE i <= n
      <4> DEFINE c == con[i]
                 vivo == servidor = "vivo"
      <4>1. c \in EstadoConexion /\ ConexionBien(c, vivo) /\ vivo \in BOOLEAN /\ ~(i > n)
        BY <1>1, <3>1, <3>2 DEF Conexiones, Tipos
      <4> HIDE DEF c, vivo
      <4>2. /\ c.pc \in Pcs /\ Len(c.leidos) <= 4 /\ (Atendida(c) <=> c.resp # Nada)
            /\ c.pc = "fin" => c.escribe = <<>> /\ c.cerrada
        BY <4>1, ConRespuesta
      <4> QED  BY <4>1, <4>2 DEF c, Atendida
    <3>3. CASE ~(i <= n)
      <4>1. con[i] = Libre
        BY <1>1, <3>3 DEF Conexiones
      <4> QED  BY <4>1 DEF Libre, Pcs
    <3> QED  BY <3>2, <3>3
  <2>3. ASSUME NEW o \in Oyentes PROVE oy[o].pc \in PcsOyente /\ ToSet(oy[o].cola) \subseteq DOMAIN ent
    <3>1. oy[o] \in EstadoOyente /\ ColaBien(o)
      BY <1>1 DEF Oidos, EnOrden
    <3>2. DOMAIN oy[o].cola = 1..Len(oy[o].cola)
      BY <3>1, LenProperties DEF EstadoOyente
    <3> QED  BY <3>1, <3>2 DEF EstadoOyente, ColaBien, EsDe, ToSet
  <2>4. \A e \in DOMAIN ent : ent[e].cerrado \/ servidor = "vivo"
    BY <1>1 DEF Oidos, EntregaBien
  <2> QED  BY <2>1, <2>2, <2>3, <2>4 DEF TypeOK
<1>2. Spec => []Oidos
  <2>1. Init => Oidos
    BY InitOidos
  <2>2. Oidos /\ [Next]_vars => Oidos'
    BY PasoOidos
  <2> QED  BY <2>1, <2>2, PTL DEF Spec
<1> QED  BY <1>1, <1>2, SiempreConexiones, PTL

(* The server exits for an unknown operation only if a client went before  *)
(* its code was through (server.c:347-348).                                *)
THEOREM CaeSoloSiCortan == Spec => []SoloCaeSiCortan
<1>1. ASSUME Conexiones PROVE SoloCaeSiCortan
  <2>1. SUFFICES ASSUME servidor = "exit(-1)"
                 PROVE  \E i \in 1..MaxPet : con[i].cortada /\ con[i].leidos = <<>> /\ ~Mandado(i, 1)
    BY DEF SoloCaeSiCortan
  <2>2. PICK i \in 1..n : SinCodigo(con[i])
    BY <1>1, <2>1 DEF Conexiones, Culpable
  <2>3. i \in 1..MaxPet /\ con[i] \in EstadoConexion
    BY <1>1, ClienteSano DEF Conexiones, Tipos
  <2>4. Len(con[i].falta) \in Nat /\ Len(con[i].pet) \in Nat
    BY <2>3, LenProperties DEF EstadoConexion
  <2>5. ~Mandado(i, 1)
    BY <2>2, <2>4 DEF SinCodigo, Empezada, Mandado
  <2> QED  BY <2>2, <2>3, <2>5 DEF SinCodigo
<1> QED  BY <1>1, SiempreConexiones, PTL

(* What the window shows is all of what the server answered; only the id   *)
(* may be a zero, if the server ended before it wrote it (client.py:323).  *)
THEOREM MuestraLoRespondido == Spec => []RespuestaFiel
<1>1. ASSUME Conexiones PROVE RespuestaFiel
  <2>1. ASSUME NEW i \in 1..MaxPet, con[i].visto # Nada
        PROVE  /\ con[i].visto.campos = con[i].resp.campos
               /\ con[i].visto.id = con[i].resp.id \/ (servidor # "vivo" /\ con[i].visto.id = CERO)
    <3>1. i <= n
      BY <1>1, <2>1 DEF Conexiones, Libre
    <3>2. VeBien(con[i], servidor = "vivo")
      BY <1>1, <3>1 DEF Conexiones, ConexionBien
    <3> QED  BY <2>1, <3>2 DEF VeBien
  <2> QED  BY <2>1 DEF RespuestaFiel
<1> QED  BY <1>1, SiempreConexiones, PTL

-----------------------------------------------------------------------------
(* The fields of a request.                                                *)

(* How many fields of the request have left the client whole, and what the *)
(* server has still to read: those fields, each with its NUL, and after    *)
(* them nothing, or a piece of the next one if the client was cut short.   *)
Mandados(c) == Len(c.pet) - Len(c.falta)
PorLeer(c) == \E g \in [0..Mandados(c) -> Cadena] :
  Trae(g, c.ida, c.pet, Mandados(c)) /\ (~c.cortada => g[Mandados(c)] = <<>>)

(* A server that has read a request of a client that is still there has    *)
(* read all of it; whatever it read, the fields that were sent are right.  *)
LeidoBien(c) ==
  /\ ~c.cortada => c.falta = <<>>
  /\ \A j \in DOMAIN c.leidos : j <= Mandados(c) => c.leidos[j] = Recorta(c.pet[j])

PeticionBien(c) ==
  /\ c.pet \in Seq(Linea) /\ Len(c.pet) = NumCampos[Op(c.pet)]
  /\ c.pc = "lee" => PorLeer(c) /\ (~c.cortada => Cardinality(Finales(c.ida)) <= Mandados(c))
  /\ Atendida(c) => LeidoBien(c)

(* PeticionFiel is not inductive: what a thread reads is right because     *)
(* what is under way is, field by field; and it does not read before all   *)
(* of them are there, since it waits for as many ends of line as fields,   *)
(* and no field has one inside.                                            *)
Peticionadas == \A i \in 1..n : PeticionBien(con[i])

(* Most steps leave the request as it is, or close it.                     *)
MismaPeticion(c, d) ==
  /\ d.pet = c.pet /\ d.falta = c.falta /\ d.leidos = c.leidos /\ d.ida = c.ida
  /\ c.cortada => d.cortada
  /\ d.pc = c.pc \/ (Atendida(c) /\ Atendida(d))

LEMMA IgualPeticion ==
  ASSUME NEW c, NEW d, PeticionBien(c), MismaPeticion(c, d)
  PROVE  PeticionBien(d)
<1>1. PorLeer(c) => PorLeer(d)
  BY DEF MismaPeticion, PorLeer, Mandados
<1>2. Atendida(d) => Atendida(c)
  BY DEF MismaPeticion, Atendida
<1>3. LeidoBien(c) => LeidoBien(d)
  BY DEF MismaPeticion, LeidoBien, Mandados
<1>4. d.pc = "lee" => c.pc = "lee"
  BY DEF MismaPeticion, Atendida
<1> QED  BY <1>1, <1>2, <1>3, <1>4 DEF MismaPeticion, PeticionBien, Mandados

(* A request that begins: nothing has been sent.                           *)
LEMMA NuevaPeticion ==
  ASSUME NEW pet \in Seq(Linea), Len(pet) = NumCampos[Op(pet)], NEW pc \in {"nada", "sin_hilo", "lee"},
         NEW c, c = [Libre EXCEPT !.pet = pet, !.falta = Piezas(pet), !.pc = pc]
  PROVE  PeticionBien(c)
<1> DEFINE p == Piezas(pet)
<1>1. Len(pet) \in Nat /\ Len(p) = Len(pet)
  <2>1. pet \in Seq(Texto)
    <3>1. Linea \subseteq Texto
      BY DEF Linea, Texto
    <3> QED  BY <3>1, SeqMonotonic
  <2> QED  BY <2>1, PiezasSonCadenas, LenProperties
<1> HIDE DEF p
<1>2. c.pet = pet /\ c.falta = p /\ ~c.cortada /\ c.ida = <<>> /\ c.pc \notin {"escribe", "fin"}
  BY DEF Libre, p
<1>3. Mandados(c) = 0
  BY <1>1, <1>2 DEF Mandados
<1>4. PorLeer(c)
  <2> DEFINE g == [j \in 0..0 |-> <<>>]
  <2>1. g \in [0..0 -> Cadena] /\ g[0] = <<>>
    BY CadenaVacia
  <2> HIDE DEF g
  <2>2. Trae(g, c.ida, c.pet, 0)
    BY <1>2, <2>1 DEF Trae
  <2> QED  BY <1>3, <2>1, <2>2 DEF PorLeer
<1>5. Cardinality(Finales(c.ida)) = 0
  <2>1. Finales(c.ida) = {}
    BY <1>2 DEF Finales
  <2> QED  BY <2>1, FS_EmptySet
<1>6. c.pet \in Seq(Linea) /\ Len(c.pet) = NumCampos[Op(c.pet)]
  BY <1>2
<1>7. Cardinality(Finales(c.ida)) <= Mandados(c)
  BY <1>3, <1>5
<1> QED  BY <1>2, <1>4, <1>6, <1>7 DEF PeticionBien, Atendida

(* A field more is sent: all that is read from here on has it at the end.  *)
LEMMA EnviaPeticion ==
  ASSUME NEW c \in EstadoConexion, PideBien(c), PeticionBien(c), ~c.cortada, c.falta # <<>>,
         NEW d, d = [c EXCEPT !.ida = @ \o Head(c.falta), !.falta = Tail(@)]
  PROVE  PeticionBien(d)
<1> DEFINE k == Mandados(c)
           h == Head(c.falta)
           s == c.ida \o h
           x == c.pet[k + 1]
<1>1. /\ c.falta \in Seq(Cadena) /\ c.ida \in Cadena /\ Len(c.falta) \in Nat \ {0} /\ Len(c.pet) \in Nat
      /\ Len(c.falta) <= Len(c.pet) /\ c.pet \in Seq(Linea)
  BY LenProperties, EmptySeq DEF EstadoConexion, PideBien, PeticionBien
<1>2. k = Len(c.pet) - Len(c.falta) /\ k + 1 \in 1..Len(c.pet) /\ k \in Nat /\ k <= Len(c.pet)
  <2>1. \A a, b \in Nat : b # 0 /\ b <= a => a - b \in Nat /\ (a - b) + 1 \in 1..a /\ a - b <= a
    OBVIOUS
  <2>2. k = Len(c.pet) - Len(c.falta)
    BY DEF Mandados
  <2> HIDE DEF k
  <2> QED  BY <1>1, <2>1, <2>2
<1>8. k \in Nat
  BY <1>2
<1>3. x \in Linea /\ h = Append(x, NUL) /\ h \in Cadena
  <2>1. 1 \in 1..Len(c.falta) /\ h = c.falta[1] /\ h \in Cadena
    BY <1>1, HeadTailProperties
  <2>2. c.falta[1] = Append(c.pet[Len(c.pet) - Len(c.falta) + 1], NUL)
    BY <2>1 DEF PideBien
  <2> QED  BY <1>1, <1>2, <2>1, <2>2, ElementOfSeq
<1>4. /\ d.ida = s /\ d.pet = c.pet /\ d.pc = c.pc /\ d.cortada = c.cortada /\ Mandados(d) = k + 1
  <2>1. Len(Tail(c.falta)) = Len(c.falta) - 1
    BY <1>1, HeadTailProperties
  <2>2. d.falta = Tail(c.falta) /\ d.pet = c.pet
    BY DEF EstadoConexion
  <2>3. Mandados(d) = k + 1
    <3>1. \A a, b, e \in Nat : e = b - 1 => a - e = (a - b) + 1
      OBVIOUS
    <3>2. Len(d.falta) \in Nat /\ Len(d.falta) = Len(c.falta) - 1 /\ Mandados(d) = Len(c.pet) - Len(d.falta)
      BY <1>1, <2>1, <2>2 DEF Mandados
    <3> DEFINE A == Len(c.pet)
               B == Len(c.falta)
               E == Len(d.falta)
    <3>3. A \in Nat /\ B \in Nat /\ E \in Nat /\ E = B - 1 /\ Mandados(d) = A - E /\ k = A - B
      BY <1>1, <1>2, <3>2
    <3> HIDE DEF A, B, E, k
    <3> QED  BY <3>1, <3>3
  <2> QED  BY <2>2, <2>3 DEF EstadoConexion
<1>5. ~Atendida(c)
  BY DEF PeticionBien, LeidoBien
<1> HIDE DEF k, s, x, h
<1>6. ASSUME c.pc = "lee" PROVE PorLeer(d)
  <2>1. PICK g \in [0..k -> Cadena] : Trae(g, c.ida, c.pet, k) /\ g[k] = <<>>
    BY <1>6 DEF PeticionBien, PorLeer, k
  <2> DEFINE f == [j \in 0..(k + 1) |-> IF j <= k THEN g[j] \o h ELSE <<>>]
  <2>2. ASSUME NEW j \in 0..(k + 1) PROVE f[j] \in Cadena
    <3>1. CASE j <= k
      <4>1. f[j] = g[j] \o h /\ g[j] \in Cadena
        BY <1>8, <2>1, <3>1
      <4> HIDE DEF f
      <4> QED  BY <1>3, <4>1, ConcatProperties DEF Cadena
    <3>2. CASE ~(j <= k)
      BY <3>2, CadenaVacia
    <3> QED  BY <3>1, <3>2
  <2>3. f \in [0..(k + 1) -> Cadena]
    BY <2>2
  <2>4. f[0] = s
    <3>1. f[0] = g[0] \o h
      BY <1>8
    <3>2. g[0] = c.ida
      BY <2>1 DEF Trae
    <3> QED  BY <3>1, <3>2 DEF s
  <2>5. ASSUME NEW j \in 1..(k + 1) PROVE f[j - 1] = Append(c.pet[j], NUL) \o f[j]
    <3>1. CASE j <= k
      <4>1. j \in 1..k /\ j - 1 \in 0..(k + 1) /\ j - 1 <= k /\ j \in 0..(k + 1) /\ j \in 0..k
        BY <1>8, <3>1
      <4>2. f[j - 1] = g[j - 1] \o h /\ f[j] = g[j] \o h /\ g[j] \in Cadena
        BY <2>1, <3>1, <4>1
      <4> HIDE DEF f
      <4>3. g[j - 1] = Append(c.pet[j], NUL) \o g[j]
        BY <2>1, <4>1 DEF Trae
      <4>4. Append(c.pet[j], NUL) \in Cadena
        <5>1. j \in 1..Len(c.pet) /\ c.pet \in Seq(Linea)
          <6>1. \A a \in Nat : k <= a => 1..k \subseteq 1..a
            BY <1>8
          <6> QED  BY <1>1, <1>2, <4>1, <6>1
        <5>2. c.pet[j] \in Texto
          BY <5>1, ElementOfSeq, SeqMonotonic DEF Linea, Texto
        <5> QED  BY <5>2, CampoDeTexto
      <4> DEFINE A == Append(c.pet[j], NUL)
                 B == g[j]
      <4>5. f[j - 1] = (A \o B) \o h /\ f[j] = B \o h /\ A \in Cadena /\ B \in Cadena
        BY <4>2, <4>3, <4>4
      <4> HIDE DEF A, B
      <4>6. f[j - 1] = A \o f[j]
        <5>1. (A \o B) \o h = A \o (B \o h)
          BY <1>3, <4>5, Asocia
        <5> QED  BY <4>5, <5>1
      <4> QED  BY <4>6 DEF A
    <3>2. CASE ~(j <= k)
      <4>1. j = k + 1 /\ j - 1 = k /\ k \in 0..(k + 1)
        BY <1>8, <3>2
      <4>2. f[j - 1] = <<>> \o h /\ f[j] = <<>>
        <5>1. f[k] = g[k] \o h /\ f[k + 1] = <<>>
          BY <1>8
        <5> HIDE DEF f
        <5> QED  BY <2>1, <4>1, <5>1
      <4> HIDE DEF f
      <4>3. <<>> \o h = h /\ h \o <<>> = h
        BY <1>3, ConcatEmptySeq DEF Cadena
      <4> QED  BY <1>3, <4>1, <4>2, <4>3 DEF x
    <3> QED  BY <3>1, <3>2
  <2>6. f[k + 1] = <<>>
    BY <1>8
  <2> HIDE DEF f
  <2>7. Trae(f, d.ida, d.pet, k + 1)
    BY <1>4, <2>4, <2>5 DEF Trae
  <2> QED  BY <1>4, <2>3, <2>6, <2>7 DEF PorLeer
<1>7. ASSUME c.pc = "lee" PROVE Cardinality(Finales(d.ida)) <= k + 1
  <2>1. Cardinality(Finales(c.ida)) <= k
    BY <1>7 DEF PeticionBien, k
  <2>2. Cardinality(Finales(c.ida)) \in Nat /\ Cardinality(Finales(d.ida)) = Cardinality(Finales(c.ida)) + 1
    BY <1>1, <1>3, <1>4, FinalesMas DEF s
  <2> QED  BY <1>8, <2>1, <2>2
<1> QED  BY <1>4, <1>5, <1>6, <1>7 DEF PeticionBien, Atendida

(* The client goes, perhaps in the middle of a field.                      *)
LEMMA CortaPeticion ==
  ASSUME NEW c \in EstadoConexion, PideBien(c), PeticionBien(c), NEW trozo \in Cadena,
         NEW d, d = [c EXCEPT !.cortada = TRUE, !.ida = @ \o trozo]
  PROVE  PeticionBien(d)
<1> DEFINE k == Mandados(c)
           s == c.ida \o trozo
<1>1. /\ c.ida \in Cadena /\ c.pet \in Seq(Linea) /\ Len(c.pet) \in Nat /\ Len(c.falta) \in Nat
      /\ Len(c.falta) <= Len(c.pet)
  BY LenProperties DEF EstadoConexion, PideBien, PeticionBien
<1>2. k \in Nat /\ k <= Len(c.pet)
  <2>1. \A a, b \in Nat : b <= a => a - b \in Nat /\ a - b <= a
    OBVIOUS
  <2>2. k = Len(c.pet) - Len(c.falta)
    BY DEF Mandados
  <2> HIDE DEF k
  <2> QED  BY <1>1, <2>1, <2>2
<1>7. k \in Nat
  BY <1>2
<1>3. d.ida = s /\ d.pet = c.pet /\ d.falta = c.falta /\ d.pc = c.pc /\ d.cortada /\ d.leidos = c.leidos
  BY DEF EstadoConexion
<1>4. Mandados(d) = k
  BY <1>3 DEF Mandados
<1> HIDE DEF k, s
<1>5. ASSUME c.pc = "lee" PROVE PorLeer(d)
  <2>1. PICK g \in [0..k -> Cadena] : Trae(g, c.ida, c.pet, k)
    BY <1>5 DEF PeticionBien, PorLeer, k
  <2> DEFINE f == [j \in 0..k |-> g[j] \o trozo]
  <2>2. \A j \in 0..k : f[j] = g[j] \o trozo /\ g[j] \in Cadena /\ f[j] \in Cadena
    BY <2>1, Asocia
  <2>3. f \in [0..k -> Cadena]
    BY <2>2
  <2> HIDE DEF f
  <2>4. f[0] = s
    <3>1. f[0] = g[0] \o trozo
      BY <1>7, <2>2
    <3>2. g[0] = c.ida
      BY <2>1 DEF Trae
    <3> QED  BY <3>1, <3>2 DEF s
  <2>5. ASSUME NEW j \in 1..k PROVE f[j - 1] = Append(c.pet[j], NUL) \o f[j]
    <3>1. j - 1 \in 0..k /\ j \in 0..k
      BY <1>7
    <3>4. j \in 1..Len(c.pet)
      <4>1. \A a \in Nat : k <= a => 1..k \subseteq 1..a
        BY <1>7
      <4> QED  BY <1>1, <1>2, <4>1
    <3>2. g[j - 1] = Append(c.pet[j], NUL) \o g[j]
      BY <2>1 DEF Trae
    <3>3. Append(c.pet[j], NUL) \in Cadena
      <4>1. c.pet[j] \in Texto
        BY <1>1, <3>4, ElementOfSeq, SeqMonotonic DEF Linea, Texto
      <4> QED  BY <4>1, CampoDeTexto
    <3> DEFINE A == Append(c.pet[j], NUL)
               B == g[j]
    <3>5. f[j - 1] = (A \o B) \o trozo /\ f[j] = B \o trozo /\ A \in Cadena /\ B \in Cadena
      BY <2>2, <3>1, <3>2, <3>3
    <3> HIDE DEF A, B
    <3>6. f[j - 1] = A \o f[j]
      <4>1. (A \o B) \o trozo = A \o (B \o trozo)
        BY <3>5, Asocia
      <4> QED  BY <3>5, <4>1
    <3> QED  BY <3>6 DEF A
  <2>6. Trae(f, d.ida, d.pet, k)
    BY <1>3, <2>4, <2>5 DEF Trae
  <2> QED  BY <1>3, <1>4, <2>3, <2>6 DEF PorLeer
<1>6. LeidoBien(c) => LeidoBien(d)
  BY <1>3 DEF LeidoBien, Mandados
<1> QED  BY <1>3, <1>5, <1>6 DEF PeticionBien, Atendida

(* The server reads the request.                                           *)
LEMMA AtiendePeticion ==
  ASSUME NEW c \in EstadoConexion, ConexionBien(c, TRUE), PeticionBien(c), c.pc = "lee", NEW op \in Ops,
         ~c.cortada => Empezada(c) /\ Cardinality(Finales(c.ida)) >= NumCampos[op],
         Empezada(c) => op = Op(c.pet),
         NEW l \in Lecturas(c.ida, NumCampos[op]), NEW r, NEW e,
         NEW d, d = [c EXCEPT !.pc = "escribe", !.ida = l.resto, !.leidos = [l.campos EXCEPT ![1] = <<op>>],
                              !.resp = r, !.escribe = e]
  PROVE  PeticionBien(d)
<1> DEFINE k == Mandados(c)
           m == NumCampos[op]
           leidos == [l.campos EXCEPT ![1] = <<op>>]
<1>1. /\ c.ida \in Cadena /\ c.pet \in Seq(Linea) /\ Len(c.pet) \in Nat /\ Len(c.falta) \in Nat
      /\ Len(c.falta) <= Len(c.pet) /\ c.falta \in Seq(Cadena)
  BY LenProperties DEF EstadoConexion, ConexionBien, PideBien, PeticionBien
<1>2. k \in Nat /\ k <= Len(c.pet) /\ (k >= 1 => Empezada(c)) /\ (k >= Len(c.pet) => Len(c.falta) = 0)
  <2>1. \A a, b \in Nat : b <= a => /\ a - b \in Nat /\ a - b <= a /\ (a - b >= 1 => b < a)
                                    /\ a - b >= a => b = 0
    OBVIOUS
  <2>2. k = Len(c.pet) - Len(c.falta)
    BY DEF Mandados
  <2> HIDE DEF k
  <2> QED  BY <1>1, <2>1, <2>2 DEF Empezada
<1>3. m \in Nat /\ m \in 2..4
  BY DEF NumCampos, Ops
<1> HIDE DEF k
<1>4. PICK g \in [0..k -> Cadena] : Trae(g, c.ida, c.pet, k)
  BY DEF PeticionBien, PorLeer, k
<1>5. \A j \in 1..m : j <= k => l.campos[j] = Recorta(c.pet[j])
  <2> DEFINE s == c.ida
             pet == c.pet
  <2>1. s \in Cadena /\ pet \in Seq(Linea) /\ k \in Nat /\ k <= Len(pet) /\ Trae(g, s, pet, k) /\ l \in Lecturas(s, m)
    BY <1>1, <1>2, <1>4
  <2> HIDE DEF s, pet, m
  <2>2. \A j \in 1..m : j <= k => l.campos[j] = Recorta(pet[j])
    BY <1>3, <1>4, <2>1, LeidosFieles
  <2> QED  BY <2>2 DEF pet
<1>6. l.campos \in Seq(Cadena) /\ DOMAIN l.campos = 1..m
  <2> HIDE DEF m
  <2>1. l \in Leidas /\ Len(l.campos) = m
    BY <1>1, <1>3, LecturasBien DEF m
  <2> QED  BY <2>1, LenProperties DEF Leidas
<1>7. DOMAIN leidos = 1..m /\ leidos[1] = <<op>> /\ \A j \in 1..m : j # 1 => leidos[j] = l.campos[j]
  BY <1>3, <1>6
<1> HIDE DEF leidos, m
<1>8. d.pet = c.pet /\ d.falta = c.falta /\ d.pc = "escribe" /\ d.leidos = leidos /\ d.cortada = c.cortada
  BY DEF EstadoConexion, leidos
<1>9. ASSUME NEW j \in 1..m, j <= k PROVE leidos[j] = Recorta(c.pet[j])
  <2>1. CASE j = 1
    <3>1. op = Op(c.pet)
      BY <1>2, <1>9, <2>1
    <3>2. c.pet[1] = <<op>>
      <4> DEFINE vivo == TRUE
      <4>1. vivo \in BOOLEAN /\ ConexionBien(c, vivo)
        OBVIOUS
      <4> HIDE DEF vivo
      <4> QED  BY <3>1, <4>1, CodigoLeido
    <3>3. <<op>> \in Cadena /\ Len(<<op>>) = 1
      BY ClienteSano DEF Cadena
    <3>4. Len(<<op>>) <= MAXSIZE - 1
      BY <3>3, ClienteSano, TramaSana
    <3>5. Recorta(<<op>>) = <<op>>
      BY <3>3, <3>4, RecortaBien
    <3> QED  BY <1>7, <2>1, <3>2, <3>5
  <2>2. CASE j # 1
    BY <1>5, <1>7, <1>9, <2>2
  <2> QED  BY <2>1, <2>2
<1>10. ASSUME ~c.cortada PROVE c.falta = <<>>
  <2>1. op = Op(c.pet) /\ Cardinality(Finales(c.ida)) >= m
    BY <1>10 DEF m
  <2>2. Len(c.pet) = m /\ Cardinality(Finales(c.ida)) <= k
    BY <1>10, <2>1 DEF PeticionBien, m, k
  <2>3. Cardinality(Finales(c.ida)) \in Nat
    <3>1. <<>> \in Linea
      BY EmptySeq DEF Linea
    <3> QED  BY <1>1, <3>1, FinalesMas
  <2>4. k >= m
    BY <1>2, <1>3, <2>1, <2>2, <2>3
  <2>5. Len(c.falta) = 0
    BY <1>2, <2>2, <2>4
  <2> QED  BY <1>1, <2>5, EmptySeq
<1>11. LeidoBien(d)
  <2>1. Mandados(d) = k
    BY <1>8 DEF Mandados, k
  <2> QED  BY <1>7, <1>8, <1>9, <1>10, <2>1 DEF LeidoBien
<1> QED  BY <1>8, <1>11 DEF PeticionBien

-----------------------------------------------------------------------------
(* The requests, step by step.                                             *)
LEMMA QuietasPeticiones ==
  ASSUME Peticionadas, n' = n, \A i \in 1..n : MismaPeticion(con[i], con'[i])
  PROVE  Peticionadas'
<1>1. \A i \in 1..n : PeticionBien(con'[i])
  BY IgualPeticion DEF Peticionadas
<1> QED  BY <1>1 DEF Peticionadas

LEMMA UnaPeticion ==
  ASSUME Conexiones, Peticionadas, NEW i \in 1..n, NEW c, PeticionBien(c), con' = [con EXCEPT ![i] = c], n' = n
  PROVE  Peticionadas'
<1>1. con \in [1..MaxPet -> EstadoConexion] /\ n \in 0..MaxPet /\ MaxPet \in Nat
  BY ClienteSano DEF Conexiones, Tipos
<1>2. \A j \in 1..n : con'[j] = IF j = i THEN c ELSE con[j]
  BY <1>1
<1>3. \A j \in 1..n : PeticionBien(con'[j])
  BY <1>2 DEF Peticionadas
<1> QED  BY <1>3 DEF Peticionadas

LEMMA PidePeticiones ==
  ASSUME Conexiones, Peticionadas, n < MaxPet, NEW pet \in Seq(Linea), Len(pet) = NumCampos[Op(pet)], Pide(pet)
  PROVE  Peticionadas'
<1>1. n \in 0..MaxPet /\ MaxPet \in Nat /\ con \in [1..MaxPet -> EstadoConexion]
  BY ClienteSano DEF Conexiones, Tipos
<1>2. PICK pc \in {"nada", "sin_hilo", "lee"} :
        con' = [con EXCEPT ![n + 1] = [Libre EXCEPT !.pet = pet, !.falta = Piezas(pet), !.pc = pc]]
  BY DEF Pide, Acoge
<1> DEFINE c == [Libre EXCEPT !.pet = pet, !.falta = Piezas(pet), !.pc = pc]
<1>3. n' = n + 1 /\ con' = [con EXCEPT ![n + 1] = c]
  BY <1>2 DEF Pide
<1>4. PeticionBien(c)
  <2> HIDE DEF c
  <2>1. c = [Libre EXCEPT !.pet = pet, !.falta = Piezas(pet), !.pc = pc]
    BY DEF c
  <2> QED  BY <2>1, NuevaPeticion
<1> HIDE DEF c
<1>5. \A j \in 1..(n + 1) : con'[j] = (IF j = n + 1 THEN c ELSE con[j]) /\ (j = n + 1 \/ j \in 1..n)
  BY <1>1, <1>3
<1>6. \A j \in 1..(n + 1) : PeticionBien(con'[j])
  BY <1>4, <1>5 DEF Peticionadas
<1> QED  BY <1>3, <1>6 DEF Peticionadas

LEMMA PulsarPeticiones ==
  ASSUME UnaLinea, Conexiones, Peticionadas, Pulsar \/ PulsarSend \/ PulsarConnect
  PROVE  Peticionadas'
<1>1. ASSUME NEW p \in Peticiones
      PROVE  /\ p \in [1..Len(p) -> Texto] /\ Len(p) \in Nat \ {0} /\ Op(p) \in Ops /\ p[1] = <<Op(p)>>
             /\ Len(p) = IF Op(p) = "CONNECT" THEN 2 ELSE NumCampos[Op(p)]
             /\ \A j \in 1..Len(p) : p[j] \in Linea \/ (Op(p) = "SEND" /\ j = 4)
  <2>1. p \in Seq(Texto) /\ p # <<>> /\ p[1] \in {<<op>> : op \in Ops}
    BY ClienteSano
  <2>2. p \in [1..Len(p) -> Texto] /\ Len(p) \in Nat \ {0} /\ DOMAIN p = 1..Len(p)
    BY <2>1, LenProperties, EmptySeq
  <2>3. PICK op \in Ops : p[1] = <<op>>
    BY <2>1
  <2>4. Op(p) = op
    BY <2>3 DEF Op
  <2> QED  BY <2>2, <2>3, <2>4, ClienteSano DEF UnaLinea
<1>2. NumCampos["SEND"] = 4 /\ NumCampos["CONNECT"] = 3
  BY DEF NumCampos, Ops
<1>3. CASE Pulsar
  <2>1. n < MaxPet
    BY <1>3 DEF Pulsar
  <2>2. PICK p \in Peticiones : Op(p) \notin {"CONNECT", "SEND"} /\ Pide(p)
    BY <1>3 DEF Pulsar
  <2>3. p \in [1..Len(p) -> Linea] /\ Len(p) \in Nat /\ Len(p) = NumCampos[Op(p)]
    BY <1>1, <2>2
  <2>4. p \in Seq(Linea)
    BY <2>3
  <2> QED  BY <2>1, <2>2, <2>3, <2>4, PidePeticiones
<1>4. CASE PulsarSend
  <2>1. n < MaxPet /\ \E p \in Peticiones : Op(p) = "SEND" /\ Pide([p EXCEPT ![4] = modify_text(p[4])])
    BY <1>4 DEF PulsarSend
  <2>2. PICK p \in Peticiones : Op(p) = "SEND" /\ Pide([p EXCEPT ![4] = modify_text(p[4])])
    BY <2>1
  <2> DEFINE m == modify_text(p[4])
             pet == [p EXCEPT ![4] = m]
  <2>3. p \in [1..4 -> Texto] /\ p[1] = <<"SEND">> /\ \A j \in 1..4 : j # 4 => p[j] \in Linea
    <3>1. Len(p) = 4
      BY <1>1, <1>2, <2>2
    <3>2. p \in [1..Len(p) -> Texto] /\ p[1] = <<"SEND">> /\ \A j \in 1..Len(p) : j # 4 => p[j] \in Linea
      BY <1>1, <2>2
    <3> QED  BY <3>1, <3>2
  <2>4. m \in Linea
    <3>1. p[4] \in Texto
      BY <2>3
    <3> HIDE DEF m
    <3> QED  BY <3>1, ModificadoEnLinea DEF m
  <2> HIDE DEF m
  <2>5. pet \in [1..4 -> Linea] /\ pet[1] = <<"SEND">>
    BY <2>3, <2>4
  <2>6. Pide(pet)
    BY <2>2 DEF m
  <2> HIDE DEF pet
  <2>7. pet \in Seq(Linea) /\ Len(pet) = 4
    <3>1. pet \in Seq(Linea) /\ DOMAIN pet = 1..4
      BY <2>5, SeqDef
    <3> QED  BY <3>1, LenProperties
  <2>8. Len(pet) = NumCampos[Op(pet)]
    BY <1>2, <2>5, <2>7 DEF Op
  <2> QED  BY <2>1, <2>6, <2>7, <2>8, PidePeticiones
<1>5. CASE PulsarConnect
  <2>1. PICK o \in Oyentes, p \in Peticiones : Op(p) = "CONNECT" /\ Pide(Append(p, <<o>>))
    BY <1>5 DEF PulsarConnect
  <2> DEFINE pet == Append(p, <<o>>)
  <2>2. <<o>> \in Linea
    BY <2>1, ClienteSano DEF Linea
  <2>3. p \in Seq(Linea) /\ Len(p) = 2 /\ p[1] = <<"CONNECT">>
    <3>1. p \in [1..Len(p) -> Linea] /\ Len(p) \in Nat /\ Len(p) = 2 /\ p[1] = <<"CONNECT">>
      BY <1>1, <2>1
    <3>2. p \in Seq(Linea)
      <4>1. p \in [1..Len(p) -> Linea] /\ Len(p) \in Nat
        BY <3>1
      <4> QED  BY <4>1
    <3> QED  BY <3>1, <3>2
  <2>4. pet \in Seq(Linea) /\ Len(pet) = 3 /\ pet[1] = <<"CONNECT">>
    <3>1. pet \in Seq(Linea) /\ Len(pet) = Len(p) + 1 /\ \A j \in 1..Len(p) : pet[j] = p[j]
      <4> DEFINE x == <<o>>
      <4>1. x \in Linea /\ p \in Seq(Linea)
        BY <2>2, <2>3
      <4> HIDE DEF x
      <4>2. Append(p, x) \in Seq(Linea) /\ Len(Append(p, x)) = Len(p) + 1 /\ \A j \in 1..Len(p) : Append(p, x)[j] = p[j]
        BY <4>1, AppendProperties
      <4> QED  BY <4>2 DEF x
    <3>2. 1 \in 1..Len(p) /\ Len(p) + 1 = 3
      BY <2>3
    <3> QED  BY <2>3, <3>1, <3>2
  <2>5. n < MaxPet /\ Pide(pet)
    BY <1>5, <2>1 DEF PulsarConnect
  <2> HIDE DEF pet
  <2>6. Len(pet) = NumCampos[Op(pet)]
    BY <1>2, <2>4 DEF Op
  <2> QED  BY <2>4, <2>5, <2>6, PidePeticiones
<1> QED  BY <1>3, <1>4, <1>5

(* A call of the window that only closes the request, or nothing of it.    *)
LEMMA VentanaPeticiones ==
  ASSUME Conexiones, Peticionadas, ventana \in {"envia", "espera"}, NEW sig, NEW c, Ventana(sig, c), PeticionBien(c)
  PROVE  Peticionadas'
BY LaDeLaVentana, UnaPeticion DEF Ventana

LEMMA SigueVentanaPeticiones ==
  ASSUME Conexiones, Peticionadas, ventana_sigue
  PROVE  Peticionadas'
<1> DEFINE c == con[n]
           vivo == servidor = "vivo"
<1>1. ventana \in {"envia", "espera"}
  BY DEF ventana_sigue, Enviar, EnviaHasta, Mostrar, MostrarConId, Respondida, LeerRespuestaRara, LeerRespuestaCortada
<1>2. /\ c \in EstadoConexion /\ ConexionBien(c, vivo) /\ ~c.cortada /\ vivo \in BOOLEAN /\ PeticionBien(c)
      /\ PideBien(c)
  BY <1>1, LaDeLaVentana DEF Peticionadas, ConexionBien
<1>3. ASSUME NEW sig, NEW d, Ventana(sig, d), MismaPeticion(c, d) PROVE Peticionadas'
  <2>1. PeticionBien(d)
    BY <1>2, <1>3, IgualPeticion
  <2> QED  BY <1>1, <1>3, <2>1, VentanaPeticiones
<1>4. ASSUME NEW sig, Ventana(sig, c) PROVE Peticionadas'
  BY <1>3, <1>4 DEF MismaPeticion
<1>5. CASE Rompe
  <2> DEFINE d == [c EXCEPT !.cortada = TRUE]
  <2>1. MismaPeticion(c, d)
    BY <1>2 DEF EstadoConexion, MismaPeticion
  <2>2. Ventana("acabada", d)
    BY <1>5 DEF Rompe
  <2> HIDE DEF d
  <2> QED  BY <1>3, <2>1, <2>2
<1>6. ASSUME NEW id, Muestra(id, FALSE) PROVE Peticionadas'
  <2> DEFINE v == [campos |-> SubSeq(Leido, 1, Esperados(OpDe(n), Leido)), id |-> id]
             d == [c EXCEPT !.visto = v, !.cortada = TRUE, !.vuelta = <<>>]
  <2>1. Ventana("quieta", d)
    BY <1>6 DEF Muestra
  <2> HIDE DEF v
  <2>2. MismaPeticion(c, d)
    BY <1>2 DEF EstadoConexion, MismaPeticion
  <2> HIDE DEF d
  <2> QED  BY <1>3, <2>1, <2>2
<1>7. CASE Enviar
  <2> DEFINE d == [c EXCEPT !.ida = @ \o Head(c.falta), !.falta = Tail(@)]
  <2>1. c.falta # <<>> /\ ((\E sig : Ventana(sig, d)) \/ Ventana("espera", c))
    BY <1>7 DEF Enviar, EnviaHasta, Conexiones, EnVentana
  <2>2. ASSUME NEW sig, Ventana(sig, d) PROVE Peticionadas'
    <3>1. PeticionBien(d)
      <4> HIDE DEF c
      <4> QED  BY <1>2, <2>1, EnviaPeticion
    <3> HIDE DEF d
    <3> QED  BY <1>1, <2>2, <3>1, VentanaPeticiones
  <2> QED  BY <1>4, <2>1, <2>2
<1>8. CASE Mostrar \/ MostrarConId
  BY <1>5, <1>6, <1>8 DEF Mostrar, MostrarConId
<1>9. CASE LeerRespuestaRara \/ LeerRespuestaCortada
  BY <1>4, <1>5, <1>9 DEF LeerRespuestaRara, LeerRespuestaCortada
<1> QED  BY <1>7, <1>8, <1>9 DEF ventana_sigue

LEMMA HiloPeticiones ==
  ASSUME Conexiones, Peticionadas, NEW i \in 1..MaxPet, Atender(i) \/ Responder(i) \/ ResponderEnVano(i) \/ CodigoNoValido(i),
         UNCHANGED servidor
  PROVE  Peticionadas'
<1> DEFINE c == con[i]
<1>1. PICK etiqueta \in {"lee", "escribe"} : EnHilo(i, etiqueta)
  BY DEF Atender, Responder, RespondeYCierra, ResponderEnVano, CodigoNoValido
<1>2. i \in 1..n /\ c \in EstadoConexion /\ ConexionBien(c, TRUE) /\ PeticionBien(c)
  BY <1>1, DelHilo DEF Peticionadas
<1>3. ASSUME NEW d, Hilo(i, d), PeticionBien(d) PROVE Peticionadas'
  BY <1>2, <1>3, UnaPeticion DEF Hilo
<1>4. ASSUME NEW d, Hilo(i, d), MismaPeticion(c, d) PROVE Peticionadas'
  <2>1. PeticionBien(d)
    BY <1>2, <1>4, IgualPeticion
  <2> QED  BY <1>3, <1>4, <2>1
<1>5. CASE Atender(i)
  <2>1. EnHilo(i, "lee") /\ HayLinea(c.ida, c.cortada) /\ c.pc = "lee"
    BY <1>5 DEF Atender, EnHilo
  <2>2. PICK op \in Codigos(i) \cap Ops :
          /\ PuedeLeer(i, op)
          /\ \E l \in Lecturas(c.ida, NumCampos[op]), r \in Respuestas(op) :
               Hilo(i, [c EXCEPT !.pc = "escribe", !.ida = l.resto, !.leidos = [l.campos EXCEPT ![1] = <<op>>],
                                 !.resp = r, !.escribe = Escrito(r)])
    BY <1>5 DEF Atender, Escrito
  <2>3. PICK l \in Lecturas(c.ida, NumCampos[op]), r \in Respuestas(op) :
          Hilo(i, [c EXCEPT !.pc = "escribe", !.ida = l.resto, !.leidos = [l.campos EXCEPT ![1] = <<op>>],
                            !.resp = r, !.escribe = Escrito(r)])
    BY <2>2
  <2> DEFINE e == Escrito(r)
             d == [c EXCEPT !.pc = "escribe", !.ida = l.resto, !.leidos = [l.campos EXCEPT ![1] = <<op>>],
                            !.resp = r, !.escribe = e]
  <2>4. /\ ~c.cortada => Empezada(c) /\ Cardinality(Finales(c.ida)) >= NumCampos[op]
        /\ Empezada(c) => op = Op(c.pet)
    BY <2>1, <2>2, PorSuCodigo DEF PuedeLeer, Finales
  <2>5. PeticionBien(d)
    <3>1. op \in Ops
      BY <2>2
    <3> HIDE DEF c, e
    <3> QED  BY <1>2, <2>1, <2>4, <3>1, AtiendePeticion
  <2>6. Hilo(i, d)
    BY <2>3
  <2> HIDE DEF d
  <2> QED  BY <1>3, <2>5, <2>6
<1>6. CASE Responder(i)
  <2>1. c.pc = "escribe"
    BY <1>6 DEF Responder, RespondeYCierra, EnHilo
  <2> DEFINE q == (TRUE /\ Tail(c.escribe) = <<>>)
             d == [c EXCEPT !.vuelta = Append(@, Head(c.escribe)), !.escribe = Tail(c.escribe), !.cerrada = q,
                            !.pc = IF Tail(c.escribe) = <<>> THEN "fin" ELSE "escribe"]
  <2>2. Hilo(i, d)
    BY <1>6 DEF Responder, RespondeYCierra
  <2> HIDE DEF q
  <2>3. MismaPeticion(c, d)
    BY <1>2, <2>1 DEF EstadoConexion, MismaPeticion, Atendida
  <2> HIDE DEF d
  <2> QED  BY <1>4, <2>2, <2>3
<1>7. CASE ResponderEnVano(i) /\ ~CaeConTodos("SIGPIPE")
  <2> DEFINE d == [c EXCEPT !.pc = "fin", !.escribe = <<>>, !.cerrada = TRUE]
  <2>1. c.pc = "escribe" /\ Hilo(i, d)
    BY <1>7 DEF ResponderEnVano, EnHilo
  <2>2. MismaPeticion(c, d)
    BY <1>2, <2>1 DEF EstadoConexion, MismaPeticion, Atendida
  <2> HIDE DEF d
  <2> QED  BY <1>4, <2>1, <2>2
<1>8. ~CodigoNoValido(i) /\ ~CaeConTodos("SIGPIPE")
  <2>1. servidor = "vivo"
    BY <1>1, DelHilo
  <2> QED  BY <2>1 DEF CodigoNoValido, CaeConTodos, Cae
<1> QED  BY <1>5, <1>6, <1>7, <1>8

LEMMA CaePeticiones ==
  ASSUME Conexiones, Peticionadas, NEW causa, Cae(causa), n' = n
  PROVE  Peticionadas'
<1>1. n \in 0..MaxPet /\ MaxPet \in Nat /\ con \in [1..MaxPet -> EstadoConexion]
  BY ClienteSano DEF Conexiones, Tipos
<1>2. ASSUME NEW i \in 1..n PROVE MismaPeticion(con[i], con'[i])
  <2> DEFINE c == con[i]
             v == IF c.cortada THEN <<>> ELSE c.vuelta \o Trozo(c.escribe)
             q == c.cerrada \/ c.pc # "nada"
  <2>1. i \in 1..MaxPet /\ c \in EstadoConexion
    BY <1>1
  <2>2. con'[i] = [c EXCEPT !.vuelta = v, !.cerrada = q]
    BY <2>1 DEF Cae
  <2> HIDE DEF v, q
  <2> QED  BY <2>1, <2>2 DEF EstadoConexion, MismaPeticion
<1> QED  BY <1>2, QuietasPeticiones

LEMMA MatarPeticiones ==
  ASSUME Conexiones, Peticionadas, Matar
  PROVE  Peticionadas'
<1>1. n \in 0..MaxPet /\ MaxPet \in Nat /\ con \in [1..MaxPet -> EstadoConexion]
  BY ClienteSano DEF Conexiones, Tipos
<1>2. PICK trozo \in {<<>>} \cup (IF ventana = "envia" THEN ToSet(Trozo(con[n].falta)) ELSE {}) :
        con' = [i \in 1..MaxPet |->
                 IF i # n \/ con[i].cortada THEN con[i] ELSE [con[i] EXCEPT !.cortada = TRUE, !.ida = @ \o trozo]]
  BY DEF Matar
<1>3. trozo \in Cadena
  BY <1>2, TrozoDePeticion
<1>4. ASSUME NEW i \in 1..n PROVE PeticionBien(con'[i])
  <2> DEFINE c == con[i]
             d == [c EXCEPT !.cortada = TRUE, !.ida = @ \o trozo]
  <2>1. i \in 1..MaxPet /\ c \in EstadoConexion /\ PideBien(c) /\ PeticionBien(c)
    BY <1>1 DEF Conexiones, ConexionBien, Peticionadas
  <2>2. con'[i] = c \/ con'[i] = d
    BY <1>2, <2>1
  <2> HIDE DEF c
  <2>3. PeticionBien(d)
    BY <1>3, <2>1, CortaPeticion
  <2> HIDE DEF d
  <2> QED  BY <2>1, <2>2, <2>3
<1>5. n' = n
  BY DEF Matar
<1> QED  BY <1>4, <1>5 DEF Peticionadas

LEMMA PasoPeticiones == ASSUME UnaLinea PROVE Conexiones /\ Peticionadas /\ [Next]_vars => Peticionadas'
<1> SUFFICES ASSUME Conexiones, Peticionadas, [Next]_vars PROVE Peticionadas'
  OBVIOUS
<1>1. CASE UNCHANGED <<con, n>>
  <2>1. \A i \in 1..n : MismaPeticion(con[i], con'[i])
    BY <1>1 DEF MismaPeticion
  <2> QED  BY <1>1, <2>1, QuietasPeticiones
<1>2. CASE UNCHANGED vars
  BY <1>1, <1>2 DEF vars
<1>3. CASE Pulsar \/ PulsarSend \/ PulsarConnect
  BY <1>3, PulsarPeticiones
<1>4. CASE SinServicioWeb \/ Salir \/ Entregar
  BY <1>1, <1>4 DEF SinServicioWeb, Salir, Entregar
<1>5. CASE Matar
  BY <1>5, MatarPeticiones
<1>6. CASE CaerServidor
  BY <1>6, CaePeticiones DEF CaerServidor
<1>7. CASE ventana_sigue
  BY <1>7, SigueVentanaPeticiones
<1>8. CASE \E i \in 1..MaxPet : hilo(i)
  <2>1. PICK i \in 1..MaxPet : hilo(i)
    BY <1>8
  <2>2. CASE UNCHANGED servidor
    BY <2>1, <2>2, HiloPeticiones DEF hilo
  <2>3. CASE ~UNCHANGED servidor
    <3>1. \E causa : CaeConTodos(causa)
      BY <2>1, <2>3 DEF hilo, Atender, Responder, RespondeYCierra, ResponderEnVano, CodigoNoValido, Hilo
    <3> QED  BY <3>1, CaePeticiones DEF CaeConTodos
  <2> QED  BY <2>2, <2>3
<1>9. CASE \E e \in 1..MaxEnt : EscribirEntrega(e) \/ EscribirEnVano(e)
  BY <1>1, <1>9, CaePeticiones DEF EscribirEntrega, EscribirEnVano
<1>10. CASE \E o \in Oyentes : oyente(o)
  BY <1>1, <1>10 DEF oyente, Mirar, MiraSi, Aceptar, LeerEntrega, LeerRara, LeerCortada, Oyente
<1> QED  BY <1>2, <1>3, <1>4, <1>5, <1>6, <1>7, <1>8, <1>9, <1>10 DEF Next, Sigue

(* When what is typed has no newline, the server acts on the fields the    *)
(* user gave, each cut to its buffer, in their places, whatever the        *)
(* segments they came in and whenever the client goes (server.c:113-204).  *)
THEOREM LeeLoPedido == ASSUME UnaLinea PROVE Spec => []PeticionFiel
<1>1. Init => Peticionadas
  BY DEF Init, Peticionadas
<1>2. Conexiones /\ Peticionadas /\ [Next]_vars => Peticionadas'
  BY PasoPeticiones
<1>3. ASSUME Conexiones, Peticionadas PROVE PeticionFiel
  <2>1. SUFFICES ASSUME NEW i \in 1..MaxPet, NEW j \in DOMAIN con[i].leidos, Mandado(i, j)
                 PROVE  con[i].leidos[j] = Recorta(con[i].pet[j])
    BY DEF PeticionFiel
  <2> DEFINE c == con[i]
  <2>2. MaxPet \in Nat /\ n \in 0..MaxPet /\ c \in EstadoConexion
    BY <1>3, ClienteSano DEF Conexiones, Tipos
  <2>3. i <= n
    BY <1>3, <2>2 DEF Conexiones, Libre
  <2>4. PeticionBien(c) /\ ConexionBien(c, servidor = "vivo")
    BY <1>3, <2>2, <2>3 DEF Peticionadas, Conexiones
  <2>5. Atendida(c)
    BY <2>1, <2>4 DEF ConexionBien, SinAtender
  <2>6. j <= Mandados(c)
    <3>1. \A a, b, k \in Nat : k + b <= a => k <= a - b
      OBVIOUS
    <3>2. j \in Nat /\ Len(c.falta) \in Nat /\ Len(c.pet) \in Nat
      BY <2>2, LenProperties DEF EstadoConexion
    <3>3. j + Len(c.falta) <= Len(c.pet)
      BY <2>1 DEF Mandado
    <3> QED  BY <3>1, <3>2, <3>3 DEF Mandados
  <2> QED  BY <2>4, <2>5, <2>6 DEF PeticionBien, LeidoBien
<1> QED  BY <1>1, <1>2, <1>3, SiempreConexiones, PTL DEF Spec
=============================================================================
