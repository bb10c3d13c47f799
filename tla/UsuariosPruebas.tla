--------------------------- MODULE UsuariosPruebas ---------------------------
(***************************************************************************)
(* Proofs about CONNECTEDUSERS beside the other requests, for any users,   *)
(* threads and requests, crashes included: nobody is listed who was not    *)
(* connected, and whoever is connected throughout is found.                *)
(***************************************************************************)
EXTENDS UsuariosConectados, ServidorTipos, FiniteSetTheorems

(* The variables of the readers.                                           *)
TiposL ==
  /\ pcL \in [Lectores -> PcsLector]
  /\ lec \in [Lectores -> Lectura]
  /\ siempre \in [Lectores -> SUBSET Alias] /\ alguna \in [Lectores -> SUBSET Alias]
  /\ consultas \in Nat

(* What a reader has seen. The third scan passes no connected user by: who *)
(* has been on line all along is in the list or among the entries left.    *)
Visto(l) ==
  /\ pcL[l] = "libre" => lec[l].usuarios = <<>>
  /\ lec[l].fiable => Nombrados(l) \ {Nadie} \subseteq alguna[l]
  /\ pcL[l] = "responder" => lec[l].por_leer = {}
  /\ pcL[l] \in {"listar", "responder"} /\ ~FallosES => siempre[l] \subseteq Nombrados(l) \cup lec[l].por_leer

IInvL == IInv /\ TiposL /\ \A l \in Lectores : Visto(l)

-----------------------------------------------------------------------------
LEMMA LecturaCampos ==
  ASSUME NEW r \in Lectura
  PROVE  /\ r.por_leer \subseteq Alias /\ r.n \in Nat /\ r.num \in Nat /\ r.tam \in Nat
         /\ r.usuarios \in Seq(Alias \cup {Nadie}) /\ r.fiable \in BOOLEAN /\ r.alias \in Alias
BY DEF Lectura

LEMMA LecturaCon ==
  ASSUME NEW r \in Lectura
  PROVE  /\ \A s \in SUBSET Alias, k \in 0..2, b \in BOOLEAN :
              [r EXCEPT !.res = k, !.fiable = b, !.por_leer = s, !.n = 0] \in Lectura
         /\ \A s \in SUBSET Alias, b \in BOOLEAN : [r EXCEPT !.por_leer = s, !.fiable = b] \in Lectura
         /\ \A s \in SUBSET Alias : [r EXCEPT !.por_leer = s] \in Lectura
         /\ \A u \in Seq(Alias \cup {Nadie}) : [r EXCEPT !.usuarios = u] \in Lectura
         /\ \A k \in Nat : [r EXCEPT !.n = k] \in Lectura
         /\ \A k \in Nat : [r EXCEPT !.num = k] \in Lectura
         /\ \A k \in Nat : [r EXCEPT !.tam = k] \in Lectura
<1> USE DEF Lectura
<1>1. \A s \in SUBSET Alias, k \in 0..2, b \in BOOLEAN :
        [r EXCEPT !.res = k, !.fiable = b, !.por_leer = s, !.n = 0] \in Lectura
  OBVIOUS
<1>2. \A s \in SUBSET Alias, b \in BOOLEAN : [r EXCEPT !.por_leer = s, !.fiable = b] \in Lectura
  OBVIOUS
<1>3. \A s \in SUBSET Alias : [r EXCEPT !.por_leer = s] \in Lectura
  OBVIOUS
<1>4. \A u \in Seq(Alias \cup {Nadie}) : [r EXCEPT !.usuarios = u] \in Lectura
  OBVIOUS
<1>5. \A k \in Nat : [r EXCEPT !.n = k] \in Lectura
  OBVIOUS
<1>6. \A k \in Nat : [r EXCEPT !.num = k] \in Lectura
  OBVIOUS
<1>7. \A k \in Nat : [r EXCEPT !.tam = k] \in Lectura
  OBVIOUS
<1> QED  BY <1>1, <1>2, <1>3, <1>4, <1>5, <1>6, <1>7, Zenon

LEMMA ConsultaTipo ==
  ASSUME NEW a \in Alias
  PROVE  Consulta(a) \in Lectura /\ Consulta(a).usuarios = <<>>
BY EmptySeq DEF Consulta, Lectura

LEMMA SinConsultaTipo == Lectores # {} => SinConsulta \in Lectura /\ SinConsulta.usuarios = <<>>
BY LectoresAparte, ConsultaTipo DEF SinConsulta

(* A name more in a list.                                                  *)
LEMMA UnoMas ==
  ASSUME NEW u \in Seq(Alias \cup {Nadie}), NEW nombre \in Alias \cup {Nadie}
  PROVE  Append(u, nombre) \in Seq(Alias \cup {Nadie}) /\ Range(Append(u, nombre)) = Range(u) \cup {nombre}
<1>1. /\ Append(u, nombre) \in Seq(Alias \cup {Nadie}) /\ Len(Append(u, nombre)) = Len(u) + 1
      /\ \A i \in 1..Len(u) : Append(u, nombre)[i] = u[i]
      /\ Append(u, nombre)[Len(u) + 1] = nombre
      /\ DOMAIN u = 1..Len(u) /\ Len(u) \in Nat /\ DOMAIN Append(u, nombre) = 1..(Len(u) + 1)
  OBVIOUS
<1>2. \A i \in 1..(Len(u) + 1) : i \in 1..Len(u) \/ i = Len(u) + 1
  BY <1>1
<1> QED  BY <1>1, <1>2 DEF Range

LEMMA RangoVacio == Range(<<>>) = {}
BY DEF Range

(* The history only widens, or narrows, while a request is served.         *)
LEMMA MemoriaTipo ==
  ASSUME TiposL, Memoria
  PROVE  /\ siempre' \in [Lectores -> SUBSET Alias]
         /\ alguna' \in [Lectores -> SUBSET Alias]
         /\ \A l \in Lectores : pcL[l] # "libre" =>
              siempre'[l] = siempre[l] \cap EnLineaAhora' /\ alguna'[l] = alguna[l] \cup EnLineaAhora'
<1>1. EnLineaAhora' \subseteq Alias
  BY DEF EnLineaAhora
<1> QED  BY <1>1 DEF Memoria, TiposL

-----------------------------------------------------------------------------
(* A reader goes on.                                                       *)
LEMMA AvanzaBien ==
  ASSUME IInvL, NEW l \in Lectores, NEW sig \in PcsLector, NEW r \in Lectura, pcL[l] # "libre",
         AvanzaL(l, sig, r), Memoria,
         sig = "libre" => r.usuarios = <<>>,
         r.fiable => Range(r.usuarios) \ {Nadie} \subseteq alguna[l] \cup EnLineaAhora,
         sig = "responder" => r.por_leer = {},
         sig \in {"listar", "responder"} /\ ~FallosES =>
           siempre[l] \cap EnLineaAhora \subseteq Range(r.usuarios) \cup r.por_leer
  PROVE  IInvL'
<1>1. IInv'
  <2>1. UNCHANGED vars
    BY DEF AvanzaL
  <2> QED  BY <2>1, PasoIInv DEF IInvL
<1>2. EnLineaAhora' = EnLineaAhora
  BY DEF AvanzaL, vars, disco, EnLineaAhora, EnLinea, Completo
<1>3. TiposL'
  BY MemoriaTipo DEF IInvL, TiposL, AvanzaL
<1>4. ASSUME NEW m \in Lectores PROVE Visto(m)'
  <2>1. CASE m = l
    <3>1. pcL'[l] = sig /\ lec'[l] = r
      BY DEF AvanzaL, IInvL, TiposL
    <3>2. siempre'[l] = siempre[l] \cap EnLineaAhora /\ alguna'[l] = alguna[l] \cup EnLineaAhora
      BY <1>2, MemoriaTipo DEF IInvL
    <3> QED  BY <2>1, <3>1, <3>2 DEF Visto, Nombrados
  <2>2. CASE m # l
    <3>1. pcL'[m] = pcL[m] /\ lec'[m] = lec[m] /\ Visto(m)
      BY <2>2 DEF AvanzaL, IInvL, TiposL
    <3>2. CASE pcL[m] = "libre"
      BY <3>1, <3>2, RangoVacio DEF Visto, Nombrados
    <3>3. CASE pcL[m] # "libre"
      <4>1. siempre'[m] \subseteq siempre[m] /\ alguna[m] \subseteq alguna'[m]
        BY <3>3, MemoriaTipo DEF IInvL
      <4> QED  BY <3>1, <4>1 DEF Visto, Nombrados
    <3> QED  BY <3>2, <3>3
  <2> QED  BY <2>1, <2>2
<1> QED  BY <1>1, <1>3, <1>4 DEF IInvL

(* The process ends, and the readers with it.                              *)
LEMMA SinLectoresBien ==
  ASSUME IInvL, IInv', SinLectores, Memoria
  PROVE  IInvL'
<1>1. TiposL'
  BY MemoriaTipo, SinConsultaTipo DEF IInvL, TiposL, SinLectores, PcsLector
<1>2. ASSUME NEW m \in Lectores PROVE Visto(m)'
  BY SinConsultaTipo, RangoVacio DEF SinLectores, Visto, Nombrados
<1> QED  BY <1>1, <1>2 DEF IInvL

LEMMA CaeLBien ==
  ASSUME IInvL, NEW causa \in {"exit(1)", "SIGSEGV"}, CaeL(causa), Memoria
  PROVE  IInvL'
BY CaeBien, SinLectoresBien DEF CaeL, IInvL, Estados

(* opendir finds every connected user.                                     *)
LEMMA AbreBien ==
  ASSUME IInvL, NEW l \in Lectores, NEW sig \in {"contar", "dimensionar", "listar"}, NEW r \in Lectura,
         pcL[l] # "libre", Abre(l, sig, r), Memoria, r.usuarios = lec[l].usuarios,
         r.fiable => lec[l].fiable
  PROVE  IInvL'
<1> DEFINE s == {a \in Alias : perfiles[a] # NoHay}
           q == [r EXCEPT !.por_leer = s, !.n = 0]
<1>1. CASE CaeL("exit(1)")
  BY <1>1, CaeLBien
<1>2. CASE AvanzaL(l, sig, q)
  <2>1. /\ q \in Lectura /\ q.usuarios = r.usuarios /\ q.por_leer = s /\ q.fiable = r.fiable
    BY DEF Lectura
  <2>2. EnLineaAhora \subseteq s
    BY DEF EnLineaAhora, EnLinea, Completo
  <2>3. lec[l].fiable => Range(r.usuarios) \ {Nadie} \subseteq alguna[l]
    BY DEF IInvL, Visto, Nombrados
  <2>4. sig \in PcsLector /\ sig # "libre" /\ sig # "responder"
    BY DEF PcsLector
  <2> HIDE DEF q, s
  <2> QED  BY <1>2, <2>1, <2>2, <2>3, <2>4, AvanzaBien
<1> QED  BY <1>1, <1>2 DEF Abre

LEMMA PedirBien ==
  ASSUME IInvL, NEW l \in Lectores, Pedir(l), Memoria
  PROVE  IInvL'
<1>1. PICK a \in Alias : lec' = [lec EXCEPT ![l] = Consulta(a)]
  BY DEF Pedir
<1>2. /\ pcL' = [pcL EXCEPT ![l] = "consulta"] /\ consultas' = consultas + 1 /\ UNCHANGED vars
  BY DEF Pedir
<1>3. IInv'
  BY <1>2, PasoIInv DEF IInvL
<1>4. TiposL'
  BY <1>1, <1>2, ConsultaTipo, MemoriaTipo DEF IInvL, TiposL, PcsLector
<1>5. ASSUME NEW m \in Lectores PROVE Visto(m)'
  <2>1. CASE m = l
    BY <1>1, <1>2, <2>1, ConsultaTipo, RangoVacio DEF Visto, Nombrados, IInvL, TiposL
  <2>2. CASE m # l
    <3>1. pcL'[m] = pcL[m] /\ lec'[m] = lec[m] /\ Visto(m)
      BY <1>1, <1>2, <2>2 DEF IInvL, TiposL
    <3>2. CASE pcL[m] = "libre"
      BY <3>1, <3>2, RangoVacio DEF Visto, Nombrados
    <3>3. CASE pcL[m] # "libre"
      <4>1. siempre'[m] \subseteq siempre[m] /\ alguna[m] \subseteq alguna'[m]
        BY <3>3, MemoriaTipo DEF IInvL
      <4> QED  BY <3>1, <4>1 DEF Visto, Nombrados
    <3> QED  BY <3>2, <3>3
  <2> QED  BY <2>1, <2>2
<1> QED  BY <1>3, <1>4, <1>5 DEF IInvL

-----------------------------------------------------------------------------
(* One lemma per operation.                                                *)
LEMMA ConsultarBien ==
  ASSUME IInvL, NEW l \in Lectores, Consultar(l), Memoria
  PROVE  IInvL'
<1> DEFINE a == lec[l].alias
<1>1. lec[l] \in Lectura /\ a \in Alias /\ pcL[l] # "libre"
  BY LecturaCampos DEF IInvL, TiposL, Consultar, ConsultarCon, EnL
<1>2. CASE Abre(l, "contar", [lec[l] EXCEPT !.res = 2])
  <2> DEFINE r == [lec[l] EXCEPT !.res = 2]
  <2>1. r \in Lectura /\ r.usuarios = lec[l].usuarios /\ r.fiable = lec[l].fiable
    BY <1>1 DEF Lectura
  <2>2. Abre(l, "contar", r)
    BY <1>2
  <2> HIDE DEF r
  <2> QED  BY <1>1, <2>1, <2>2, AbreBien
<1>3. ASSUME NEW reg \in Lecturas(a),
             Abre(l, "contar", [lec[l] EXCEPT !.res = IF reg.status = Conectado THEN 0 ELSE 1, !.fiable = Fia(l, a)])
      PROVE  IInvL'
  <2> DEFINE r == [lec[l] EXCEPT !.res = IF reg.status = Conectado THEN 0 ELSE 1, !.fiable = Fia(l, a)]
  <2>1. Fia(l, a) \in BOOLEAN /\ (Fia(l, a) => lec[l].fiable)
    BY <1>1, LecturaCampos DEF Fia
  <2>2. r \in Lectura /\ r.usuarios = lec[l].usuarios /\ r.fiable = Fia(l, a)
    <3> DEFINE k == IF reg.status = Conectado THEN 0 ELSE 1
               b == Fia(l, a)
    <3>1. k \in 0..2 /\ b \in BOOLEAN /\ lec[l] \in Lectura
      BY <1>1, <2>1
    <3>2. r = [lec[l] EXCEPT !.res = k, !.fiable = b]
      OBVIOUS
    <3> HIDE DEF k, b
    <3>3. /\ [lec[l] EXCEPT !.res = k, !.fiable = b] \in Lectura
          /\ [lec[l] EXCEPT !.res = k, !.fiable = b].usuarios = lec[l].usuarios
          /\ [lec[l] EXCEPT !.res = k, !.fiable = b].fiable = b
      BY <3>1 DEF Lectura
    <3> QED  BY <3>2, <3>3 DEF b
  <2>3. Abre(l, "contar", r)
    BY <1>3
  <2> HIDE DEF r
  <2> QED  BY <1>1, <2>1, <2>2, <2>3, AbreBien
<1> QED  BY <1>2, <1>3 DEF Consultar, ConsultarCon

(* An entry is left behind and the rest stays as it is.                    *)
LEMMA TrasBien ==
  ASSUME IInvL, NEW l \in Lectores, NEW a \in lec[l].por_leer, pcL[l] \in {"contar", "dimensionar", "listar"},
         NEW r \in Lectura, AvanzaL(l, pcL[l], r), Memoria,
         r.por_leer = lec[l].por_leer \ {a}, r.usuarios = lec[l].usuarios, r.fiable => lec[l].fiable,
         pcL[l] = "listar" /\ ~FallosES => ~EnLinea(a)
  PROVE  IInvL'
<1>1. Visto(l) /\ pcL[l] \in PcsLector
  BY DEF IInvL, TiposL
<1>2. r.fiable => Range(r.usuarios) \ {Nadie} \subseteq alguna[l] \cup EnLineaAhora
  BY <1>1 DEF Visto, Nombrados
<1>3. pcL[l] = "listar" /\ ~FallosES => siempre[l] \cap EnLineaAhora \subseteq Range(r.usuarios) \cup r.por_leer
  BY <1>1 DEF Visto, Nombrados, EnLineaAhora
<1> QED  BY <1>1, <1>2, <1>3, AvanzaBien

LEMMA SaltarBien ==
  ASSUME IInvL, NEW l \in Lectores, Saltar(l), Memoria
  PROVE  IInvL'
<1>1. PICK a \in Alias : SinFichero(l, a) /\ AvanzaL(l, pcL[l], [lec[l] EXCEPT !.por_leer = @ \ {a}])
  BY DEF Saltar
<1> DEFINE r == [lec[l] EXCEPT !.por_leer = @ \ {a}]
<1>2. lec[l] \in Lectura
  BY DEF IInvL, TiposL
<1>3. /\ r \in Lectura /\ r.por_leer = lec[l].por_leer \ {a}
      /\ r.usuarios = lec[l].usuarios /\ r.fiable = lec[l].fiable
  BY <1>2 DEF Lectura
<1>4. ~FallosES => ~EnLinea(a)
  BY <1>1 DEF SinFichero, EnLinea, Completo
<1>5. a \in lec[l].por_leer /\ pcL[l] \in {"contar", "dimensionar", "listar"} /\ AvanzaL(l, pcL[l], r)
  BY <1>1 DEF SinFichero
<1> HIDE DEF r
<1> QED  BY <1>3, <1>4, <1>5, TrasBien

(* What reading an entry leaves in the locals.                             *)
LEMMA TrasTipo ==
  ASSUME IInvL, NEW l \in Lectores, NEW a \in Alias
  PROVE  /\ Tras(l, a) \in Lectura /\ Tras(l, a).por_leer = lec[l].por_leer \ {a}
         /\ Tras(l, a).usuarios = lec[l].usuarios
         /\ Tras(l, a).fiable => lec[l].fiable /\ Escrito(a)
<1>1. lec[l] \in Lectura
  BY DEF IInvL, TiposL
<1>2. Fia(l, a) \in BOOLEAN
  BY <1>1, LecturaCampos DEF Fia
<1> QED  BY <1>1, <1>2 DEF Tras, Lectura, Fia

LEMMA ContarUnoBien ==
  ASSUME IInvL, NEW l \in Lectores, ContarUno(l), Memoria
  PROVE  IInvL'
<1>1. PICK a \in lec[l].por_leer : \E reg \in Lecturas(a) :
        AvanzaL(l, pcL[l], [Tras(l, a) EXCEPT !.n = IF reg.status \in {Conectado} THEN @ + 1 ELSE @])
  BY DEF ContarUno, CuentaLosDe
<1>6. PICK reg \in Lecturas(a) :
        AvanzaL(l, pcL[l], [Tras(l, a) EXCEPT !.n = IF reg.status \in {Conectado} THEN @ + 1 ELSE @])
  BY <1>1
<1> DEFINE k == IF reg.status \in {Conectado} THEN Tras(l, a).n + 1 ELSE Tras(l, a).n
<1>2. lec[l] \in Lectura /\ a \in Alias
  BY <1>1, LecturaCampos DEF IInvL, TiposL
<1> DEFINE r == [Tras(l, a) EXCEPT !.n = k]
<1>3. /\ r \in Lectura /\ r.por_leer = Tras(l, a).por_leer /\ r.usuarios = Tras(l, a).usuarios
      /\ r.fiable = Tras(l, a).fiable
  <2>1. Tras(l, a) \in Lectura /\ k \in Nat
    BY <1>2, TrasTipo, LecturaCampos
  <2> HIDE DEF k
  <2> QED  BY <2>1 DEF Lectura
<1>4. pcL[l] \in {"contar", "dimensionar"}
  BY DEF ContarUno, CuentaLosDe
<1>5. AvanzaL(l, pcL[l], r)
  BY <1>6
<1> HIDE DEF r, k
<1> QED  BY <1>1, <1>2, <1>3, <1>4, <1>5, TrasTipo, TrasBien

(* A connected user's profile is read as it is: connected.                 *)
LEMMA LeeEnLinea ==
  ASSUME NEW a, NEW reg \in Lecturas(a)
  PROVE  /\ EnLinea(a) => reg.status = Conectado /\ Escrito(a)
         /\ Escrito(a) /\ reg.status = Conectado => EnLinea(a)
BY DEF Lecturas, EnLinea, Escrito, Completo

LEMMA ListarUnoBien ==
  ASSUME IInvL, NEW l \in Lectores, ListarUno(l), Memoria
  PROVE  IInvL'
<1>7. PICK a \in lec[l].por_leer : \E reg \in Lecturas(a) :
        \/ reg.status # Conectado /\ AvanzaL(l, "listar", Tras(l, a))
        \/ /\ reg.status = Conectado
           /\ \E nombre \in IF Escrito(a) THEN {a} ELSE Alias \cup {Nadie} :
                AvanzaL(l, "listar", [Tras(l, a) EXCEPT !.usuarios = Append(@, nombre)])
        \/ CaeL("SIGSEGV")
  BY DEF ListarUno, ListaLosDe
<1>1. PICK reg \in Lecturas(a) :
        \/ reg.status # Conectado /\ AvanzaL(l, "listar", Tras(l, a))
        \/ /\ reg.status = Conectado
           /\ \E nombre \in IF Escrito(a) THEN {a} ELSE Alias \cup {Nadie} :
                AvanzaL(l, "listar", [Tras(l, a) EXCEPT !.usuarios = Append(@, nombre)])
        \/ CaeL("SIGSEGV")
  BY <1>7
<1>2. pcL[l] = "listar" /\ "listar" \in PcsLector /\ Visto(l) /\ lec[l] \in Lectura
  BY DEF ListarUno, ListaLosDe, EnL, PcsLector, IInvL, TiposL
<1>3. a \in Alias
  BY <1>2, <1>7, LecturaCampos
<1>4. CASE CaeL("SIGSEGV")
  BY <1>4, CaeLBien
<1>5. CASE reg.status # Conectado /\ AvanzaL(l, "listar", Tras(l, a))
  <2>1. ~EnLinea(a)
    BY <1>5, LeeEnLinea
  <2> QED  BY <1>2, <1>3, <1>5, <2>1, TrasTipo, TrasBien
<1>6. ASSUME reg.status = Conectado, NEW nombre \in IF Escrito(a) THEN {a} ELSE Alias \cup {Nadie},
             AvanzaL(l, "listar", [Tras(l, a) EXCEPT !.usuarios = Append(@, nombre)])
      PROVE  IInvL'
  <2> DEFINE t == Tras(l, a)
             r == [t EXCEPT !.usuarios = Append(@, nombre)]
  <2>1. t \in Lectura /\ t.usuarios \in Seq(Alias \cup {Nadie}) /\ nombre \in Alias \cup {Nadie}
    BY <1>3, TrasTipo, LecturaCampos
  <2>2. /\ Append(t.usuarios, nombre) \in Seq(Alias \cup {Nadie})
        /\ Range(Append(t.usuarios, nombre)) = Range(t.usuarios) \cup {nombre}
    BY <2>1, UnoMas
  <2>3. /\ r \in Lectura /\ r.por_leer = t.por_leer /\ r.fiable = t.fiable
        /\ r.usuarios = Append(t.usuarios, nombre)
    BY <2>1, <2>2 DEF Lectura
  <2>4. /\ t.por_leer = lec[l].por_leer \ {a} /\ t.usuarios = lec[l].usuarios
        /\ t.fiable => lec[l].fiable /\ Escrito(a)
    BY <1>3, TrasTipo
  <2>5. Escrito(a) => nombre = a /\ a \in EnLineaAhora
    BY <1>3, <1>6, LeeEnLinea DEF EnLineaAhora
  <2>6. EnLinea(a) => Escrito(a)
    BY DEF EnLinea, Escrito
  <2> HIDE DEF t, r
  <2>7. r.fiable => Range(r.usuarios) \ {Nadie} \subseteq alguna[l] \cup EnLineaAhora
    BY <1>2, <2>2, <2>3, <2>4, <2>5 DEF Visto, Nombrados
  <2>8. ~FallosES => siempre[l] \cap EnLineaAhora \subseteq Range(r.usuarios) \cup r.por_leer
    BY <1>2, <2>2, <2>3, <2>4, <2>5, <2>6 DEF Visto, Nombrados, EnLineaAhora
  <2> QED  BY <1>2, <1>6, <2>3, <2>7, <2>8, AvanzaBien DEF t, r
<1> QED  BY <1>1, <1>4, <1>5, <1>6

LEMMA AcabarBien ==
  ASSUME IInvL, NEW l \in Lectores, Acabar(l), Memoria
  PROVE  IInvL'
<1>1. lec[l] \in Lectura /\ lec[l].por_leer = {} /\ Visto(l)
  BY DEF IInvL, TiposL, Acabar
<1>2. CASE EnL(l, "contar") /\ Abre(l, "dimensionar", [lec[l] EXCEPT !.num = lec[l].n])
  <2> DEFINE r == [lec[l] EXCEPT !.num = lec[l].n]
  <2>1. r \in Lectura /\ r.usuarios = lec[l].usuarios /\ r.fiable = lec[l].fiable
    BY <1>1 DEF Lectura
  <2> HIDE DEF r
  <2> QED  BY <1>2, <2>1, AbreBien DEF EnL, r
<1>3. CASE EnL(l, "dimensionar") /\ Abre(l, "listar", [lec[l] EXCEPT !.tam = lec[l].n])
  <2> DEFINE r == [lec[l] EXCEPT !.tam = lec[l].n]
  <2>1. r \in Lectura /\ r.usuarios = lec[l].usuarios /\ r.fiable = lec[l].fiable
    BY <1>1 DEF Lectura
  <2> HIDE DEF r
  <2> QED  BY <1>3, <2>1, AbreBien DEF EnL, r
<1>4. CASE EnL(l, "listar") /\ AvanzaL(l, "responder", lec[l])
  <2>1. pcL[l] = "listar" /\ "responder" \in PcsLector
    BY <1>4 DEF EnL, PcsLector
  <2> QED  BY <1>1, <1>4, <2>1, AvanzaBien DEF Visto, Nombrados
<1> QED  BY <1>2, <1>3, <1>4 DEF Acabar

LEMMA ResponderLBien ==
  ASSUME IInvL, NEW l \in Lectores, ResponderL(l), Memoria
  PROVE  IInvL'
<1> DEFINE r0 == lec[l]
           u == [i \in 1..r0.num |-> IF i <= Len(r0.usuarios) THEN r0.usuarios[i] ELSE Nadie]
<1>1. r0 \in Lectura /\ Visto(l) /\ pcL[l] = "responder" /\ "cerrar" \in PcsLector
  BY DEF IInvL, TiposL, ResponderL, EnL, PcsLector
<1>2. /\ r0.num \in Nat /\ r0.usuarios \in Seq(Alias \cup {Nadie})
      /\ \A i \in 1..Len(r0.usuarios) : r0.usuarios[i] \in Alias \cup {Nadie} /\ r0.usuarios[i] \in Range(r0.usuarios)
      /\ Len(r0.usuarios) \in Nat
  BY <1>1, LecturaCampos DEF Range
<1>3. u \in Seq(Alias \cup {Nadie}) /\ Range(u) \ {Nadie} \subseteq Range(r0.usuarios)
  <2>1. u \in [1..r0.num -> Alias \cup {Nadie}]
    BY <1>2
  <2>2. \A i \in 1..r0.num : u[i] = Nadie \/ u[i] \in Range(r0.usuarios)
    BY <1>2
  <2>3. Range(u) \ {Nadie} \subseteq Range(r0.usuarios)
    BY <2>1, <2>2 DEF Range
  <2> QED  BY <1>2, <2>1, <2>3, EsSecuencia
<1>4. ASSUME NEW v \in {u, <<>>}, AvanzaL(l, "cerrar", [r0 EXCEPT !.usuarios = v]) PROVE IInvL'
  <2> DEFINE r == [r0 EXCEPT !.usuarios = v]
  <2>1. v \in Seq(Alias \cup {Nadie}) /\ Range(v) \ {Nadie} \subseteq Range(r0.usuarios)
    BY <1>3, RangoVacio, EmptySeq
  <2>2. r \in Lectura /\ r.usuarios = v /\ r.fiable = r0.fiable
    BY <1>1, <2>1 DEF Lectura
  <2>3. r.fiable => Range(r.usuarios) \ {Nadie} \subseteq alguna[l] \cup EnLineaAhora
    BY <1>1, <2>1, <2>2 DEF Visto, Nombrados
  <2> HIDE DEF r
  <2> QED  BY <1>1, <1>4, <2>2, <2>3, AvanzaBien DEF r
<1>5. CASE CaeL("SIGSEGV")
  BY <1>5, CaeLBien
<1> QED  BY <1>4, <1>5 DEF ResponderL

LEMMA CerrarLBien ==
  ASSUME IInvL, NEW l \in Lectores, CerrarL(l), Memoria
  PROVE  IInvL'
<1>1. pcL[l] # "libre" /\ "libre" \in PcsLector
  BY DEF CerrarL, EnL, PcsLector
<1> QED  BY <1>1, SinConsultaTipo, RangoVacio, AvanzaBien DEF CerrarL

(* The other requests.                                                     *)
LEMMA ServidorBien ==
  ASSUME IInvL, PasoServidor, Memoria
  PROVE  IInvL'
<1>1. IInv'
  BY PasoIInv DEF IInvL, PasoServidor
<1>2. CASE SinLectores
  BY <1>1, <1>2, SinLectoresBien
<1>3. CASE UNCHANGED <<pcL, lec, consultas>>
  <2>1. TiposL'
    BY <1>3, MemoriaTipo DEF IInvL, TiposL
  <2>2. ASSUME NEW m \in Lectores PROVE Visto(m)'
    <3>1. Visto(m)
      BY DEF IInvL
    <3>2. CASE pcL[m] = "libre"
      BY <1>3, <3>1, <3>2, RangoVacio DEF Visto, Nombrados
    <3>3. CASE pcL[m] # "libre"
      <4>1. siempre'[m] \subseteq siempre[m] /\ alguna[m] \subseteq alguna'[m]
        BY <3>3, MemoriaTipo DEF IInvL
      <4> QED  BY <1>3, <3>1, <4>1 DEF Visto, Nombrados
    <3> QED  BY <3>2, <3>3
  <2> QED  BY <1>1, <2>1, <2>2 DEF IInvL
<1> QED  BY <1>2, <1>3 DEF PasoServidor

-----------------------------------------------------------------------------
LEMMA InicioL == Init /\ InitL => IInvL
<1> SUFFICES ASSUME Init, InitL PROVE IInvL
  OBVIOUS
<1>1. IInv
  BY InitIInv
<1>2. TiposL
  BY SinConsultaTipo DEF InitL, TiposL, PcsLector, EnLineaAhora
<1>3. ASSUME NEW l \in Lectores PROVE Visto(l)
  BY SinConsultaTipo, RangoVacio DEF InitL, Visto, Nombrados
<1> QED  BY <1>1, <1>2, <1>3 DEF IInvL

LEMMA PasoIInvL == IInvL /\ [NextL]_varsL => IInvL'
<1> SUFFICES ASSUME IInvL, [NextL]_varsL PROVE IInvL'
  OBVIOUS
<1>1. CASE UNCHANGED varsL
  <2>1. IInv' /\ UNCHANGED lectores
    BY <1>1, PasoIInv DEF varsL, IInvL
  <2> QED  BY <2>1 DEF IInvL, TiposL, Visto, Nombrados, lectores
<1>2. CASE PasoServidor /\ Memoria
  BY <1>2, ServidorBien
<1>3. ASSUME NEW l \in Lectores, Pedir(l) \/ connected_users(l), Memoria PROVE IInvL'
  BY <1>3, PedirBien, ConsultarBien, SaltarBien, ContarUnoBien, ListarUnoBien, AcabarBien, ResponderLBien,
     CerrarLBien DEF connected_users
<1> QED  BY <1>1, <1>2, <1>3 DEF NextL, PasoLector

LEMMA SpecIInvL == SpecL => []IInvL
BY InicioL, PasoIInvL, PTL DEF SpecL

(* Every variable keeps its type when CONNECTEDUSERS and the other         *)
(* requests are served together (server.c:206-391, gestiones.c:508-652).   *)
THEOREM TipoConLectores == SpecL => []TypeOKL
<1>1. IInvL => TypeOKL
  BY IInvTypeOK DEF IInvL, TiposL, TypeOKL
<1> QED  BY <1>1, SpecIInvL, PTL

(* CONNECTEDUSERS lists nobody who was not connected at some moment of the *)
(* request, unless it read a profile that was not written yet              *)
(* (gestiones.c:539-553).                                                  *)
THEOREM NadieDeMas == SpecL => []SoloConectados
<1>1. IInvL => SoloConectados
  BY DEF IInvL, Visto, SoloConectados
<1> QED  BY <1>1, SpecIInvL, PTL

(* Whoever is connected during the whole request is in the list when it is *)
(* complete, as long as files can be opened (gestiones.c:521-556).         *)
THEOREM TodosLosQueEstan == SpecL => []ListaCompleta
<1>1. IInvL => ListaCompleta
  BY DEF IInvL, Visto, ListaCompleta
<1> QED  BY <1>1, SpecIInvL, PTL

-----------------------------------------------------------------------------
(* A quiet request: while nobody's session changes, each scan counts (and  *)
(* the third one lists) the users on line among the entries already read.  *)
Vistos(r)  == EnLineaAhora \ r.por_leer
Contado(r) == IsFiniteSet(Vistos(r))

FotoDe(sig, r) ==
  /\ sig \in {"consulta", "contar", "dimensionar"} => r.usuarios = <<>>
  /\ sig \in {"contar", "dimensionar"} => Contado(r) /\ r.n = Cardinality(Vistos(r))
  /\ sig = "listar" =>
       /\ Contado(r) /\ Len(r.usuarios) = Cardinality(Vistos(r))
       /\ Range(r.usuarios) = Vistos(r)
  /\ sig \in {"dimensionar", "listar", "responder"} => r.num = Cardinality(EnLineaAhora)
  /\ sig = "responder" =>
       Len(r.usuarios) = Cardinality(EnLineaAhora) /\ Range(r.usuarios) = EnLineaAhora
  /\ sig = "cerrar" /\ r.res = 0 =>
       r.num = Cardinality(EnLineaAhora) /\ Range(r.usuarios) = EnLineaAhora

Entre(l)  == siempre[l] \subseteq EnLineaAhora /\ EnLineaAhora \subseteq alguna[l]
Quieto(l) == lec[l].fiable /\ siempre[l] = alguna[l]
Fotos == \A l \in Lectores : Entre(l) /\ (Quieto(l) => FotoDe(pcL[l], lec[l]))

(* Who is on line now was not always, and was at some moment.              *)
LEMMA MemoriaEntre ==
  ASSUME IInvL, Fotos, Memoria, NEW l \in Lectores
  PROVE  /\ Entre(l)'
         /\ pcL[l] # "libre" /\ siempre'[l] = alguna'[l] =>
              siempre[l] = alguna[l] /\ EnLineaAhora' = EnLineaAhora
BY DEF Memoria, Entre, Fotos

(* A reader goes on.                                                       *)
LEMMA AvanzaFoto ==
  ASSUME IInvL, Fotos, NEW l \in Lectores, NEW sig, NEW r, pcL[l] # "libre",
         AvanzaL(l, sig, r), Memoria,
         r.fiable /\ siempre[l] = alguna[l] => FotoDe(sig, r)
  PROVE  Fotos'
<1>1. EnLineaAhora' = EnLineaAhora
  BY DEF AvanzaL, vars, disco, EnLineaAhora, EnLinea, Completo
<1>2. ASSUME NEW m \in Lectores, Quieto(m)' PROVE FotoDe(pcL[m], lec[m])'
  <2>1. CASE m = l
    <3>1. pcL'[m] = sig /\ lec'[m] = r
      BY <2>1 DEF AvanzaL, IInvL, TiposL
    <3>2. FotoDe(sig, r)
      BY <1>2, <2>1, <3>1, MemoriaEntre DEF Quieto
    <3> QED  BY <1>1, <3>1, <3>2 DEF FotoDe, Vistos, Contado
  <2>2. CASE m # l
    <3>1. pcL'[m] = pcL[m] /\ lec'[m] = lec[m]
      BY <2>2 DEF AvanzaL, IInvL, TiposL
    <3>2. CASE pcL[m] = "libre"
      BY <3>1, <3>2 DEF FotoDe
    <3>3. CASE pcL[m] # "libre"
      <4>1. Quieto(m)
        BY <1>2, <3>1, <3>3, MemoriaEntre DEF Quieto
      <4> QED  BY <1>1, <3>1, <4>1 DEF Fotos, FotoDe, Vistos, Contado
    <3> QED  BY <3>2, <3>3
  <2> QED  BY <2>1, <2>2
<1> QED  BY <1>2, MemoriaEntre DEF Fotos

LEMMA SinLectoresFoto ==
  ASSUME IInvL, Fotos, SinLectores, Memoria
  PROVE  Fotos'
<1>1. \A m \in Lectores : FotoDe(pcL[m], lec[m])'
  BY DEF SinLectores, FotoDe
<1> QED  BY <1>1, MemoriaEntre DEF Fotos

(* opendir takes in every connected user: nobody has been seen yet.        *)
LEMMA AbreFoto ==
  ASSUME IInvL, Fotos, ~FallosES, NEW l \in Lectores, NEW sig \in {"contar", "dimensionar", "listar"},
         NEW r \in Lectura, pcL[l] # "libre", Abre(l, sig, r), Memoria,
         r.fiable => lec[l].fiable,
         r.fiable /\ siempre[l] = alguna[l] =>
           r.usuarios = <<>> /\ (sig # "contar" => r.num = Cardinality(EnLineaAhora))
  PROVE  Fotos'
<1> DEFINE s == {a \in Alias : perfiles[a] # NoHay}
           q == [r EXCEPT !.por_leer = s, !.n = 0]
<1>1. AvanzaL(l, sig, q)
  BY DEF Abre
<1>2. /\ q.usuarios = r.usuarios /\ q.por_leer = s /\ q.fiable = r.fiable /\ q.n = 0 /\ q.num = r.num
  BY DEF Lectura
<1>3. Vistos(q) = {}
  BY <1>2 DEF Vistos, EnLineaAhora, EnLinea, Completo
<1>4. Contado(q) /\ Cardinality(Vistos(q)) = 0
  BY <1>3, FS_EmptySet DEF Contado
<1>5. r.fiable /\ siempre[l] = alguna[l] => FotoDe(sig, q)
  <2> HIDE DEF q
  <2> QED  BY <1>2, <1>3, <1>4, RangoVacio DEF FotoDe
<1> HIDE DEF q
<1> QED  BY <1>1, <1>2, <1>5, AvanzaFoto

(* One more entry read.                                                    *)
LEMMA UnoVistoMas ==
  ASSUME IInvL, NEW l \in Lectores, NEW a \in lec[l].por_leer, Contado(lec[l]), NEW r,
         r.por_leer = lec[l].por_leer \ {a}
  PROVE  /\ Contado(r) /\ Cardinality(Vistos(lec[l])) \in Nat
         /\ EnLinea(a) => /\ Vistos(r) = Vistos(lec[l]) \cup {a}
                          /\ Cardinality(Vistos(r)) = Cardinality(Vistos(lec[l])) + 1
         /\ ~EnLinea(a) => Vistos(r) = Vistos(lec[l])
<1>1. a \in Alias
  BY LecturaCampos DEF IInvL, TiposL
<1>2. CASE EnLinea(a)
  <2>1. Vistos(r) = Vistos(lec[l]) \cup {a} /\ a \notin Vistos(lec[l])
    BY <1>1, <1>2 DEF Vistos, EnLineaAhora
  <2> QED  BY <1>2, <2>1, FS_AddElement, FS_CardinalityType DEF Contado
<1>3. CASE ~EnLinea(a)
  <2>1. Vistos(r) = Vistos(lec[l])
    BY <1>3 DEF Vistos, EnLineaAhora
  <2> QED  BY <1>3, <2>1, FS_CardinalityType DEF Contado
<1> QED  BY <1>2, <1>3

LEMMA PedirFoto ==
  ASSUME IInvL, Fotos, NEW l \in Lectores, Pedir(l), Memoria
  PROVE  Fotos'
<1>1. PICK a \in Alias : lec' = [lec EXCEPT ![l] = Consulta(a)]
  BY DEF Pedir
<1>2. pcL' = [pcL EXCEPT ![l] = "consulta"] /\ UNCHANGED vars
  BY DEF Pedir
<1>3. EnLineaAhora' = EnLineaAhora
  BY <1>2 DEF vars, disco, EnLineaAhora, EnLinea, Completo
<1>4. ASSUME NEW m \in Lectores, Quieto(m)' PROVE FotoDe(pcL[m], lec[m])'
  <2>1. CASE m = l
    BY <1>1, <1>2, <2>1, ConsultaTipo DEF FotoDe, IInvL, TiposL
  <2>2. CASE m # l
    <3>1. pcL'[m] = pcL[m] /\ lec'[m] = lec[m]
      BY <1>1, <1>2, <2>2 DEF IInvL, TiposL
    <3>2. CASE pcL[m] = "libre"
      BY <3>1, <3>2 DEF FotoDe
    <3>3. CASE pcL[m] # "libre"
      <4>1. Quieto(m)
        BY <1>4, <3>1, <3>3, MemoriaEntre DEF Quieto
      <4> QED  BY <1>3, <3>1, <4>1 DEF Fotos, FotoDe, Vistos, Contado
    <3> QED  BY <3>2, <3>3
  <2> QED  BY <2>1, <2>2
<1> QED  BY <1>4, MemoriaEntre DEF Fotos

LEMMA ConsultarFoto ==
  ASSUME IInvL, Fotos, ~FallosES, NEW l \in Lectores, Consultar(l), Memoria
  PROVE  Fotos'
<1> DEFINE a == lec[l].alias
<1>1. lec[l] \in Lectura /\ a \in Alias /\ pcL[l] = "consulta" /\ pcL[l] # "libre"
  BY LecturaCampos DEF IInvL, TiposL, Consultar, ConsultarCon, EnL
<1>2. ASSUME NEW k \in 0..2, NEW b \in BOOLEAN, b => lec[l].fiable,
             Abre(l, "contar", [lec[l] EXCEPT !.res = k, !.fiable = b])
      PROVE  Fotos'
  <2> DEFINE r == [lec[l] EXCEPT !.res = k, !.fiable = b]
  <2>1. r \in Lectura /\ r.usuarios = lec[l].usuarios /\ r.fiable = b
    BY <1>1 DEF Lectura
  <2>2. r.fiable /\ siempre[l] = alguna[l] => r.usuarios = <<>>
    BY <1>1, <1>2, <2>1 DEF Fotos, Quieto, FotoDe
  <2> HIDE DEF r
  <2> QED  BY <1>1, <1>2, <2>1, <2>2, AbreFoto DEF r
<1>3. CASE Abre(l, "contar", [lec[l] EXCEPT !.res = 2])
  <2>1. [lec[l] EXCEPT !.res = 2] = [lec[l] EXCEPT !.res = 2, !.fiable = lec[l].fiable]
    BY <1>1 DEF Lectura
  <2>2. Abre(l, "contar", [lec[l] EXCEPT !.res = 2, !.fiable = lec[l].fiable])
    BY <1>3, <2>1, Zenon
  <2>3. 2 \in 0..2 /\ lec[l].fiable \in BOOLEAN
    BY <1>1, LecturaCampos
  <2> QED  BY <1>2, <2>2, <2>3
<1>4. ASSUME NEW reg \in Lecturas(a),
             Abre(l, "contar", [lec[l] EXCEPT !.res = IF reg.status = Conectado THEN 0 ELSE 1, !.fiable = Fia(l, a)])
      PROVE  Fotos'
  <2>1. Fia(l, a) \in BOOLEAN /\ (Fia(l, a) => lec[l].fiable)
    BY <1>1, LecturaCampos DEF Fia
  <2>2. (IF reg.status = Conectado THEN 0 ELSE 1) \in 0..2
    OBVIOUS
  <2> QED  BY <1>2, <1>4, <2>1, <2>2
<1> QED  BY <1>3, <1>4 DEF Consultar, ConsultarCon

(* An entry is left behind that is not on line, and counts for nothing.    *)
LEMMA SaltarFoto ==
  ASSUME IInvL, Fotos, ~FallosES, NEW l \in Lectores, Saltar(l), Memoria
  PROVE  Fotos'
<1>1. PICK a \in Alias : SinFichero(l, a) /\ AvanzaL(l, pcL[l], [lec[l] EXCEPT !.por_leer = @ \ {a}])
  BY DEF Saltar
<1> DEFINE r == [lec[l] EXCEPT !.por_leer = @ \ {a}]
<1>2. lec[l] \in Lectura
  BY DEF IInvL, TiposL
<1>3. /\ r.por_leer = lec[l].por_leer \ {a} /\ r.n = lec[l].n /\ r.num = lec[l].num
      /\ r.usuarios = lec[l].usuarios /\ r.fiable = lec[l].fiable /\ r.res = lec[l].res
  BY <1>2 DEF Lectura
<1>4. ~EnLinea(a) /\ a \in lec[l].por_leer /\ pcL[l] \in {"contar", "dimensionar", "listar"}
  BY <1>1 DEF SinFichero, EnLinea, Completo
<1> HIDE DEF r
<1>5. ASSUME r.fiable, siempre[l] = alguna[l] PROVE FotoDe(pcL[l], r)
  <2>1. FotoDe(pcL[l], lec[l])
    BY <1>3, <1>5 DEF Fotos, Quieto
  <2>2. Contado(lec[l])
    BY <1>4, <2>1 DEF FotoDe
  <2>3. Contado(r) /\ Vistos(r) = Vistos(lec[l])
    BY <1>3, <1>4, <2>2, UnoVistoMas
  <2> QED  BY <1>3, <1>4, <2>1, <2>3 DEF FotoDe
<1> QED  BY <1>1, <1>3, <1>4, <1>5, AvanzaFoto DEF r

LEMMA ContarUnoFoto ==
  ASSUME IInvL, Fotos, ~FallosES, NEW l \in Lectores, ContarUno(l), Memoria
  PROVE  Fotos'
<1>1. PICK a \in lec[l].por_leer : \E reg \in Lecturas(a) :
        AvanzaL(l, pcL[l], [Tras(l, a) EXCEPT !.n = IF reg.status \in {Conectado} THEN @ + 1 ELSE @])
  BY DEF ContarUno, CuentaLosDe
<1>2. PICK reg \in Lecturas(a) :
        AvanzaL(l, pcL[l], [Tras(l, a) EXCEPT !.n = IF reg.status \in {Conectado} THEN @ + 1 ELSE @])
  BY <1>1
<1>3. lec[l] \in Lectura /\ a \in Alias /\ pcL[l] \in {"contar", "dimensionar"}
  BY <1>1, LecturaCampos DEF IInvL, TiposL, ContarUno, CuentaLosDe
<1> DEFINE t == Tras(l, a)
           k == IF reg.status \in {Conectado} THEN t.n + 1 ELSE t.n
           r == [t EXCEPT !.n = k]
<1>4. /\ t \in Lectura /\ t.por_leer = lec[l].por_leer \ {a} /\ t.usuarios = lec[l].usuarios
      /\ t.fiable => lec[l].fiable /\ Escrito(a)
      /\ t.n = lec[l].n /\ t.num = lec[l].num
  BY <1>3, TrasTipo DEF Tras, Lectura
<1>5. /\ r.por_leer = t.por_leer /\ r.usuarios = t.usuarios /\ r.fiable = t.fiable /\ r.num = t.num
      /\ r.n = IF reg.status = Conectado THEN lec[l].n + 1 ELSE lec[l].n
  <2> HIDE DEF t
  <2> QED  BY <1>4 DEF Lectura
<1>6. AvanzaL(l, pcL[l], r)
  BY <1>2
<1> HIDE DEF t, r, k
<1>7. ASSUME r.fiable, siempre[l] = alguna[l] PROVE FotoDe(pcL[l], r)
  <2>1. FotoDe(pcL[l], lec[l])
    BY <1>4, <1>5, <1>7 DEF Fotos, Quieto
  <2>2. Contado(lec[l]) /\ lec[l].n = Cardinality(Vistos(lec[l])) /\ lec[l].usuarios = <<>>
    BY <1>3, <2>1 DEF FotoDe
  <2>3. reg.status = Conectado <=> EnLinea(a)
    BY <1>4, <1>5, <1>7, LeeEnLinea
  <2>4. Contado(r) /\ r.n = Cardinality(Vistos(r))
    BY <1>4, <1>5, <2>2, <2>3, UnoVistoMas
  <2> QED  BY <1>3, <1>4, <1>5, <2>1, <2>2, <2>4 DEF FotoDe
<1> QED  BY <1>3, <1>4, <1>5, <1>6, <1>7, AvanzaFoto

LEMMA ListarUnoFoto ==
  ASSUME IInvL, Fotos, ~FallosES, NEW l \in Lectores, ListarUno(l), Memoria
  PROVE  Fotos'
<1>1. PICK a \in lec[l].por_leer : \E reg \in Lecturas(a) :
        \/ reg.status # Conectado /\ AvanzaL(l, "listar", Tras(l, a))
        \/ /\ reg.status = Conectado
           /\ \E nombre \in IF Escrito(a) THEN {a} ELSE Alias \cup {Nadie} :
                AvanzaL(l, "listar", [Tras(l, a) EXCEPT !.usuarios = Append(@, nombre)])
        \/ CaeL("SIGSEGV")
  BY DEF ListarUno, ListaLosDe
<1>2. PICK reg \in Lecturas(a) :
        \/ reg.status # Conectado /\ AvanzaL(l, "listar", Tras(l, a))
        \/ /\ reg.status = Conectado
           /\ \E nombre \in IF Escrito(a) THEN {a} ELSE Alias \cup {Nadie} :
                AvanzaL(l, "listar", [Tras(l, a) EXCEPT !.usuarios = Append(@, nombre)])
        \/ CaeL("SIGSEGV")
  BY <1>1
<1>3. pcL[l] = "listar" /\ lec[l] \in Lectura /\ a \in Alias
  BY LecturaCampos DEF ListarUno, ListaLosDe, EnL, IInvL, TiposL
<1> DEFINE t == Tras(l, a)
<1>4. /\ t \in Lectura /\ t.por_leer = lec[l].por_leer \ {a} /\ t.usuarios = lec[l].usuarios
      /\ t.fiable => lec[l].fiable /\ Escrito(a)
      /\ t.num = lec[l].num
  BY <1>3, TrasTipo DEF Tras, Lectura
<1>5. ASSUME t.fiable, siempre[l] = alguna[l]
      PROVE  /\ Contado(lec[l]) /\ Len(lec[l].usuarios) = Cardinality(Vistos(lec[l]))
             /\ Range(lec[l].usuarios) = Vistos(lec[l]) /\ lec[l].num = Cardinality(EnLineaAhora)
             /\ reg.status = Conectado <=> EnLinea(a)
  <2> HIDE DEF t
  <2>1. FotoDe(pcL[l], lec[l])
    BY <1>4, <1>5 DEF Fotos, Quieto
  <2> QED  BY <1>3, <1>4, <1>5, <2>1, LeeEnLinea DEF FotoDe
<1>6. CASE CaeL("SIGSEGV")
  BY <1>6, SinLectoresFoto DEF CaeL
<1>7. CASE reg.status # Conectado /\ AvanzaL(l, "listar", t)
  <2> HIDE DEF t
  <2>1. ASSUME t.fiable, siempre[l] = alguna[l] PROVE FotoDe("listar", t)
    BY <1>4, <1>5, <1>7, <2>1, UnoVistoMas DEF FotoDe
  <2> QED  BY <1>3, <1>4, <1>7, <2>1, AvanzaFoto
<1>8. ASSUME reg.status = Conectado, NEW nombre \in IF Escrito(a) THEN {a} ELSE Alias \cup {Nadie},
             AvanzaL(l, "listar", [t EXCEPT !.usuarios = Append(@, nombre)])
      PROVE  Fotos'
  <2> DEFINE r == [t EXCEPT !.usuarios = Append(@, nombre)]
  <2> HIDE DEF t
  <2>1. t.usuarios \in Seq(Alias \cup {Nadie}) /\ nombre \in Alias \cup {Nadie}
    BY <1>3, <1>4, <1>8, LecturaCampos
  <2>2. /\ Range(Append(t.usuarios, nombre)) = Range(t.usuarios) \cup {nombre}
        /\ Len(Append(t.usuarios, nombre)) = Len(t.usuarios) + 1
    BY <2>1, UnoMas
  <2>3. /\ r.por_leer = t.por_leer /\ r.fiable = t.fiable /\ r.num = t.num
        /\ r.usuarios = Append(t.usuarios, nombre)
    BY <1>4 DEF Lectura
  <2> HIDE DEF r
  <2>4. ASSUME r.fiable, siempre[l] = alguna[l] PROVE FotoDe("listar", r)
    <3>1. EnLinea(a) /\ nombre = a
      BY <1>4, <1>5, <1>8, <2>3, <2>4
    <3>2. /\ Contado(r) /\ Vistos(r) = Vistos(lec[l]) \cup {a}
          /\ Cardinality(Vistos(r)) = Cardinality(Vistos(lec[l])) + 1
      BY <1>4, <1>5, <2>3, <2>4, <3>1, UnoVistoMas
    <3> QED  BY <1>4, <1>5, <2>2, <2>3, <2>4, <3>1, <3>2 DEF FotoDe
  <2> QED  BY <1>3, <1>4, <1>8, <2>3, <2>4, AvanzaFoto DEF r
<1> QED  BY <1>2, <1>6, <1>7, <1>8

(* All has been read: the count is that of the users on line.              *)
LEMMA AcabarFoto ==
  ASSUME IInvL, Fotos, ~FallosES, NEW l \in Lectores, Acabar(l), Memoria
  PROVE  Fotos'
<1>1. lec[l] \in Lectura /\ lec[l].por_leer = {} /\ Vistos(lec[l]) = EnLineaAhora
  BY DEF IInvL, TiposL, Acabar, Vistos
<1>2. ASSUME Quieto(l) PROVE FotoDe(pcL[l], lec[l])
  BY <1>2 DEF Fotos
<1>3. CASE EnL(l, "contar") /\ Abre(l, "dimensionar", [lec[l] EXCEPT !.num = lec[l].n])
  <2> DEFINE r == [lec[l] EXCEPT !.num = lec[l].n]
  <2>1. r \in Lectura /\ r.usuarios = lec[l].usuarios /\ r.fiable = lec[l].fiable /\ r.num = lec[l].n
    BY <1>1 DEF Lectura
  <2>2. r.fiable /\ siempre[l] = alguna[l] => r.usuarios = <<>> /\ r.num = Cardinality(EnLineaAhora)
    BY <1>1, <1>2, <1>3, <2>1 DEF FotoDe, EnL, Quieto
  <2> HIDE DEF r
  <2> QED  BY <1>3, <2>1, <2>2, AbreFoto DEF EnL, r
<1>4. CASE EnL(l, "dimensionar") /\ Abre(l, "listar", [lec[l] EXCEPT !.tam = lec[l].n])
  <2> DEFINE r == [lec[l] EXCEPT !.tam = lec[l].n]
  <2>1. r \in Lectura /\ r.usuarios = lec[l].usuarios /\ r.fiable = lec[l].fiable /\ r.num = lec[l].num
    BY <1>1 DEF Lectura
  <2>2. r.fiable /\ siempre[l] = alguna[l] => r.usuarios = <<>> /\ r.num = Cardinality(EnLineaAhora)
    BY <1>1, <1>2, <1>4, <2>1 DEF FotoDe, EnL, Quieto
  <2> HIDE DEF r
  <2> QED  BY <1>4, <2>1, <2>2, AbreFoto DEF EnL, r
<1>5. CASE EnL(l, "listar") /\ AvanzaL(l, "responder", lec[l])
  <2>1. lec[l].fiable /\ siempre[l] = alguna[l] => FotoDe("responder", lec[l])
    BY <1>1, <1>2, <1>5 DEF FotoDe, EnL, Quieto
  <2> QED  BY <1>5, <2>1, AvanzaFoto DEF EnL
<1> QED  BY <1>3, <1>4, <1>5 DEF Acabar

(* The array has an entry for each of those counted.                       *)
LEMMA ResponderLFoto ==
  ASSUME IInvL, Fotos, ~FallosES, NEW l \in Lectores, ResponderL(l), Memoria
  PROVE  Fotos'
<1> DEFINE r0 == lec[l]
           u == [i \in 1..r0.num |-> IF i <= Len(r0.usuarios) THEN r0.usuarios[i] ELSE Nadie]
<1>1. r0 \in Lectura /\ pcL[l] = "responder" /\ r0.usuarios \in Seq(Alias \cup {Nadie})
  BY LecturaCampos DEF IInvL, TiposL, ResponderL, EnL
<1>2. CASE CaeL("SIGSEGV")
  BY <1>2, SinLectoresFoto DEF CaeL
<1>3. ASSUME NEW v, AvanzaL(l, "cerrar", [r0 EXCEPT !.usuarios = v]), r0.res = 0 => v = u PROVE Fotos'
  <2> DEFINE r == [r0 EXCEPT !.usuarios = v]
  <2>1. r.usuarios = v /\ r.fiable = r0.fiable /\ r.res = r0.res /\ r.num = r0.num
    BY <1>1 DEF Lectura
  <2>2. ASSUME r0.fiable, siempre[l] = alguna[l], r0.res = 0
        PROVE  r0.num = Cardinality(EnLineaAhora) /\ Range(u) = EnLineaAhora
    <3>1. FotoDe(pcL[l], lec[l])
      BY <2>2 DEF Fotos, Quieto
    <3>2. /\ r0.num = Cardinality(EnLineaAhora) /\ r0.num = Len(r0.usuarios)
          /\ Range(r0.usuarios) = EnLineaAhora
      BY <1>1, <3>1 DEF FotoDe
    <3>3. DOMAIN r0.usuarios = 1..r0.num /\ \A i \in 1..r0.num : u[i] = r0.usuarios[i]
      BY <1>1, <3>2
    <3> QED  BY <3>2, <3>3 DEF Range
  <2> HIDE DEF r, u
  <2>3. r.fiable /\ siempre[l] = alguna[l] => FotoDe("cerrar", r)
    BY <1>3, <2>1, <2>2 DEF FotoDe
  <2> QED  BY <1>1, <1>3, <2>1, <2>3, AvanzaFoto DEF r
<1> HIDE DEF u
<1>4. r0.res # 0 /\ AvanzaL(l, "cerrar", [r0 EXCEPT !.usuarios = <<>>]) => Fotos'
  BY <1>3
<1>5. r0.res = 0 /\ AvanzaL(l, "cerrar", [r0 EXCEPT !.usuarios = u]) => Fotos'
  BY <1>3
<1> QED  BY <1>2, <1>4, <1>5 DEF ResponderL, u

LEMMA CerrarLFoto ==
  ASSUME IInvL, Fotos, NEW l \in Lectores, CerrarL(l), Memoria
  PROVE  Fotos'
<1>1. pcL[l] = "cerrar" /\ AvanzaL(l, "libre", SinConsulta)
  BY DEF CerrarL, EnL
<1>2. FotoDe("libre", SinConsulta)
  BY DEF FotoDe
<1> QED  BY <1>1, <1>2, AvanzaFoto

(* The other requests: in a quiet request they change nobody's session.    *)
LEMMA ServidorFoto ==
  ASSUME IInvL, Fotos, PasoServidor, Memoria
  PROVE  Fotos'
<1>1. CASE SinLectores
  BY <1>1, SinLectoresFoto
<1>2. CASE UNCHANGED <<pcL, lec, consultas>>
  <2>1. ASSUME NEW m \in Lectores, Quieto(m)' PROVE FotoDe(pcL[m], lec[m])'
    <3>1. CASE pcL[m] = "libre"
      BY <1>2, <3>1 DEF FotoDe
    <3>2. CASE pcL[m] # "libre"
      <4>1. Quieto(m) /\ EnLineaAhora' = EnLineaAhora
        BY <1>2, <2>1, <3>2, MemoriaEntre DEF Quieto
      <4> QED  BY <1>2, <4>1 DEF Fotos, FotoDe, Vistos, Contado
    <3> QED  BY <3>1, <3>2
  <2> QED  BY <2>1, MemoriaEntre DEF Fotos
<1> QED  BY <1>1, <1>2 DEF PasoServidor

LEMMA InicioFoto == InitL => Fotos
<1> SUFFICES ASSUME InitL PROVE Fotos
  OBVIOUS
<1>1. ASSUME NEW l \in Lectores PROVE Entre(l) /\ FotoDe(pcL[l], lec[l])
  BY DEF InitL, Entre, FotoDe
<1> QED  BY <1>1 DEF Fotos

LEMMA PasoFotos == ~FallosES /\ IInvL /\ Fotos /\ [NextL]_varsL => Fotos'
<1> SUFFICES ASSUME ~FallosES, IInvL, Fotos, [NextL]_varsL PROVE Fotos'
  OBVIOUS
<1>1. CASE UNCHANGED varsL
  <2>1. UNCHANGED <<perfiles, mensajes, estado>> /\ UNCHANGED lectores
    BY <1>1 DEF varsL, vars, disco
  <2>2. EnLineaAhora' = EnLineaAhora
    BY <2>1 DEF EnLineaAhora, EnLinea, Completo
  <2> QED  BY <2>1, <2>2 DEF lectores, Fotos, Entre, Quieto, FotoDe, Vistos, Contado
<1>2. CASE PasoServidor /\ Memoria
  BY <1>2, ServidorFoto
<1>3. ASSUME NEW l \in Lectores, Pedir(l) \/ connected_users(l), Memoria PROVE Fotos'
  BY <1>3, PedirFoto, ConsultarFoto, SaltarFoto, ContarUnoFoto, ListarUnoFoto, AcabarFoto, ResponderLFoto,
     CerrarLFoto DEF connected_users
<1> QED  BY <1>1, <1>2, <1>3 DEF NextL, PasoLector

(* A CONNECTEDUSERS during which no session begins or ends answers with    *)
(* the number and the names of those on line, each once, whatever other    *)
(* requests rewrite the profiles meanwhile (gestiones.c:508-652,           *)
(* server.c:340-385); without failing calls, which void it.                *)
THEOREM FotoVerdadera == SpecL => []FotoFija
<1>1. CASE FallosES
  <2>1. FotoFija
    BY <1>1 DEF FotoFija
  <2> QED  BY <2>1, PTL
<1>2. CASE ~FallosES
  <2>1. IInvL /\ Fotos /\ [NextL]_varsL => Fotos'
    BY <1>2, PasoFotos
  <2>2. Fotos => FotoFija
    BY DEF Fotos, Quieto, Entre, FotoDe, FotoFija, Nombrados
  <2> QED  BY <2>1, <2>2, InicioFoto, SpecIInvL, PTL DEF SpecL
<1> QED  BY <1>1, <1>2
=============================================================================
