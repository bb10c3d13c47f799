--------------------------- MODULE ClienteCampos ---------------------------
(***************************************************************************)
(* What the operators of Trama and of Cliente yield: where a field ends,   *)
(* what the client can read of the pieces that have come, what the server  *)
(* reads of a stream, and what the web service gives back.  The recursive  *)
(* ones are functions over an interval, whose values are followed from the *)
(* first to the last by the least number principle (Minimo).               *)
(***************************************************************************)
EXTENDS Cliente, FiniteSetTheorems, SequenceTheorems, WellFoundedInduction, TLAPS

-----------------------------------------------------------------------------
(* Sequences.                                                              *)

(* A stream, or a field of any content.                                    *)
Cadena == Seq(Simbolos)

LEMMA CadenaVacia == <<>> \in Cadena /\ <<>> \in Seq(Cadena) /\ <<>> \in Seq(Texto)
BY EmptySeq DEF Cadena

LEMMA Asocia ==
  ASSUME NEW a \in Cadena, NEW b \in Cadena, NEW c \in Cadena
  PROVE  (a \o b) \o c = a \o (b \o c) /\ b \o c \in Cadena
BY ConcatAssociative, ConcatProperties DEF Cadena

LEMMA DeUno ==
  ASSUME NEW S, NEW x \in S
  PROVE  <<x>> \in Seq(S) /\ <<x>> # <<>> /\ Len(<<x>>) = 1 /\ <<x>>[1] = x
OBVIOUS

-----------------------------------------------------------------------------
(* Fields.                                                                 *)

(* A set of naturals has a least one.                                      *)
LEMMA Minimo ==
  ASSUME NEW T, T \subseteq Nat, T # {}
  PROVE  \E x \in T : \A y \in T : x <= y
<1>1. PICK x \in T : \A y \in T : ~(<<y, x>> \in OpToRel(<, Nat))
  BY NatLessThanWellFounded, WFMin
<1>2. \A y \in T : ~(y < x)
  BY <1>1 DEF OpToRel
<1> QED  BY <1>2

(* Where the first of some symbols is.                                     *)
PrimeroEn(s, simbolos, i) ==
  /\ i <= Len(s) => s[i] \in simbolos
  /\ \A j \in 1..(i - 1) : s[j] \notin simbolos

LEMMA PrimeroBien ==
  ASSUME NEW s \in Cadena, NEW simbolos
  PROVE  Primero(s, simbolos) \in 1..(Len(s) + 1) /\ PrimeroEn(s, simbolos, Primero(s, simbolos))
<1> DEFINE T == {i \in 1..Len(s) : s[i] \in simbolos} \cup {Len(s) + 1}
<1>1. Len(s) \in Nat
  BY LenProperties DEF Cadena
<1>2. PICK i \in T : \A y \in T : i <= y
  <2>1. T \subseteq Nat /\ T # {}
    BY <1>1
  <2> QED  BY <2>1, Minimo
<1>3. i \in 1..(Len(s) + 1) /\ PrimeroEn(s, simbolos, i)
  BY <1>1, <1>2 DEF PrimeroEn
<1> QED  BY <1>3 DEF Primero, PrimeroEn

LEMMA PrimeroUnico ==
  ASSUME NEW s \in Cadena, NEW simbolos, NEW i \in 1..(Len(s) + 1), PrimeroEn(s, simbolos, i)
  PROVE  Primero(s, simbolos) = i
<1> DEFINE q == Primero(s, simbolos)
<1>1. q \in 1..(Len(s) + 1) /\ PrimeroEn(s, simbolos, q)
  BY PrimeroBien
<1>2. Len(s) \in Nat
  BY LenProperties DEF Cadena
<1> HIDE DEF q
<1>3. ~(q < i) /\ ~(i < q)
  BY <1>1, <1>2 DEF PrimeroEn
<1> QED  BY <1>1, <1>2, <1>3 DEF q

(* The field before the first terminator.                                  *)
LEMMA CampoYResto ==
  ASSUME NEW x \in Cadena, NEW z \in Simbolos, NEW r \in Cadena, NEW simbolos,
         z \in simbolos, ToSet(x) \cap simbolos = {}
  PROVE  /\ Append(x, z) \o r \in Cadena /\ Append(x, z) \o r # <<>>
         /\ Primero(Append(x, z) \o r, simbolos) = Len(x) + 1 /\ Len(x) < Len(Append(x, z) \o r)
         /\ Antes(Append(x, z) \o r, Len(x) + 1) = x /\ Despues(Append(x, z) \o r, Len(x) + 1) = r
<1> DEFINE s == Append(x, z) \o r
<1>1. Append(x, z) \in Cadena /\ Len(Append(x, z)) = Len(x) + 1 /\ Len(x) \in Nat /\ Len(r) \in Nat
  BY AppendProperties, LenProperties DEF Cadena
<1>2. s \in Cadena /\ Len(s) = Len(x) + 1 + Len(r)
  BY <1>1, ConcatProperties DEF Cadena
<1>3. \A i \in 1..Len(s) : s[i] = IF i <= Len(x) THEN x[i] ELSE IF i = Len(x) + 1 THEN z ELSE r[i - Len(x) - 1]
  BY <1>1, <1>2, AppendProperties, ConcatProperties DEF Cadena
<1>4. Primero(s, simbolos) = Len(x) + 1
  <2>1. \A i \in 1..Len(x) : x[i] \notin simbolos
    BY LenProperties DEF ToSet, Cadena
  <2>2. PrimeroEn(s, simbolos, Len(x) + 1)
    BY <1>1, <1>2, <1>3, <2>1 DEF PrimeroEn
  <2>3. Len(x) + 1 \in 1..(Len(s) + 1)
    BY <1>1, <1>2
  <2> HIDE DEF s
  <2> QED  BY <1>2, <2>2, <2>3, PrimeroUnico
<1>5. Antes(s, Len(x) + 1) = x
  <2>1. Antes(s, Len(x) + 1) = SubSeq(s, 1, Len(x))
    BY <1>1 DEF Antes
  <2>2. SubSeq(s, 1, Len(x)) \in Cadena /\ Len(SubSeq(s, 1, Len(x))) = Len(x)
        /\ \A i \in 1..Len(x) : SubSeq(s, 1, Len(x))[i] = s[i]
    <3>1. \A i \in 1..Len(x) : s[i] \in Simbolos
      BY <1>1, <1>2, <1>3, ElementOfSeq DEF Cadena
    <3> HIDE DEF s
    <3> QED  BY <1>1, <3>1, SubSeqProperties DEF Cadena
  <2>3. \A i \in 1..Len(x) : SubSeq(s, 1, Len(x))[i] = x[i]
    BY <1>1, <1>2, <1>3, <2>2
  <2> HIDE DEF s
  <2> QED  BY <2>1, <2>2, <2>3, SeqEqual DEF Cadena
<1>6. Despues(s, Len(x) + 1) = r
  <2> DEFINE d == SubSeq(s, Len(x) + 2, Len(s))
  <2>1. Despues(s, Len(x) + 1) = d
    BY <1>1 DEF Despues
  <2>2. \A i \in (Len(x) + 2)..Len(s) : s[i] \in Simbolos
    <3> HIDE DEF s
    <3> QED  BY <1>1, <1>2, ElementOfSeq DEF Cadena
  <2>3. d \in Cadena /\ Len(d) = Len(r) /\ \A i \in 1..Len(r) : d[i] = s[Len(x) + 1 + i]
    <3> HIDE DEF s
    <3> QED  BY <1>1, <1>2, <2>2, SubSeqProperties DEF Cadena
  <2>4. \A i \in 1..Len(r) : d[i] = r[i]
    <3>1. ASSUME NEW i \in 1..Len(r) PROVE d[i] = r[i]
      <4>1. Len(x) + 1 + i \in 1..Len(s) /\ (Len(x) + 1 + i) - Len(x) - 1 = i
        BY <1>1, <1>2
      <4> QED  BY <1>1, <1>3, <2>3, <4>1
    <3> QED  BY <3>1
  <2> HIDE DEF d
  <2> QED  BY <2>1, <2>3, <2>4, SeqEqual DEF Cadena
<1>7. s # <<>>
  BY <1>1, <1>2
<1> QED  BY <1>1, <1>2, <1>4, <1>5, <1>6, <1>7

-----------------------------------------------------------------------------
(* Pieces that reach the client.                                           *)

LEMMA CampoDeTexto ==
  ASSUME NEW x \in Texto
  PROVE  /\ Append(x, NUL) \in Cadena /\ x \in Cadena
         /\ NUL \in ToSet(Append(x, NUL)) /\ NUL \notin ToSet(x)
         /\ Antes(Append(x, NUL), Primero(Append(x, NUL), {NUL})) = x
<1>1. NUL \in Simbolos
  BY TramaSana
<1>2. x \in Cadena /\ NUL \notin ToSet(x)
  <2>1. x \in Seq(Simbolos)
    BY SeqMonotonic DEF Texto
  <2>2. \A i \in DOMAIN x : x[i] # NUL
    BY LenProperties DEF Texto
  <2> QED  BY <2>1, <2>2 DEF Cadena, ToSet
<1>3. Append(x, NUL) \in Cadena /\ Append(x, NUL)[Len(x) + 1] = NUL /\ Len(Append(x, NUL)) = Len(x) + 1
  BY <1>1, <1>2, AppendProperties DEF Cadena
<1>4. NUL \in ToSet(Append(x, NUL))
  BY <1>2, <1>3, LenProperties DEF ToSet, Cadena
<1>5. Append(x, NUL) \o <<>> = Append(x, NUL) /\ <<>> \in Cadena
  BY <1>3, ConcatEmptySeq, EmptySeq DEF Cadena
<1>6. ToSet(x) \cap {NUL} = {}
  BY <1>2
<1>7. Antes(Append(x, NUL), Primero(Append(x, NUL), {NUL})) = x
  <2> DEFINE r == <<>>
             simbolos == {NUL}
  <2>0. Append(x, NUL) \o r = Append(x, NUL)
    BY <1>5
  <2>1. r \in Cadena /\ NUL \in simbolos /\ ToSet(x) \cap simbolos = {}
    BY <1>5, <1>6
  <2> HIDE DEF r, simbolos
  <2>2. Primero(Append(x, NUL) \o r, simbolos) = Len(x) + 1 /\ Antes(Append(x, NUL) \o r, Len(x) + 1) = x
    BY <1>1, <1>2, <2>1, CampoYResto
  <2>3. Antes(Append(x, NUL), Primero(Append(x, NUL), simbolos)) = x
    BY <2>0, <2>2
  <2> QED  BY <2>3 DEF simbolos
<1> QED  BY <1>2, <1>3, <1>4, <1>7

(* How far the client can read.                                            *)
LegiblesEs(piezas, k) ==
  /\ \A j \in 1..k : Legible(piezas[j])
  /\ k < Len(piezas) => ~Legible(piezas[k + 1])

LEMMA LegiblesBien ==
  ASSUME NEW piezas \in Seq(Cadena)
  PROVE  Legibles(piezas) \in 0..Len(piezas) /\ LegiblesEs(piezas, Legibles(piezas))
<1> DEFINE T == {k \in 0..Len(piezas) : k < Len(piezas) => ~Legible(piezas[k + 1])}
<1>1. Len(piezas) \in Nat
  BY LenProperties
<1>2. PICK k \in T : \A y \in T : k <= y
  <2>1. Len(piezas) \in T /\ T \subseteq Nat
    BY <1>1
  <2> HIDE DEF T
  <2> QED  BY <2>1, Minimo
<1>3. ASSUME NEW j \in 1..k PROVE Legible(piezas[j])
  <2>1. j - 1 \in 0..Len(piezas) /\ j - 1 < Len(piezas) /\ (j - 1) + 1 = j /\ j - 1 < k
    BY <1>1, <1>2
  <2>2. j - 1 \notin T
    BY <1>2, <2>1
  <2> QED  BY <2>1, <2>2
<1>4. k \in 0..Len(piezas) /\ LegiblesEs(piezas, k)
  BY <1>2, <1>3 DEF LegiblesEs
<1> QED  BY <1>4 DEF Legibles, LegiblesEs

(* Pieces that carry some fields: one and its NUL in each, up to one that  *)
(* has no NUL.                                                             *)
LlevaHasta(piezas, campos, m) ==
  /\ m <= Len(piezas)
  /\ \A j \in 1..m : piezas[j] = Append(campos[j], NUL)
  /\ m < Len(piezas) => NUL \notin ToSet(piezas[m + 1])
Lleva(piezas, campos) == \E m \in 0..Len(campos) : LlevaHasta(piezas, campos, m)

(* Of them the client reads the first fields, and nothing else.            *)
LEMMA SoloCampos ==
  ASSUME NEW campos \in Seq(Texto), NEW piezas \in Seq(Cadena), NEW m \in 0..Len(campos), LlevaHasta(piezas, campos, m)
  PROVE  /\ Campos(piezas) \in Seq(Texto) /\ Len(Campos(piezas)) = Legibles(piezas)
         /\ Len(Campos(piezas)) <= m
         /\ \A j \in 1..Len(Campos(piezas)) : Campos(piezas)[j] = campos[j]
<1> DEFINE k == Legibles(piezas)
           leido(j) == Antes(piezas[j], Primero(piezas[j], {NUL}))
<1>1. Len(campos) \in Nat /\ Len(piezas) \in Nat /\ m <= Len(piezas)
  BY LenProperties DEF LlevaHasta
<1>2. k \in 0..Len(piezas) /\ LegiblesEs(piezas, k)
  BY LegiblesBien
<1>3. k <= m
  <2>1. m < Len(piezas) => ~Legible(piezas[m + 1])
    BY DEF LlevaHasta, Legible
  <2> HIDE DEF k
  <2> QED  BY <1>1, <1>2, <2>1 DEF LegiblesEs
<1>4. Campos(piezas) = [j \in 1..k |-> leido(j)]
  BY DEF Campos
<1>5. ASSUME NEW j \in 1..k PROVE leido(j) = campos[j] /\ campos[j] \in Texto
  <2>1. j \in 1..m /\ j \in 1..Len(campos)
    BY <1>1, <1>2, <1>3
  <2>2. campos[j] \in Texto /\ piezas[j] = Append(campos[j], NUL)
    BY <2>1, ElementOfSeq DEF LlevaHasta
  <2> QED  BY <2>2, CampoDeTexto
<1> HIDE DEF leido, k
<1>6. Campos(piezas) \in [1..k -> Texto] /\ k \in Nat
  BY <1>2, <1>4, <1>5
<1>7. Campos(piezas) \in Seq(Texto) /\ Len(Campos(piezas)) = k
  BY <1>6
<1> QED  BY <1>3, <1>4, <1>5, <1>7 DEF k

LEMMA PiezasSonCadenas ==
  ASSUME NEW campos \in Seq(Texto)
  PROVE  /\ Piezas(campos) \in Seq(Cadena) /\ Len(Piezas(campos)) = Len(campos)
         /\ \A j \in 1..Len(campos) : Piezas(campos)[j] = Append(campos[j], NUL)
<1>1. Len(campos) \in Nat /\ DOMAIN campos = 1..Len(campos)
  BY LenProperties
<1>2. ASSUME NEW j \in 1..Len(campos) PROVE Append(campos[j], NUL) \in Cadena
  BY CampoDeTexto, ElementOfSeq
<1>3. Piezas(campos) \in [1..Len(campos) -> Cadena]
  BY <1>1, <1>2 DEF Piezas
<1>4. Piezas(campos) \in Seq(Cadena) /\ Len(Piezas(campos)) = Len(campos)
  BY <1>1, <1>3
<1> QED  BY <1>1, <1>4 DEF Piezas

(* What a listener finds: nothing, a whole text, or one without its end.   *)
LEMMA LlevaPiezas ==
  ASSUME NEW campos \in Seq(Texto)
  PROVE  LlevaHasta(Piezas(campos), campos, Len(campos))
BY PiezasSonCadenas, LenProperties DEF LlevaHasta

LEMMA LlevaCortada ==
  ASSUME NEW campos \in Seq(Texto), campos # <<>>
  PROVE  Cortada(campos) \in Seq(Cadena) /\ LlevaHasta(Cortada(campos), campos, Len(campos) - 1)
<1> DEFINE k == Len(campos)
<1>1. k \in Nat \ {0} /\ DOMAIN campos = 1..k
  BY LenProperties, EmptySeq
<1>2. \A j \in 1..k : campos[j] \in Texto
  BY ElementOfSeq
<1>3. Front(campos[k]) \in Texto
  <2>1. campos[k] \in Texto /\ Len(campos[k]) \in Nat
    BY <1>1, <1>2, LenProperties DEF Texto
  <2>2. \A i \in 1..(Len(campos[k]) - 1) : campos[k][i] \in Simbolos \ {NUL}
    BY <2>1, ElementOfSeq DEF Texto
  <2> HIDE DEF k
  <2> QED  BY <2>1, <2>2, SubSeqProperties DEF Front, Texto
<1>4. Front(campos[k]) \in Cadena /\ NUL \notin ToSet(Front(campos[k]))
  BY <1>3, CampoDeTexto
<1>5. \A j \in 1..k : Piezas(campos)[j] = Append(campos[j], NUL) /\ Append(campos[j], NUL) \in Cadena
  BY <1>2, CampoDeTexto, PiezasSonCadenas
<1>6. Cortada(campos) = [j \in 1..k |-> IF j = k THEN Front(campos[k]) ELSE Piezas(campos)[j]]
  BY <1>1 DEF Cortada
<1> HIDE DEF k
<1>7. Cortada(campos) \in [1..k -> Cadena]
  BY <1>4, <1>5, <1>6
<1>8. Cortada(campos) \in Seq(Cadena) /\ Len(Cortada(campos)) = k
  BY <1>1, <1>7
<1>9. LlevaHasta(Cortada(campos), campos, k - 1)
  BY <1>1, <1>4, <1>5, <1>6, <1>8 DEF LlevaHasta
<1> QED  BY <1>8, <1>9 DEF k

-----------------------------------------------------------------------------
(* Recursion.                                                              *)

(* What a recursive definition says of a function, as long as its values   *)
(* are of S.                                                               *)
Recorre(f, base, k, paso, S) ==
  f[0] = base /\ \A i \in 1..k : f[i - 1] \in S => f[i] = paso[i][f[i - 1]]

Coinciden(g, f, k) == \A i \in 0..k : g[i] = f[i]

(* A function defined by recursion on 0..k: it exists, and any other       *)
(* with its equations has the same values.                                 *)
LEMMA Recursion ==
  ASSUME NEW S, NEW base \in S, NEW k \in Nat, NEW paso \in [1..k -> [S -> S]]
  PROVE  \E f \in [0..k -> S] : Recorre(f, base, k, paso, S)
<1> USE DEF Recorre
<1> DEFINE Vale(f, m) == Recorre(f, base, m, paso, S)
           T == {m \in 0..k : ~\E f \in [0..m -> S] : Vale(f, m)}
<1>1. SUFFICES ASSUME T # {} PROVE FALSE
  <2>1. k \in 0..k
    OBVIOUS
  <2> QED  BY <2>1
<1>2. PICK m \in T : \A y \in T : m <= y
  <2>1. T \subseteq Nat
    OBVIOUS
  <2> HIDE DEF T
  <2> QED  BY <1>1, <2>1, Minimo
<1>3. CASE m = 0
  <2>1. [i \in 0..0 |-> base] \in [0..0 -> S] /\ Vale([i \in 0..0 |-> base], 0)
    OBVIOUS
  <2> QED  BY <1>2, <1>3, <2>1
<1>4. CASE m # 0
  <2>1. m \in 1..k /\ m - 1 \in 0..k /\ m - 1 < m
    BY <1>2, <1>4
  <2>2. m - 1 \notin T
    <3> HIDE DEF T
    <3> QED  BY <1>2, <2>1
  <2>3. PICK g \in [0..(m - 1) -> S] : Vale(g, m - 1)
    BY <2>1, <2>2
  <2> DEFINE f == [i \in 0..m |-> IF i = m THEN paso[m][g[m - 1]] ELSE g[i]]
  <2>4. g[m - 1] \in S /\ paso[m][g[m - 1]] \in S
    BY <2>1, <2>3
  <2>5. f \in [0..m -> S]
    BY <2>1, <2>3, <2>4
  <2>6. f[0] = base
    BY <2>1, <2>3
  <2>7. ASSUME NEW i \in 1..m PROVE f[i] = paso[i][f[i - 1]]
    <3>1. f[i - 1] = g[i - 1] /\ g[i - 1] \in S
      BY <2>1, <2>3
    <3>2. CASE i = m
      BY <2>1, <3>1, <3>2
    <3>3. CASE i # m
      <4>1. i \in 1..(m - 1) /\ i \in 0..m
        BY <2>1, <3>3
      <4>2. g[i] = paso[i][g[i - 1]]
        BY <2>3, <4>1
      <4>3. f[i] = g[i]
        BY <3>3, <4>1
      <4> QED  BY <3>1, <4>2, <4>3
    <3> QED  BY <3>2, <3>3
  <2> HIDE DEF f
  <2>8. \E h \in [0..m -> S] : Vale(h, m)
    BY <2>5, <2>6, <2>7
  <2> QED  BY <1>2, <2>8
<1> QED  BY <1>3, <1>4

LEMMA RecursionUnica ==
  ASSUME NEW S, NEW base, NEW k \in Nat, NEW paso, NEW f \in [0..k -> S], NEW g,
         Recorre(f, base, k, paso, S), Recorre(g, base, k, paso, S)
  PROVE  Coinciden(g, f, k)
<1> DEFINE T == {i \in 0..k : g[i] # f[i]}
<1>1. T = {}
  <2>1. SUFFICES ASSUME T # {} PROVE FALSE
    OBVIOUS
  <2>2. PICK i \in T : \A y \in T : i <= y
    <3>1. T \subseteq Nat
      OBVIOUS
    <3> HIDE DEF T
    <3> QED  BY <2>1, <3>1, Minimo
  <2>3. i \in 1..k /\ i - 1 \in 0..k /\ i - 1 < i
    BY <2>2 DEF Recorre
  <2>4. i - 1 \notin T
    BY <2>2, <2>3
  <2>5. g[i - 1] = f[i - 1] /\ f[i - 1] \in S
    BY <2>3, <2>4
  <2>6. g[i] = f[i]
    BY <2>3, <2>5 DEF Recorre
  <2> QED  BY <2>2, <2>6
<1> QED  BY <1>1 DEF Coinciden

(* What the web service gives back is typed in one line.                   *)
LEMMA ModificadoEnLinea ==
  ASSUME NEW mensaje \in Texto
  PROVE  modify_text(mensaje) \in Linea
<1> DEFINE Queda(i) == \/ mensaje[i] \notin Espacios
                       \/ /\ i > 1 /\ mensaje[i - 1] \notin Espacios
                          /\ \E j \in i..Len(mensaje) : mensaje[j] \notin Espacios
           Simbolo(i) == IF mensaje[i] \in Espacios THEN BLANCO ELSE mensaje[i]
           Cuerpo(h, i) == IF i = 0 THEN <<>> ELSE IF Queda(i) THEN Append(h[i - 1], Simbolo(i)) ELSE h[i - 1]
           k == Len(mensaje)
           paso == [i \in 1..k |-> [x \in Linea |-> IF Queda(i) THEN Append(x, Simbolo(i)) ELSE x]]
<1>1. k \in Nat
  BY LenProperties DEF Texto
<1>2. \A i \in 1..k : Simbolo(i) \in Simbolos \ {NUL, NL}
  BY TramaSana, ElementOfSeq DEF Texto, Espacios
<1>3. paso \in [1..k -> [Linea -> Linea]]
  <2>1. ASSUME NEW i \in 1..k, NEW x \in Linea PROVE Append(x, Simbolo(i)) \in Linea
    <3> HIDE DEF Queda, Simbolo
    <3> QED  BY <1>2, AppendProperties DEF Linea
  <2> HIDE DEF Queda, Simbolo
  <2> QED  BY <2>1
<1> DEFINE base == <<>>
<1>4. base \in Linea
  BY EmptySeq DEF Linea
<1>5. PICK f \in [0..k -> Linea] : Recorre(f, base, k, paso, Linea)
  <2> HIDE DEF paso, k, base
  <2> QED  BY <1>1, <1>3, <1>4, Recursion
<1>6. f = [i \in 0..k |-> Cuerpo(f, i)]
  <2> HIDE DEF Queda, Simbolo
  <2>1. ASSUME NEW i \in 0..k PROVE f[i] = Cuerpo(f, i)
    <3>1. CASE i = 0
      BY <1>5, <3>1 DEF Recorre
    <3>2. CASE i # 0
      <4>1. i \in 1..k /\ i - 1 \in 0..k
        BY <1>1, <3>2
      <4>2. f[i - 1] \in Linea
        BY <1>5, <4>1
      <4>3. f[i] = paso[i][f[i - 1]]
        BY <1>5, <4>1, <4>2 DEF Recorre
      <4> QED  BY <3>2, <4>1, <4>2, <4>3
    <3> QED  BY <3>1, <3>2
  <2> QED  BY <1>5, <2>1
<1> DEFINE m == CHOOSE h : h = [i \in 0..k |-> Cuerpo(h, i)]
<1>7. m = [i \in 0..k |-> Cuerpo(m, i)]
  <2> HIDE DEF Cuerpo, k
  <2> QED  BY <1>6
<1>8. Coinciden(m, f, k)
  <2> HIDE DEF m, Queda, Simbolo
  <2>2. ASSUME NEW i \in 1..k, m[i - 1] \in Linea PROVE m[i] = paso[i][m[i - 1]]
    <3>1. i \in 0..k /\ i # 0
      BY <1>1
    <3>2. m[i] = Cuerpo(m, i)
      BY <1>7, <3>1
    <3> QED  BY <2>2, <3>1, <3>2
  <2>3. m[0] = base
    BY <1>1, <1>7
  <2>4. Recorre(m, base, k, paso, Linea)
    <3> HIDE DEF paso, k, base
    <3> QED  BY <2>2, <2>3 DEF Recorre
  <2> HIDE DEF paso, k, base
  <2> HIDE DEF paso, k, base
  <2> QED  BY <1>1, <1>5, <2>4, RecursionUnica
<1>9. modify_text(mensaje) = m[k]
  BY DEF modify_text
<1> HIDE DEF m
<1>10. m[k] \in Linea
  BY <1>1, <1>5, <1>8 DEF Coinciden
<1> QED  BY <1>9, <1>10

-----------------------------------------------------------------------------
(* Reads of the server.                                                    *)

LEMMA RecortaBien ==
  ASSUME NEW texto \in Cadena
  PROVE  Recorta(texto) \in Cadena /\ (Len(texto) <= MAXSIZE - 1 => Recorta(texto) = texto)
<1> DEFINE m == Menor(Len(texto), MAXSIZE - 1)
<1>1. Len(texto) \in Nat /\ MAXSIZE - 1 \in Nat
  BY LenProperties, TramaSana DEF Cadena
<1>2. m \in 0..Len(texto) /\ (Len(texto) <= MAXSIZE - 1 => m = Len(texto))
  BY <1>1 DEF Menor
<1> HIDE DEF m
<1>3. \A i \in 1..m : texto[i] \in Simbolos
  BY <1>1, <1>2, ElementOfSeq DEF Cadena
<1>4. SubSeq(texto, 1, m) \in Cadena
  BY <1>1, <1>2, <1>3, SubSeqProperties DEF Cadena
<1>5. Len(texto) <= MAXSIZE - 1 => SubSeq(texto, 1, m) = texto
  BY <1>2, SubSeqFull DEF Cadena
<1> QED  BY <1>4, <1>5 DEF Recorta, m

LEMMA LeeAlgo ==
  ASSUME NEW s \in Cadena, NEW previo \in Cadena
  PROVE  readLine(s, previo).campo \in Cadena /\ readLine(s, previo).resto \in Cadena
<1> DEFINE i == Primero(s, {NUL, NL})
<1>1. i \in 1..(Len(s) + 1) /\ Len(s) \in Nat
  BY PrimeroBien, LenProperties DEF Cadena
<1> HIDE DEF i
<1>2. Antes(s, i) \in Cadena
  <2>1. \A j \in 1..(i - 1) : s[j] \in Simbolos
    BY <1>1, ElementOfSeq DEF Cadena
  <2> QED  BY <1>1, <2>1, SubSeqProperties DEF Antes, Cadena
<1>3. Despues(s, i) \in Cadena
  <2>1. \A j \in (i + 1)..Len(s) : s[j] \in Simbolos
    BY <1>1, ElementOfSeq DEF Cadena
  <2> QED  BY <1>1, <2>1, SubSeqProperties DEF Despues, Cadena
<1> QED  BY <1>2, <1>3, RecortaBien DEF readLine, i

(* A field that has come whole is read as it is, cut to the buffer.        *)
LEMMA LeeCampo ==
  ASSUME NEW x \in Linea, NEW r \in Cadena, NEW previo
  PROVE  /\ Append(x, NUL) \o r \in Cadena /\ Append(x, NUL) \o r # <<>> /\ Terminada(Append(x, NUL) \o r)
         /\ readLine(Append(x, NUL) \o r, previo).campo = Recorta(x)
         /\ readLine(Append(x, NUL) \o r, previo).resto = r
<1> DEFINE simbolos == {NUL, NL}
           s == Append(x, NUL) \o r
<1>1. x \in Cadena /\ NUL \in Simbolos /\ NUL \in simbolos /\ ToSet(x) \cap simbolos = {}
  <2>1. \A j \in DOMAIN x : x[j] \in Simbolos \ {NUL, NL}
    BY ElementOfSeq, LenProperties DEF Linea
  <2>2. ToSet(x) \cap simbolos = {}
    BY <2>1 DEF ToSet
  <2> QED  BY <2>2, TramaSana, SeqMonotonic DEF Linea, Cadena
<1>2. /\ s \in Cadena /\ s # <<>> /\ Primero(s, simbolos) = Len(x) + 1 /\ Len(x) < Len(s)
      /\ Antes(s, Len(x) + 1) = x /\ Despues(s, Len(x) + 1) = r
  <2> HIDE DEF simbolos
  <2> QED  BY <1>1, CampoYResto
<1>3. Len(x) \in Nat /\ Len(s) \in Nat
  BY <1>1, <1>2, LenProperties DEF Cadena
<1>4. Terminada(s)
  BY <1>2, <1>3 DEF Terminada
<1> HIDE DEF s
<1>5. readLine(s, previo) = [campo |-> Recorta(x), resto |-> r]
  BY <1>2 DEF readLine
<1> QED  BY <1>2, <1>4, <1>5 DEF s

(* Fields that were read and what is left of the stream, and one more.     *)
Leidas == [campos : Seq(Cadena), resto : Cadena]
UnaMas(p) == LET r == readLine(p.resto, SinLeer)
             IN  [campos |-> Append(p.campos, r.campo), resto |-> r.resto]

(* The reads, from the function that Lecturas defines.                     *)
EsLectura(f, s, k) ==
  f = [j \in 0..k |-> IF j = 0 THEN {[campos |-> <<>>, resto |-> s]} ELSE {UnaMas(p) : p \in f[j - 1]}]

LEMMA UnaMasBien ==
  ASSUME NEW p \in Leidas
  PROVE  UnaMas(p) \in Leidas /\ Len(UnaMas(p).campos) = Len(p.campos) + 1
<1>1. SinLeer \in Cadena
  <2>1. "?" \in Simbolos
    BY ClienteSano
  <2> QED  BY <2>1 DEF SinLeer, Cadena
<1>2. p.resto \in Cadena /\ p.campos \in Seq(Cadena)
  BY DEF Leidas
<1> DEFINE r == readLine(p.resto, SinLeer)
<1>3. r.campo \in Cadena /\ r.resto \in Cadena
  BY <1>1, <1>2, LeeAlgo
<1> HIDE DEF r
<1>4. Append(p.campos, r.campo) \in Seq(Cadena) /\ Len(Append(p.campos, r.campo)) = Len(p.campos) + 1
  BY <1>2, <1>3, AppendProperties
<1> QED  BY <1>3, <1>4 DEF UnaMas, Leidas, r

LEMMA LecturasDe ==
  ASSUME NEW s \in Cadena, NEW k \in Nat
  PROVE  \E f \in [0..k -> SUBSET Leidas] : EsLectura(f, s, k) /\ Lecturas(s, k) = f[k]
<1> DEFINE base == {[campos |-> <<>>, resto |-> s]}
           mas(c) == {UnaMas(p) : p \in c}
           paso == [j \in 1..k |-> [c \in SUBSET Leidas |-> mas(c)]]
           S == SUBSET Leidas
<1>1. base \in S /\ \A c \in S : mas(c) \in S
  <2>1. <<>> \in Seq(Cadena)
    BY EmptySeq
  <2>2. base \in S
    BY <2>1 DEF Leidas
  <2> QED  BY <2>2, UnaMasBien
<1>2. paso \in [1..k -> [S -> S]]
  BY <1>1
<1>3. PICK f \in [0..k -> S] : Recorre(f, base, k, paso, S)
  <2> HIDE DEF base, paso, S
  <2> QED  BY <1>1, <1>2, Recursion
<1>4. EsLectura(f, s, k)
  <2>1. ASSUME NEW j \in 0..k PROVE f[j] = IF j = 0 THEN base ELSE mas(f[j - 1])
    <3>1. CASE j = 0
      BY <1>3, <3>1 DEF Recorre
    <3>2. CASE j # 0
      <4>1. j \in 1..k /\ j - 1 \in 0..k
        BY <3>2
      <4>2. f[j - 1] \in S
        BY <1>3, <4>1
      <4>3. f[j] = paso[j][f[j - 1]]
        <5> HIDE DEF base, paso, S
        <5> QED  BY <1>3, <4>1, <4>2 DEF Recorre
      <4> QED  BY <3>2, <4>1, <4>2, <4>3
    <3> QED  BY <3>1, <3>2
  <2> HIDE DEF base, mas
  <2>2. f = [j \in 0..k |-> IF j = 0 THEN base ELSE mas(f[j - 1])]
    BY <1>3, <2>1
  <2> QED  BY <2>2 DEF EsLectura, base, mas
<1> DEFINE g == CHOOSE h : EsLectura(h, s, k)
<1>5. EsLectura(g, s, k)
  BY <1>4
<1>6. Lecturas(s, k) = g[k]
  BY DEF Lecturas, EsLectura, UnaMas
<1> HIDE DEF g
<1>7. Coinciden(g, f, k)
  <2>1. g[0] = base
    BY <1>5 DEF EsLectura
  <2>2. ASSUME NEW j \in 1..k, g[j - 1] \in S PROVE g[j] = paso[j][g[j - 1]]
    <3>1. j \in 0..k /\ j # 0
      OBVIOUS
    <3>2. g[j] = mas(g[j - 1])
      BY <1>5, <3>1 DEF EsLectura
    <3> HIDE DEF mas
    <3> QED  BY <2>2, <3>2
  <2> HIDE DEF base, paso, S
  <2>3. Recorre(g, base, k, paso, S)
    BY <2>1, <2>2 DEF Recorre
  <2> QED  BY <1>3, <2>3, RecursionUnica
<1>8. Lecturas(s, k) = f[k]
  BY <1>6, <1>7 DEF Coinciden
<1> QED  BY <1>3, <1>4, <1>8

(* The reads are as many fields as were asked for.                         *)
LEMMA LecturasBien ==
  ASSUME NEW s \in Cadena, NEW k \in Nat, NEW l \in Lecturas(s, k)
  PROVE  l \in Leidas /\ Len(l.campos) = k
<1>1. PICK f \in [0..k -> SUBSET Leidas] : EsLectura(f, s, k) /\ Lecturas(s, k) = f[k]
  BY LecturasDe
<1> DEFINE T == {j \in 0..k : \E p \in f[j] : Len(p.campos) # j}
<1>2. T = {}
  <2>1. SUFFICES ASSUME T # {} PROVE FALSE
    OBVIOUS
  <2>2. PICK j \in T : \A y \in T : j <= y
    <3>1. T \subseteq Nat
      OBVIOUS
    <3> HIDE DEF T
    <3> QED  BY <2>1, <3>1, Minimo
  <2>3. j \in 0..k
    OBVIOUS
  <2>4. PICK p \in f[j] : Len(p.campos) # j
    OBVIOUS
  <2>5. CASE j = 0
    <3>1. p.campos = <<>>
      BY <1>1, <2>3, <2>4, <2>5 DEF EsLectura
    <3> QED  BY <2>4, <2>5, <3>1
  <2>6. CASE j # 0
    <3>1. j - 1 \in 0..k /\ j - 1 < j
      BY <2>3, <2>6
    <3>2. PICK q \in f[j - 1] : p = UnaMas(q)
      BY <1>1, <2>3, <2>4, <2>6 DEF EsLectura
    <3>3. j - 1 \notin T
      <4> HIDE DEF T
      <4> QED  BY <2>2, <2>3, <3>1
    <3>4. Len(q.campos) = j - 1 /\ q \in Leidas
      BY <3>1, <3>2, <3>3
    <3>5. Len(p.campos) = (j - 1) + 1
      BY <3>2, <3>4, UnaMasBien
    <3> QED  BY <2>3, <2>4, <3>5
  <2> QED  BY <2>5, <2>6
<1>3. k \in 0..k
  OBVIOUS
<1>4. l \in f[k] /\ l \in Leidas
  BY <1>1, <1>3
<1>5. k \notin T
  BY <1>2
<1> QED  BY <1>3, <1>4, <1>5

(* A field and its NUL have one end of line more.                          *)
Finales(s) == {j \in DOMAIN s : s[j] \in {NUL, NL}}

LEMMA FinalesMas ==
  ASSUME NEW s \in Cadena, NEW x \in Linea
  PROVE  /\ Cardinality(Finales(s)) \in Nat
         /\ Cardinality(Finales(s \o Append(x, NUL))) = Cardinality(Finales(s)) + 1
<1> DEFINE h == Append(x, NUL)
           t == s \o h
           m == Len(s) + Len(x) + 1
<1>1. s \in Seq(Simbolos) /\ Len(s) \in Nat /\ x \in Seq(Simbolos) /\ Len(x) \in Nat /\ NUL \in Simbolos
  BY LenProperties, SeqMonotonic, TramaSana DEF Cadena, Linea
<1>2. h \in Seq(Simbolos) /\ Len(h) = Len(x) + 1 /\ h[Len(x) + 1] = NUL /\ \A j \in 1..Len(x) : h[j] = x[j]
  BY <1>1, AppendProperties
<1>3. \A j \in 1..Len(x) : x[j] \notin {NUL, NL}
  BY ElementOfSeq DEF Linea
<1> HIDE DEF h
<1>4. /\ t \in Seq(Simbolos) /\ Len(t) = m
      /\ \A j \in 1..Len(s) + Len(h) : t[j] = IF j <= Len(s) THEN s[j] ELSE h[j - Len(s)]
  <2>1. s \in Seq(Simbolos) /\ h \in Seq(Simbolos)
    BY <1>1, <1>2
  <2>2. /\ s \o h \in Seq(Simbolos) /\ Len(s \o h) = Len(s) + Len(h)
        /\ \A j \in 1..Len(s) + Len(h) : (s \o h)[j] = IF j <= Len(s) THEN s[j] ELSE h[j - Len(s)]
    BY <2>1, ConcatProperties, Zenon
  <2>3. Len(s) + Len(h) = m
    BY <1>1, <1>2
  <2> QED  BY <2>2, <2>3
<1>5. DOMAIN s = 1..Len(s) /\ DOMAIN t = 1..m /\ m \in Nat
  BY <1>1, <1>4, LenProperties
<1> HIDE DEF t
<1>6. \A j \in 1..Len(s) : t[j] = s[j]
  BY <1>1, <1>2, <1>4
<1>7. t[m] = NUL
  <2>1. m \in 1..Len(s) + Len(h) /\ ~(m <= Len(s)) /\ m - Len(s) = Len(x) + 1
    BY <1>1, <1>2
  <2> QED  BY <1>2, <1>4, <2>1
<1>8. \A j \in 1..m : j > Len(s) /\ j # m => t[j] \notin {NUL, NL}
  <2>1. SUFFICES ASSUME NEW j \in 1..m, j > Len(s), j # m PROVE t[j] \notin {NUL, NL}
    OBVIOUS
  <2>2. j \in 1..Len(s) + Len(h) /\ ~(j <= Len(s)) /\ j - Len(s) \in 1..Len(x)
    BY <1>1, <1>2, <2>1
  <2> QED  BY <1>2, <1>3, <1>4, <2>2
<1>9. Finales(t) = Finales(s) \cup {m} /\ m \notin Finales(s) /\ Finales(s) \subseteq 1..Len(s)
  <2>1. m \notin 1..Len(s) /\ m \in 1..m /\ 1..Len(s) \subseteq 1..m
    BY <1>1
  <2>2. \A j \in 1..m : j \in 1..Len(s) \/ (j > Len(s) /\ j # m) \/ j = m
    BY <1>1
  <2> HIDE DEF m
  <2> QED  BY <1>5, <1>6, <1>7, <1>8, <2>1, <2>2 DEF Finales
<1>10. IsFiniteSet(Finales(s))
  <2>1. IsFiniteSet(1..Len(s))
    BY <1>1, FS_Interval
  <2> QED  BY <1>9, <2>1, FS_Subset
<1>11. Cardinality(Finales(s)) \in Nat /\ Cardinality(Finales(t)) = Cardinality(Finales(s)) + 1
  BY <1>9, <1>10, FS_AddElement, FS_CardinalityType
<1> QED  BY <1>11 DEF t, h

(* A stream that begins with k fields, and what is left after each.        *)
Trae(g, s, pet, k) == g[0] = s /\ \A j \in 1..k : g[j - 1] = Append(pet[j], NUL) \o g[j]

(* What the reads leave of the fields that came whole.                     *)
LEMMA LeidosFieles ==
  ASSUME NEW s \in Cadena, NEW k \in Nat, NEW pet \in Seq(Linea), k <= Len(pet),
         NEW g \in [0..k -> Cadena], Trae(g, s, pet, k), NEW m \in Nat, NEW l \in Lecturas(s, m)
  PROVE  \A j \in 1..m : j <= k => l.campos[j] = Recorta(pet[j])
<1>1. PICK f \in [0..m -> SUBSET Leidas] : EsLectura(f, s, m) /\ Lecturas(s, m) = f[m]
  BY LecturasDe
<1> DEFINE Va(p, j) == /\ Len(p.campos) = j /\ (j <= k => p.resto = g[j])
                       /\ \A i \in 1..j : i <= k => p.campos[i] = Recorta(pet[i])
           T == {j \in 0..m : \E p \in f[j] : ~Va(p, j)}
<1>2. T = {}
  <2>1. SUFFICES ASSUME T # {} PROVE FALSE
    OBVIOUS
  <2>2. PICK j \in T : \A y \in T : j <= y
    <3>1. T \subseteq Nat
      OBVIOUS
    <3> HIDE DEF T
    <3> QED  BY <2>1, <3>1, Minimo
  <2>3. j \in 0..m
    OBVIOUS
  <2>4. PICK p \in f[j] : ~Va(p, j)
    OBVIOUS
  <2>5. CASE j = 0
    <3>1. p.campos = <<>> /\ p.resto = s
      BY <1>1, <2>3, <2>4, <2>5 DEF EsLectura
    <3> QED  BY <2>4, <2>5, <3>1 DEF Trae
  <2>6. CASE j # 0
    <3>1. j - 1 \in 0..m /\ j - 1 < j /\ j \in 1..m
      BY <2>3, <2>6
    <3>2. PICK q \in f[j - 1] : p = UnaMas(q)
      BY <1>1, <2>3, <2>4, <2>6 DEF EsLectura
    <3>3. j - 1 \notin T
      <4> HIDE DEF T
      <4> QED  BY <2>2, <2>3, <3>1
    <3>4. q \in Leidas /\ Va(q, j - 1)
      BY <3>1, <3>2, <3>3
    <3>5. Len(p.campos) = j
      <4>1. Len(p.campos) = (j - 1) + 1
        BY <3>2, <3>4, UnaMasBien
      <4> QED  BY <2>3, <4>1
    <3> DEFINE r == readLine(q.resto, SinLeer)
    <3>6. p = [campos |-> Append(q.campos, r.campo), resto |-> r.resto]
      BY <3>2 DEF UnaMas
    <3> HIDE DEF r
    <3>7. p.resto = r.resto /\ p.campos[j] = r.campo /\ \A i \in 1..(j - 1) : p.campos[i] = q.campos[i]
      <4>1. q.campos \in Seq(Cadena) /\ Len(q.campos) = j - 1 /\ j = (j - 1) + 1
        BY <2>3, <3>4 DEF Leidas
      <4>2. p.campos = Append(q.campos, r.campo)
        BY <3>6
      <4> QED  BY <3>6, <4>1, <4>2, AppendProperties
    <3>8. ASSUME j <= k PROVE r.campo = Recorta(pet[j]) /\ r.resto = g[j]
      <4>1. q.resto = g[j - 1] /\ j \in 1..k /\ j \in 1..Len(pet) /\ j \in 0..k
        BY <3>1, <3>4, <3>8, LenProperties
      <4>2. q.resto = Append(pet[j], NUL) \o g[j] /\ pet[j] \in Linea /\ g[j] \in Cadena
        BY <4>1, ElementOfSeq DEF Trae
      <4> QED  BY <4>2, LeeCampo DEF r
    <3>9. ASSUME NEW i \in 1..j, i <= k PROVE p.campos[i] = Recorta(pet[i])
      <4>1. CASE i = j
        BY <3>7, <3>8, <3>9, <4>1
      <4>2. CASE i # j
        <5>1. i \in 1..(j - 1)
          BY <2>3, <4>2
        <5> QED  BY <3>4, <3>7, <3>9, <5>1
      <4> QED  BY <4>1, <4>2
    <3> QED  BY <2>4, <3>5, <3>7, <3>8, <3>9
  <2> QED  BY <2>5, <2>6
<1>3. m \in 0..m /\ l \in f[m] /\ m \notin T
  BY <1>1, <1>2
<1> QED  BY <1>3
=============================================================================
