--------------------------- MODULE DespachoPruebas ---------------------------
(***************************************************************************)
(* Proofs that the hand-over of Despacho gives every thread the connection *)
(* it was created for, and that main runs out of descriptors only under    *)
(* the load of the requests in service, what others left open and the      *)
(* connections without a thread, for any number of threads, connections    *)
(* and descriptors.                                                        *)
(***************************************************************************)
EXTENDS Despacho, FiniteSetTheorems, TLAPS

(* A thread that has not copied the descriptor yet.                        *)
SinCopiar(h) == pc[h] \in {"lock", "copiar"}

(* While a thread has to copy, main is inside its wait, the flag is up and *)
(* sd_client still holds what the thread is to copy; there is at most one  *)
(* such thread.                                                            *)
Pendiente ==
  \A h \in Hilos : SinCopiar(h) =>
    /\ pcMain \in {"lock", "while", "wait", "despierta"}
    /\ mensaje_no_copiado /\ para[h] = sd_client
    /\ \A g \in Hilos : SinCopiar(g) => g = h

(* Connections are numbered as they arrive, so that the one just accepted  *)
(* is new, no two threads were created for the same one, and none for one  *)
(* whose pthread_create failed.                                            *)
Numeradas ==
  /\ sd_client = llegadas
  /\ pcMain = "crear" => sd_client \in abiertas
  /\ \A h \in Hilos : pc[h] # "libre" =>
       /\ para[h] <= sd_client
       /\ pcMain = "crear" => para[h] < sd_client
       /\ para[h] \notin sin_hilo
       /\ \A g \in Hilos : pc[g] # "libre" /\ g # h => para[g] # para[h]
  /\ \A c \in sin_hilo : c <= sd_client /\ (pcMain = "crear" => c < sd_client)

(* An open connection belongs to a live thread, or its pthread_create      *)
(* failed, or main is about to create its thread.                          *)
ConDuenno ==
  \A c \in abiertas :
    \/ c \in sin_hilo
    \/ pcMain = "crear" /\ c = sd_client
    \/ \E h \in Hilos : pc[h] # "libre" /\ para[h] = c

(* The inductive invariant.                                                *)
IInv == TypeOK /\ Pendiente /\ Numeradas /\ SuConexion
        /\ (pcMain \in {"accept", "crear"} => mensaje_no_copiado)
        /\ \A h \in Hilos : usa[h] # 0 => pc[h] = "sirve"

USE DEF PcsMain, PcsHilo, SinCopiar, Copiado, copia, fds

LEMMA InitIInv == Init => IInv
BY HilosAparte DEF Init, IInv, TypeOK, Mutex, Pendiente, Numeradas, SuConexion

LEMMA PasoIInv == IInv /\ [Next]_vars => IInv'
<1> SUFFICES ASSUME IInv, [Next]_vars PROVE IInv'
  OBVIOUS
<1> USE HilosAparte DEF IInv, TypeOK, Mutex, Pendiente, Numeradas, SuConexion
<1>1. CASE Aceptar
  <2>1. CASE UNCHANGED <<sd_client, llegadas, abiertas>>
    BY <1>1, <2>1 DEF Aceptar
  <2>2. CASE /\ llegadas' = llegadas + 1 /\ sd_client' = llegadas + 1
             /\ abiertas' = abiertas \cup {llegadas + 1} /\ pcMain' = "crear"
    BY <1>1, <2>2 DEF Aceptar
  <2> QED
    BY <1>1, <2>1, <2>2 DEF Aceptar
<1>2. CASE CrearHilo
  <2>1. CASE sin_hilo' = sin_hilo
    BY <1>2, <2>1 DEF CrearHilo, Crear
  <2>2. CASE sin_hilo' = sin_hilo \cup {sd_client} /\ pcMain' = "accept" /\ UNCHANGED <<pc, para>>
    BY <1>2, <2>2 DEF CrearHilo, Crear
  <2> QED
    BY <1>2, <2>1, <2>2 DEF CrearHilo, Crear
<1>3. CASE MainLock
  BY <1>3 DEF MainLock
<1>4. CASE MainWhile
  BY <1>4 DEF MainWhile, Espera
<1>5. CASE MainDespierta
  BY <1>5 DEF MainDespierta, MainRecupera
<1>6. CASE MainReset
  BY <1>6 DEF MainReset
<1>7. CASE Espurio
  BY <1>7 DEF Espurio
<1>8. ASSUME NEW h \in Hilos, HiloLock(h) PROVE IInv'
  BY <1>8 DEF HiloLock, En
<1>9. ASSUME NEW h \in Hilos, HiloCopia(h) PROVE IInv'
  <2> DEFINE sig == IF pcMain = "wait" THEN "despierta" ELSE pcMain
  <2>1. /\ pc[h] = "copiar" /\ pcMain \in {"lock", "while", "wait", "despierta"}
        /\ mensaje_no_copiado' = FALSE /\ pcMain' = sig /\ pc' = [pc EXCEPT ![h] = "unlock"]
        /\ sd' = [sd EXCEPT ![h] = sd_client]
        /\ UNCHANGED <<sd_client, mutex_mensaje, para, llegadas, espurios, fds>>
    BY <1>9 DEF HiloCopia, Copia, En
  <2>2. sig \in {"lock", "while", "despierta"} /\ (sig = "while" <=> pcMain = "while")
    BY <2>1
  <2> HIDE DEF sig
  <2>3. Mutex'
    BY <2>1, <2>2
  <2>4. TypeOK'
    <3>1. sd' \in [Hilos -> Nat] /\ pc' \in [Hilos -> PcsHilo] /\ pcMain' \in PcsMain
      BY <2>1, <2>2
    <3>2. /\ abiertas' \subseteq Nat /\ hablado' \subseteq Nat /\ sin_hilo' \subseteq abiertas'
          /\ usa' \in [Hilos -> 0..Uso] /\ fugas' \in Nat
      BY <2>1
    <3>3. /\ sd_client' \in Nat /\ mensaje_no_copiado' \in BOOLEAN /\ mutex_mensaje' \in Hilos \cup {Main, Nadie}
          /\ para' \in [Hilos -> Nat] /\ llegadas' \in Nat /\ espurios' \in Nat
      BY <2>1
    <3> QED
      BY <2>3, <3>1, <3>2, <3>3 DEF TypeOK
  <2>5. Pendiente'
    BY <2>1
  <2>6. Numeradas'
    BY <2>1, <2>2
  <2>7. SuConexion'
    BY <2>1
  <2> QED
    BY <2>1, <2>2, <2>3, <2>4, <2>5, <2>6, <2>7
<1>10. ASSUME NEW h \in Hilos, HiloUnlock(h) PROVE IInv'
  BY <1>10 DEF HiloUnlock, En
<1>11. ASSUME NEW h \in Hilos, HiloTermina(h) PROVE IInv'
  <2>1. /\ pc[h] = "sirve" /\ pcMain \notin {"fin", "agotado"} /\ sd[h] = para[h]
        /\ pc' = [pc EXCEPT ![h] = "libre"] /\ abiertas' = abiertas \ {para[h]}
        /\ fugas' \in Nat /\ usa' = [usa EXCEPT ![h] = 0]
        /\ UNCHANGED <<copia, pcMain, llegadas, espurios, hablado, sin_hilo>>
    BY <1>11 DEF HiloTermina, Termina, En
  <2>2. TypeOK'
    <3>1. para[h] \notin sin_hilo /\ sin_hilo' = sin_hilo
      BY <2>1
    <3>2. abiertas' \subseteq Nat /\ sin_hilo' \subseteq abiertas'
      BY <2>1, <3>1
    <3>3. usa' \in [Hilos -> 0..Uso]
      BY <2>1
    <3>4. Mutex'
      BY <2>1
    <3> QED
      BY <2>1, <3>2, <3>3, <3>4
  <2>3. Numeradas'
    BY <2>1
  <2> QED
    BY <2>1, <2>2, <2>3
<1>12. ASSUME NEW h \in Hilos, HiloLee(h) PROVE IInv'
  BY <1>12 DEF HiloLee, En
<1>13. ASSUME NEW h \in Hilos, HiloAbre(h) \/ HiloCierra(h) PROVE IInv'
  <2>1. /\ pc[h] = "sirve" /\ usa' \in [Hilos -> 0..Uso] /\ \A g \in Hilos : g # h => usa'[g] = usa[g]
        /\ UNCHANGED <<copia, pcMain, pc, llegadas, espurios, abiertas, hablado, fugas, sin_hilo>>
    BY <1>13 DEF HiloAbre, HiloCierra, En
  <2> QED
    BY <2>1
<1>14. ASSUME NEW c \in abiertas, Hablar(c) PROVE IInv'
  BY <1>14 DEF Hablar
<1>15. CASE UNCHANGED vars
  BY <1>15 DEF vars
<1> QED
  BY <1>1, <1>2, <1>3, <1>4, <1>5, <1>6, <1>7, <1>8, <1>9, <1>10, <1>11, <1>12, <1>13, <1>14, <1>15
  DEF Next, main, hilo, entrega

(* The inductive invariant holds in every reachable state.                 *)
THEOREM SpecIInv == Spec => []IInv
BY InitIInv, PasoIInv, PTL DEF Spec

(* Every open connection got no thread or is that of a live one.           *)
LEMMA AbiertasAcotadas ==
  ASSUME IInv, ConDuenno, pcMain # "crear"
  PROVE  /\ Cardinality(abiertas) \in Nat /\ Cardinality(sin_hilo) \in Nat /\ Cardinality(Vivos) \in Nat
         /\ Cardinality(abiertas) <= Cardinality(sin_hilo) + Cardinality(Vivos)
<1> DEFINE Suyas == {para[h] : h \in Vivos}
           suya == [h \in Vivos |-> para[h]]
<1>1. IsFiniteSet(Vivos) /\ Cardinality(Vivos) \in Nat
  BY HilosAparte, FS_Subset, FS_CardinalityType DEF Vivos
<1>2. suya \in Surjection(Vivos, Suyas)
  BY DEF Surjection
<1>3. IsFiniteSet(Suyas) /\ Cardinality(Suyas) \in Nat /\ Cardinality(Suyas) <= Cardinality(Vivos)
  BY <1>1, <1>2, FS_Surjection, FS_CardinalityType
<1>4. IsFiniteSet(sin_hilo) /\ Cardinality(sin_hilo) \in Nat
  <2>1. sin_hilo \in SUBSET (0..llegadas) /\ llegadas \in Nat
    BY DEF IInv, TypeOK, Numeradas
  <2>2. IsFiniteSet(0..llegadas)
    BY <2>1, FS_Interval
  <2> QED
    BY <2>1, <2>2, FS_Subset, FS_CardinalityType
<1>5. abiertas \in SUBSET (sin_hilo \cup Suyas)
  BY DEF ConDuenno, Vivos
<1> HIDE DEF Suyas
<1>6. /\ IsFiniteSet(sin_hilo \cup Suyas)
      /\ Cardinality(sin_hilo \cup Suyas) =
           Cardinality(sin_hilo) + Cardinality(Suyas) - Cardinality(sin_hilo \cap Suyas)
  BY <1>3, <1>4, FS_Union
<1>7. Cardinality(sin_hilo \cap Suyas) \in Nat
  BY <1>3, FS_Intersection, FS_CardinalityType
<1>8. IsFiniteSet(abiertas) /\ Cardinality(abiertas) <= Cardinality(sin_hilo \cup Suyas)
  BY <1>5, <1>6, FS_Subset
<1>9. Cardinality(abiertas) \in Nat /\ Cardinality(sin_hilo \cup Suyas) \in Nat
  BY <1>6, <1>8, FS_CardinalityType
<1> QED
  BY <1>1, <1>3, <1>4, <1>6, <1>7, <1>8, <1>9

(* No thread has more files open than Uso, and only a live one has any.    *)
LEMMA FicherosAcotados ==
  ASSUME IInv
  PROVE  Cardinality(Ficheros) \in Nat /\ Cardinality(Ficheros) <= Cardinality(Vivos) * Uso
<1>1. Ficheros \in SUBSET (Vivos \X (1..Uso))
  BY DEF Ficheros, Vivos, IInv, TypeOK
<1>2. IsFiniteSet(Vivos)
  BY HilosAparte, FS_Subset DEF Vivos
<1>3. IsFiniteSet(1..Uso) /\ Cardinality(1..Uso) = Uso
  BY HilosAparte, FS_Interval
<1>4. IsFiniteSet(Vivos \X (1..Uso)) /\ Cardinality(Vivos \X (1..Uso)) = Cardinality(Vivos) * Uso
  BY <1>2, <1>3, FS_Product
<1> QED
  BY <1>1, <1>4, FS_Subset, FS_CardinalityType

LEMMA PasoConDuenno == IInv /\ ConDuenno /\ [Next]_vars => ConDuenno'
<1> SUFFICES ASSUME IInv, ConDuenno, [Next]_vars PROVE ConDuenno'
  OBVIOUS
<1> USE HilosAparte DEF ConDuenno
<1>1. CASE Aceptar
  BY <1>1 DEF Aceptar
<1>2. CASE CrearHilo
  BY <1>2 DEF CrearHilo, Crear, IInv, TypeOK
<1>3. CASE MainLock \/ MainWhile \/ MainDespierta \/ MainReset \/ Espurio
  BY <1>3 DEF MainLock, MainWhile, Espera, MainDespierta, MainRecupera, MainReset, Espurio
<1>4. ASSUME NEW h \in Hilos, HiloLock(h) \/ HiloUnlock(h) PROVE ConDuenno'
  BY <1>4 DEF HiloLock, HiloUnlock, En, IInv, TypeOK
<1>5. ASSUME NEW h \in Hilos, HiloCopia(h) PROVE ConDuenno'
  <2>1. pc[h] = "copiar" /\ pc' = [pc EXCEPT ![h] = "unlock"] /\ pcMain # "crear"
        /\ UNCHANGED <<para, abiertas, sin_hilo>>
    BY <1>5 DEF HiloCopia, Copia, En, IInv, Pendiente
  <2> QED
    BY <2>1 DEF IInv, TypeOK
<1>6. ASSUME NEW h \in Hilos, HiloTermina(h) PROVE ConDuenno'
  <2>1. sd[h] = para[h] /\ pc' = [pc EXCEPT ![h] = "libre"] /\ abiertas' = abiertas \ {para[h]}
        /\ UNCHANGED <<copia, pcMain, sin_hilo>>
    BY <1>6 DEF HiloTermina, Termina, En, IInv, SuConexion
  <2> QED
    BY <2>1 DEF IInv, TypeOK
<1>7. ASSUME NEW h \in Hilos, HiloLee(h) PROVE ConDuenno'
  BY <1>7 DEF HiloLee, En, IInv, TypeOK
<1>8. ASSUME NEW h \in Hilos, HiloAbre(h) \/ HiloCierra(h) PROVE ConDuenno'
  BY <1>8 DEF HiloAbre, HiloCierra
<1>9. ASSUME NEW c \in abiertas, Hablar(c) PROVE ConDuenno'
  BY <1>9 DEF Hablar
<1>10. CASE UNCHANGED vars
  BY <1>10 DEF vars
<1> QED
  BY <1>1, <1>2, <1>3, <1>4, <1>5, <1>6, <1>7, <1>8, <1>9, <1>10 DEF Next, main, hilo, entrega

(* The step of accept that finds no descriptor left: the threads that live *)
(* have one connection and Uso files each, at most.                        *)
LEMMA PasoSeAgota == IInv /\ ConDuenno /\ SeAgotaPorCarga /\ [Next]_vars => SeAgotaPorCarga'
<1> SUFFICES ASSUME IInv, ConDuenno, SeAgotaPorCarga, [Next]_vars, pcMain' = "agotado" PROVE SeAgotaPorCarga'
  BY DEF SeAgotaPorCarga
<1> USE HilosAparte
<1>1. CASE Aceptar
  <2>1. /\ pcMain = "accept" /\ Cardinality(abiertas) + Cardinality(Ficheros) + fugas >= MaxFD
        /\ UNCHANGED <<pc, fugas, sin_hilo>>
    BY <1>1 DEF Aceptar, EnUso
  <2>2. /\ Cardinality(abiertas) \in Nat /\ Cardinality(sin_hilo) \in Nat /\ Cardinality(Vivos) \in Nat
        /\ Cardinality(abiertas) <= Cardinality(sin_hilo) + Cardinality(Vivos)
    BY <2>1, AbiertasAcotadas
  <2>3. Cardinality(Ficheros) \in Nat /\ Cardinality(Ficheros) <= Cardinality(Vivos) * Uso
    BY FicherosAcotados
  <2>4. \A v \in Nat : (1 + Uso) * v = v + v * Uso
    OBVIOUS
  <2>5. fugas \in Nat
    BY DEF IInv, TypeOK
  <2>6. MaxFD <= Cardinality(sin_hilo) + fugas + (1 + Uso) * Cardinality(Vivos)
    <3> DEFINE a == Cardinality(abiertas)
               f == Cardinality(Ficheros)
               n == Cardinality(sin_hilo)
               v == Cardinality(Vivos)
               p == v * Uso
    <3>1. p \in Nat /\ (1 + Uso) * v = v + p
      BY <2>2, <2>4
    <3>2. a \in Nat /\ f \in Nat /\ n \in Nat /\ v \in Nat /\ a <= n + v /\ f <= p /\ a + f + fugas >= MaxFD
      BY <2>1, <2>2, <2>3
    <3> HIDE DEF a, f, n, v, p
    <3>3. MaxFD <= n + fugas + (v + p)
      BY <2>5, <3>1, <3>2
    <3> QED
      BY <3>1, <3>3 DEF n, v
  <2> QED
    BY <2>1, <2>6 DEF SeAgotaPorCarga, Vivos
<1>2. CASE CrearHilo
  BY <1>2 DEF CrearHilo, Crear
<1>3. CASE MainLock \/ MainWhile \/ MainDespierta \/ MainReset \/ Espurio
  BY <1>3 DEF MainLock, MainWhile, Espera, MainDespierta, MainRecupera, MainReset, Espurio
<1>4. ASSUME NEW h \in Hilos, hilo(h) PROVE FALSE
  <2>1. ~HiloLock(h) /\ ~HiloUnlock(h) /\ ~HiloLee(h) /\ ~HiloAbre(h) /\ ~HiloCierra(h) /\ ~HiloTermina(h)
    BY DEF HiloLock, HiloUnlock, HiloLee, HiloAbre, HiloCierra, HiloTermina, Termina, En
  <2>2. ~HiloCopia(h)
    BY DEF HiloCopia, Copia, En
  <2> QED
    BY <1>4, <2>1, <2>2 DEF hilo, entrega
<1>5. ASSUME NEW c \in abiertas, Hablar(c) PROVE FALSE
  BY <1>5 DEF Hablar
<1>6. CASE UNCHANGED vars
  BY <1>6 DEF vars, SeAgotaPorCarga, Vivos
<1> QED
  BY <1>1, <1>2, <1>3, <1>4, <1>5, <1>6 DEF Next, main

(* However many connections came before, main runs out of descriptors      *)
(* (server.c:460-464) only when the requests in service, the files left    *)
(* open and the connections without a thread take them all.                *)
THEOREM SoloLaCargaAgota == Spec => []SeAgotaPorCarga
<1>1. Init => ConDuenno /\ SeAgotaPorCarga
  BY DEF Init, ConDuenno, SeAgotaPorCarga
<1> QED
  BY <1>1, SpecIInv, PasoConDuenno, PasoSeAgota, PTL DEF Spec

(* Every variable of the hand-over keeps its type.                         *)
THEOREM TipoCorrecto == Spec => []TypeOK
<1>1. IInv => TypeOK
  BY DEF IInv
<1> QED
  BY <1>1, SpecIInv, PTL

(* Whatever the scheduler does, every thread serves the connection it was  *)
(* created for (server.c:225 reads what server.c:460 wrote for it).        *)
THEOREM CadaHiloSuConexion == Spec => []SuConexion
<1>1. IInv => SuConexion
  BY DEF IInv
<1> QED
  BY <1>1, SpecIInv, PTL

(* No connection is served by two threads.                                 *)
THEOREM NingunaConexionCompartida == Spec => []UnaPorHilo
<1>1. IInv => UnaPorHilo
  BY DEF IInv, SuConexion, Numeradas, UnaPorHilo, TypeOK
<1> QED
  BY <1>1, SpecIInv, PTL
=============================================================================
