------------------------- MODULE UsuariosConectados -------------------------
(***************************************************************************)
(* CONNECTEDUSERS (server.c:340-385, gestiones.c:508-652) beside the other *)
(* requests: a thread that serves it goes through the directory of         *)
(* profiles three times, one file per step, while the threads of Servidor  *)
(* rewrite them.                                                           *)
(***************************************************************************)
EXTENDS Servidor, Functions

CONSTANTS
  Lectores,      \* threads that serve a CONNECTEDUSERS
  MaxConsultas   \* bound: CONNECTEDUSERS requests in a behaviour

ASSUME LectoresAparte == Lectores \cap Hilos = {} /\ Alias # {} /\ MaxConsultas \in Nat

VARIABLES
  pcL,           \* next step of each reader
  lec,           \* its local variables
  siempre,       \* history: users on line ever since the request began
  alguna,        \* history: users on line at some moment of the request
  consultas

lectores == <<pcL, lec, siempre, alguna, consultas>>

PcsLector == {"libre", "consulta", "contar", "dimensionar", "listar", "responder", "cerrar"}

(* por_leer: entries readdir has still to return; n: the counter of        *)
(* count_elements, num and tam what its two calls returned; fiable: no     *)
(* profile read so far was empty or written by an earlier process.         *)
Lectura == [alias : Alias, res : 0..2, por_leer : SUBSET Alias, n : Nat, num : Nat, tam : Nat,
            usuarios : Seq(Alias \cup {Nadie}), fiable : BOOLEAN]

Consulta(a) == [alias |-> a, res |-> 0, por_leer |-> {}, n |-> 0, num |-> 0, tam |-> 0,
                usuarios |-> <<>>, fiable |-> TRUE]
SinConsulta == Consulta(CHOOSE a \in Alias : TRUE)

EnL(l, etiqueta) == estado = "activo" /\ pcL[l] = etiqueta

AvanzaL(l, sig, r) ==
  /\ pcL' = [pcL EXCEPT ![l] = sig]
  /\ lec' = [lec EXCEPT ![l] = r]
  /\ UNCHANGED <<vars, consultas>>

(* The process ends and the readers with it.                               *)
SinLectores ==
  /\ pcL' = [l \in Lectores |-> "libre"]
  /\ lec' = [l \in Lectores |-> SinConsulta]
  /\ UNCHANGED consultas
CaeL(causa) == Cae(causa) /\ SinLectores

-----------------------------------------------------------------------------
EnConsulta == {lec[l].alias : l \in {l \in Lectores : pcL[l] # "libre"}}

(* The request is read.                                                    *)
Pedir(l) ==
  /\ EnL(l, "libre") /\ consultas < MaxConsultas
  /\ \E a \in Alias : /\ Disciplina => a \notin EnCurso \cup EnConsulta
                      /\ lec' = [lec EXCEPT ![l] = Consulta(a)]
  /\ pcL' = [pcL EXCEPT ![l] = "consulta"]
  /\ consultas' = consultas + 1
  /\ UNCHANGED vars

(* opendir and the first readdir, which takes in all the entries there are *)
(* at that moment; a scan counts from zero.                                *)
Abre(l, sig, r) ==
  \/ AvanzaL(l, sig, [r EXCEPT !.por_leer = {a \in Alias : perfiles[a] # NoHay}, !.n = 0])
  \/ FallosES /\ CaeL("exit(1)")

Escrito(a) == Completo(a) /\ perfiles[a].vivos
Fia(l, a)  == lec[l].fiable /\ Escrito(a)

(* connected_users_gestiones; whatever it says, the scans follow.          *)
ConsultarCon(l, sin_fichero) ==
  LET a == lec[l].alias
  IN  /\ EnL(l, "consulta")
      /\ \/ (perfiles[a] = NoHay \/ FallosES) /\ Abre(l, "contar", [lec[l] EXCEPT !.res = sin_fichero])
         \/ \E reg \in Lecturas(a) :
              Abre(l, "contar", [lec[l] EXCEPT !.res = IF reg.status = Conectado THEN 0 ELSE 1,
                                               !.fiable = Fia(l, a)])

(* Mutant: the code is_connected would give for a missing profile.         *)
ConsultarConTres(l) == ConsultarCon(l, 3)

Consultar(l) == ConsultarCon(l, 2)

Tras(l, a) == [lec[l] EXCEPT !.por_leer = @ \ {a}, !.fiable = Fia(l, a)]

(* An entry whose file cannot be opened any more is passed over.           *)
SinFichero(l, a) ==
  /\ estado = "activo" /\ pcL[l] \in {"contar", "dimensionar", "listar"}
  /\ a \in lec[l].por_leer /\ (perfiles[a] = NoHay \/ FallosES)

(* Mutant: the scan ends there.                                            *)
SaltarYAcabar(l) ==
  \E a \in Alias : SinFichero(l, a) /\ AvanzaL(l, pcL[l], [lec[l] EXCEPT !.por_leer = {}])

Saltar(l) ==
  \E a \in Alias : SinFichero(l, a) /\ AvanzaL(l, pcL[l], [lec[l] EXCEPT !.por_leer = @ \ {a}])

(* A turn of count_elements, called by tratar_mensaje and again by         *)
(* create_array_connected_users.                                           *)
CuentaLosDe(l, estados) ==
  /\ estado = "activo" /\ pcL[l] \in {"contar", "dimensionar"}
  /\ \E a \in lec[l].por_leer : \E reg \in Lecturas(a) :
       AvanzaL(l, pcL[l], [Tras(l, a) EXCEPT !.n = IF reg.status \in estados THEN @ + 1 ELSE @])

(* Mutant: every profile counts.                                           *)
ContarTodos(l) == CuentaLosDe(l, {Conectado, Desconectado})

ContarUno(l) == CuentaLosDe(l, {Conectado})

(* A turn of create_array_connected_users.  The name is copied through a   *)
(* pointer of the struct that was read; once the array is full the write   *)
(* goes past its end.                                                      *)
ListaLosDe(l, estados) ==
  /\ EnL(l, "listar")
  /\ \E a \in lec[l].por_leer : \E reg \in Lecturas(a) :
       \/ reg.status \notin estados /\ AvanzaL(l, "listar", Tras(l, a))
       \/ /\ reg.status \in estados
          /\ \E nombre \in IF Escrito(a) THEN {a} ELSE Alias \cup {Nadie} :
               AvanzaL(l, "listar", [Tras(l, a) EXCEPT !.usuarios = Append(@, nombre)])
       \/ /\ reg.status \in estados /\ (~Escrito(a) \/ Len(lec[l].usuarios) >= lec[l].tam)
          /\ CaeL("SIGSEGV")

(* Mutant: every profile is listed.                                        *)
ListarTodos(l) == ListaLosDe(l, {Conectado, Desconectado})

ListarUno(l) == ListaLosDe(l, {Conectado})

(* The end of each scan: the count is what tratar_mensaje will send, or    *)
(* the size of the array.                                                  *)
Acabar(l) ==
  LET r == lec[l]
  IN  /\ r.por_leer = {}
      /\ \/ EnL(l, "contar") /\ Abre(l, "dimensionar", [r EXCEPT !.num = r.n])
         \/ EnL(l, "dimensionar") /\ Abre(l, "listar", [r EXCEPT !.tam = r.n])
         \/ EnL(l, "listar") /\ AvanzaL(l, "responder", r)

(* The code and, if it is 0, num and as many entries of the array, written *)
(* or not.                                                                 *)
ResponderL(l) ==
  LET r == lec[l]
      hay == Len(r.usuarios)
  IN  /\ EnL(l, "responder")
      /\ \/ r.res # 0 /\ AvanzaL(l, "cerrar", [r EXCEPT !.usuarios = <<>>])
         \/ r.res = 0 /\ AvanzaL(l, "cerrar", [r EXCEPT !.usuarios =
                           [i \in 1..r.num |-> IF i <= hay THEN r.usuarios[i] ELSE Nadie]])
         \/ r.res = 0 /\ hay < r.num /\ CaeL("SIGSEGV")

CerrarL(l) == EnL(l, "cerrar") /\ AvanzaL(l, "libre", SinConsulta)

connected_users(l) ==
  \/ Consultar(l) \/ Saltar(l) \/ ContarUno(l) \/ ListarUno(l) \/ Acabar(l)
  \/ ResponderL(l) \/ CerrarL(l)

-----------------------------------------------------------------------------
EnLineaAhora == {a \in Alias : EnLinea(a)}

(* The history of a request begins with the step that reads it.            *)
Memoria ==
  /\ siempre' = [l \in Lectores |-> IF pcL[l] = "libre" THEN EnLineaAhora'
                                    ELSE siempre[l] \cap EnLineaAhora']
  /\ alguna'  = [l \in Lectores |-> IF pcL[l] = "libre" THEN EnLineaAhora'
                                    ELSE alguna[l] \cup EnLineaAhora']

InitL ==
  /\ pcL = [l \in Lectores |-> "libre"]
  /\ lec = [l \in Lectores |-> SinConsulta]
  /\ siempre = [l \in Lectores |-> EnLineaAhora]
  /\ alguna = [l \in Lectores |-> EnLineaAhora]
  /\ consultas = 0

(* A step of Servidor: if it ends the process, the readers are gone.       *)
PasoServidor ==
  /\ Next
  /\ IF estado' = "activo" THEN UNCHANGED <<pcL, lec, consultas>> ELSE SinLectores
  /\ Disciplina => EnConsulta' \cap EnCurso' = {}

PasoLector == \E l \in Lectores : Pedir(l) \/ connected_users(l)

NextL == (PasoServidor \/ PasoLector) /\ Memoria
varsL == <<vars, lectores>>
SpecL == Init /\ InitL /\ [][NextL]_varsL

-----------------------------------------------------------------------------
(* Every variable of the readers holds a value of its kind, beside the     *)
(* threads of Servidor that keep theirs.                                   *)
TypeOKL ==
  /\ TypeOK
  /\ pcL \in [Lectores -> PcsLector]
  /\ lec \in [Lectores -> Lectura]
  /\ siempre \in [Lectores -> SUBSET Alias] /\ alguna \in [Lectores -> SUBSET Alias]
  /\ consultas \in Nat

Nombrados(l) == Range(lec[l].usuarios)

(* Nobody is listed who was not on line at some moment of the request,     *)
(* whatever sessions and accounts begin and end between the scans, unless  *)
(* a profile was read before it was written (gestiones.c:539-553).         *)
SoloConectados == \A l \in Lectores : lec[l].fiable => Nombrados(l) \ {Nadie} \subseteq alguna[l]

(* Whoever is on line during the whole request is found by the third scan, *)
(* though SENDs rewrite the profile and other files of the directory come  *)
(* and go (gestiones.c:521-556).                                           *)
ListaCompleta ==
  \A l \in Lectores : pcL[l] = "responder" /\ ~FallosES => siempre[l] \subseteq Nombrados(l)

(* If nobody's session changes during the request, number and list are     *)
(* those of the users on line, each once.                                  *)
FotoFija ==
  \A l \in Lectores :
    pcL[l] = "cerrar" /\ lec[l].res = 0 /\ lec[l].fiable /\ ~FallosES /\ siempre[l] = alguna[l] =>
      /\ lec[l].num = Cardinality(siempre[l])
      /\ Nombrados(l) = siempre[l]

(* README.md:20, "allows connected users to see in real time which and how *)
(* many users are connected to the system right now": whoever is connected *)
(* from before the request until after the reply is in the reply.          *)
NoFaltaNadie ==
  \A l \in Lectores : pcL[l] = "cerrar" /\ lec[l].res = 0 => siempre[l] \subseteq Nombrados(l)
=============================================================================
