------------------------------- MODULE Trama -------------------------------
(***************************************************************************)
(* How client and server cut a stream of bytes into fields: a field ends   *)
(* with a NUL.  A stream is a sequence of symbols; an operation code, a    *)
(* result and an id are one symbol each, a text is a sequence of them, and *)
(* RARO is a byte of a character outside ASCII.  The server reads with     *)
(* readLine of funciones_server.c, the client with the one of client.py.   *)
(***************************************************************************)
EXTENDS Integers, FiniteSets, SequencesExt

CONSTANTS
  MAXSIZE,         \* symbols of the server's buffers, the last one for its NUL
  Simbolos,        \* what a stream is made of
  NUL, NL, BLANCO, \* '\0', '\n', ' '
  RARO             \* a byte that alone is not UTF-8

ASSUME TramaSana ==
  /\ MAXSIZE \in Nat \ {0}
  /\ {NUL, NL, BLANCO, RARO} \subseteq Simbolos
  /\ NUL # NL /\ BLANCO \notin {NUL, NL} /\ RARO \notin {NUL, NL, BLANCO}

(* A string, of the user or of the server, has no NUL inside; what is      *)
(* typed in one line has no newline either.                                *)
Texto == Seq(Simbolos \ {NUL})
Linea == Seq(Simbolos \ {NUL, NL})

Menor(i, j) == IF i <= j THEN i ELSE j

(* Where the first of some symbols is; the length and one when none is.    *)
Primero(s, simbolos) ==
  CHOOSE i \in 1..(Len(s) + 1) :
    /\ i <= Len(s) => s[i] \in simbolos
    /\ \A j \in 1..(i - 1) : s[j] \notin simbolos

Antes(s, i)   == SubSeq(s, 1, i - 1)
Despues(s, i) == SubSeq(s, i + 1, Len(s))

-----------------------------------------------------------------------------
(* Mutant: a read that does not wait.                                      *)
HayLineaSinEsperar(s, cerrado) == TRUE

Terminada(s) == Primero(s, {NUL, NL}) <= Len(s)

(* The server's readLine returns once a NUL or a newline has come, or the  *)
(* client has closed.                                                      *)
HayLinea(s, cerrado) == cerrado \/ Terminada(s)

Recorta(texto) == SubSeq(texto, 1, Menor(Len(texto), MAXSIZE - 1))

(* Mutant: a full buffer ends the field and the rest is left to read.      *)
readLineLleno(s, previo) ==
  LET fin == Primero(s, {NUL, NL})
  IN  IF fin <= MAXSIZE THEN [campo |-> IF s = <<>> THEN previo ELSE Antes(s, fin), resto |-> Despues(s, fin)]
      ELSE [campo |-> Recorta(s), resto |-> Despues(s, MAXSIZE - 1)]

(* What the buffer holds afterwards and what is left to read.  When the    *)
(* client closes before the first byte the buffer keeps what it had.       *)
readLine(s, previo) ==
  LET fin == Primero(s, {NUL, NL})
  IN  [campo |-> IF s = <<>> THEN previo ELSE Recorta(Antes(s, fin)), resto |-> Despues(s, fin)]

-----------------------------------------------------------------------------
(* The server writes each field and its NUL in one piece, which the client *)
(* reads with a call of its readLine: it returns at the NUL, raises at a   *)
(* byte outside ASCII, and never returns if the piece was cut short.       *)

(* Mutant: the end of the stream ends the field too.                       *)
LegibleSinNUL(pieza) == RARO \notin ToSet(pieza)

Legible(pieza) == RARO \notin ToSet(pieza) /\ NUL \in ToSet(pieza)

Legibles(piezas) ==
  CHOOSE k \in 0..Len(piezas) :
    /\ \A j \in 1..k : Legible(piezas[j])
    /\ k < Len(piezas) => ~Legible(piezas[k + 1])

(* The fields the client can read, and whether the next one raises.        *)
Campos(piezas) == [j \in 1..Legibles(piezas) |-> Antes(piezas[j], Primero(piezas[j], {NUL}))]
Indescifrable(piezas) ==
  \E j \in 1..Len(piezas) : j = Legibles(piezas) + 1 /\ RARO \in ToSet(piezas[j])

-----------------------------------------------------------------------------
(* modify_text of the web service: the words, with a blank between each    *)
(* and the next; no newline is left.                                       *)
Espacios == {BLANCO, NL}
modify_text(mensaje) ==
  LET Queda(i) == \/ mensaje[i] \notin Espacios
                  \/ /\ i > 1 /\ mensaje[i - 1] \notin Espacios
                     /\ \E j \in i..Len(mensaje) : mensaje[j] \notin Espacios
      Simbolo(i) == IF mensaje[i] \in Espacios THEN BLANCO ELSE mensaje[i]
      m[i \in 0..Len(mensaje)] ==
        IF i = 0 THEN <<>> ELSE IF Queda(i) THEN Append(m[i - 1], Simbolo(i)) ELSE m[i - 1]
  IN  m[Len(mensaje)]

(* Fields as they are written: each of them and a NUL.                     *)
Piezas(campos) == [j \in DOMAIN campos |-> Append(campos[j], NUL)]
=============================================================================
