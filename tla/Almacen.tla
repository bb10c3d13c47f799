------------------------------ MODULE Almacen ------------------------------
(***************************************************************************)
(* The data base of the server: one profile file per user under            *)
(* DDBB/perfiles and one file of pending messages per user under           *)
(* DDBB/mensajes (gestiones.c).  This module says what a file can hold and *)
(* what the stdio calls of gestiones.c do to it; Servidor says which       *)
(* thread makes which call, and when.                                      *)
(***************************************************************************)
EXTENDS Integers, Sequences

CONSTANTS
  Alias,      \* user names; each is short enough for the path buffers
  IPs,        \* hosts a client can run on
  Puertos,    \* ports a client can listen on
  SinIP,      \* what an IP pointer that points at no string yields
  SinPuerto,  \* the port of a profile no CONNECT has written
  Nadie,      \* the empty sender name
  NoHay,      \* the file does not exist
  Vacio       \* the file exists and holds no bytes

ASSUME CentinelasAparte ==
  /\ SinIP \notin IPs
  /\ SinPuerto \notin Puertos
  /\ Nadie \notin Alias

Conectado    == "Conectado"
Desconectado == "Desconectado"

(* struct perfil as fwrite leaves it on disk.  The struct holds pointers:  *)
(* vivos tells whether the process that wrote them is the one running now. *)
(* A status is "otro" only in a struct that was never initialised.         *)
Perfil == [status  : {Conectado, Desconectado, "otro"},
           IP      : IPs \cup {SinIP},
           port    : Puertos \cup {SinPuerto},
           last_id : Int,
           vivos   : BOOLEAN]

(* struct mensaje.  A text is the number of the request that sent it, so   *)
(* that no two texts are equal; 0 is the empty text.                       *)
Mensaje == [id : Int, remitente : Alias \cup {Nadie}, mensaje : Nat]

(* A record of zero bytes: what a hole in the file reads as.               *)
Hueco == [id |-> 0, remitente |-> Nadie, mensaje |-> 0]

FicherosPerfil   == Perfil \cup {NoHay, Vacio}
FicherosMensajes == Seq(Mensaje) \cup {NoHay}

ASSUME FicherosAparte ==
  /\ NoHay \notin Perfil
  /\ Vacio \notin Perfil
  /\ NoHay # Vacio
  /\ NoHay \notin Seq(Mensaje)

(* The profile REGISTER writes: IP and port are those of no connection.    *)
PerfilNuevo == [status |-> Desconectado, IP |-> SinIP, port |-> SinPuerto,
                last_id |-> 0, vivos |-> TRUE]

-----------------------------------------------------------------------------
(* fwrite of one record at the position an earlier fseek(SEEK_END) fixed.  *)
(* If the file was truncated in between, the gap before it fills with      *)
(* zeros; if it grew, the record there is overwritten.                     *)
EscribirEn(buzon, pos, m) ==
  [i \in 1..(IF pos > Len(buzon) THEN pos ELSE Len(buzon)) |->
     IF i = pos THEN m
     ELSE IF i <= Len(buzon) THEN buzon[i]
     ELSE Hueco]

(* n successive fread calls into one struct that nobody clears: a read     *)
(* past the end leaves the struct as it was, which is the record read      *)
(* before or, if there was none, whatever the stack held (resto).          *)
Leidos(buzon, n, resto) ==
  [i \in 1..n |->
     IF i <= Len(buzon) THEN buzon[i]
     ELSE IF buzon = <<>> THEN resto
     ELSE buzon[Len(buzon)]]

(* The same three extraction passes build a batch field by field.          *)
ConIDs(lote, leidos)        == [i \in DOMAIN lote |-> [lote[i] EXCEPT !.id = leidos[i].id]]
ConRemitentes(lote, leidos) == [i \in DOMAIN lote |-> [lote[i] EXCEPT !.remitente = leidos[i].remitente]]
ConMensajes(lote, leidos)   == [i \in DOMAIN lote |-> [lote[i] EXCEPT !.mensaje = leidos[i].mensaje]]

(* When a process ends, the pointers in every profile it wrote dangle.     *)
SinProceso(p) ==
  [a \in DOMAIN p |->
     IF p[a] \in {NoHay, Vacio} THEN p[a] ELSE [p[a] EXCEPT !.vivos = FALSE]]
=============================================================================
