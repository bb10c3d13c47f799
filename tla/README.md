# TLA+ model of the message delivery service

Specifications, model-checking runs and proofs for the C server in `src/` (`server.c`,
`gestiones.c`) and what it promises its Python clients (`client.py`, `README.md`).
Names of actions and variables are those of the code where TLA+ allows it.

Run a check with `tlc -workers 2 -config Servidor_fallos.cfg MCServidor` and the proofs with
`tlapm ServidorTipos.tla`. Every run, with its properties, is listed in `PROJECT.json`, which also
maps each definition to the lines it models.

## 1. The system

A client opens one TCP connection per request; `main` accepts it and starts a detached thread
(`tratar_mensaje`), which reads the request, works on the files under `DDBB/`, perhaps opens further
connections to the listening sockets of clients, answers and ends. Nothing but the hand-over of the
descriptor is protected by a lock.

| Part | State | Operations | Interacts with | Hard behaviour | What makes it correct |
|---|---|---|---|---|---|
| Dispatcher (`server.c` 395-478, 223-229) | `sd_client`, `mensaje_no_copiado`, mutex, condition variable, open descriptors | accept, pthread_create, wait; copy, signal, close | worker threads | lost and spurious wake-ups, overwritten variable, descriptors that run out | each connection served once, by its own thread, and closed; main never stuck |
| Worker (`server.c` 113-391) | locals, `address_thread`, `hostent` (static buffer of `gethostbyname`) | one branch per request, delivery, acknowledgement, reply | all others | shared buffers, results overwritten, SIGPIPE | every request ends with a true reply |
| Accounts (`gestiones.c` 13-108) | one profile file and one mailbox file per user | register, unregister | sessions, messages | check-then-create, empty files, one of two steps failing | profile and mailbox exist together |
| Sessions (`gestiones.c` 111-258) | status, IP, port in the profile | connect, disconnect, is_connected | messages | read-modify-write with no lock, pointers on disk | only CONNECT puts a user on line; address is the user's own |
| Messages (`gestiones.c` 260-504, `server.c` 32-110, 271-337) | `last_id` in the profile, mailbox file, batch in memory | send, count, three passes, truncate, deliver, acknowledge | sessions, clients | races on one mailbox, loss on failure, crash between two files | accepted messages arrive once, in order, at their receiver; numbers grow |
| Connected users (`gestiones.c` 508-652, `server.c` 340-385) | directory of profiles, an array sized by one scan | check, count, count again, list | sessions, accounts | three scans that disagree, array too small or not filled | who is listed was connected, who stayed connected is listed |
| Framing (`funciones_server.c`) | socket stream, buffer on the stack | readLine, sendMessage | workers, clients | partial reads, end of file, length bound, newlines | fields arrive as sent and in their places |
| Client (`client.py`) | alias, `_keep_running`, one listener thread per CONNECT, one socket per request | one per button, listener, window | server, web service | listener blocked in accept, readLine that never returns, characters outside ASCII, kills | the window tells the truth and comes back; texts are shown whole, in order |
| Text service (`ws-server.py`) | none | `modify_text` | client | - | no newline goes to the server |

## 2. Modules

| Module | Models |
|---|---|
| `Almacen` | contents of the profile and mailbox files, and what the stdio calls of `gestiones.c` do to them |
| `Servidor` | any number of worker threads on those files, client listeners, crash and restart; the properties |
| `UsuariosConectados` | threads that serve CONNECTEDUSERS beside those of `Servidor`, on the same files (it EXTENDS `Servidor`) |
| `Mensajeria` | abstract specification: accounts, sessions, a queue per user, delivery in order; apart, two reservations |
| `ServidorEnSerie` | the refinement mapping from `Servidor` to `Mensajeria` |
| `Despacho` | `main`, the hand-over of the accepted connection to its thread, and the descriptors they take |
| `Trama` | how both sides cut a stream into fields (`readLine` of the server and of the client), and `modify_text` |
| `Cliente` | a client (window, listeners) and the threads of the server at the other end of its sockets |
| `MCServidor`, `MCServidorEnSerie`, `MCUsuarios`, `MCDespacho`, `MCCliente` | small instances and the request sets of the runs |
| `ServidorTipos`, `ServidorCuentas`, `ServidorEntregas`, `ServidorUnHilo` | proofs about `Servidor`: types; accounts; pending messages; one request at a time |
| `UsuariosPruebas`, `DespachoPruebas`, `ClientePruebas` | proofs about the other components |
| `ClienteCampos` | lemmas about the operators of `Trama` and `Cliente` that `ClientePruebas` needs |

The system is cut at two places. `Servidor` and `UsuariosConectados` say what the operations do to files and
peers, with the request and the reply each in one step; `Cliente` says how request and reply get through,
with *any* result the server may give (`Resultados`, `Ids`, `Listas`). So what `Cliente` shows holds for
whatever `Servidor` answers, and neither has to carry the other's states.

### Servidor: state and steps

`perfiles[a]` and `mensajes[a]` are the two files of user `a`; a profile file is absent (`NoHay`), empty
(`Vacio`: created by `fopen(.., "wb")`, its buffered write not yet flushed by `fclose`) or a record. A
mailbox is absent or a sequence of records. `loc[h]` holds the locals of thread `h`, `pc[h]` the next step
and `abierto[h]` the file it has open for writing; `remove` detaches those handles (`Desenlaza`), so that a
later write to them reaches no file. Text identities are request numbers, which makes every text
unique and lets a property say *which* message was lost. `enviados`, `aceptados` and `bajas` are history.

One action is one access the rest of the system can tell from the next: an `access`, a `fopen`+`fread`,
the write that `fclose` flushes, a truncation, a `gethostbyname`, a `connect`, a delivery. So
`send_to_server_gestiones` is seven actions, and a CONNECT or SEND with a pending message goes through
`is_connected`, `num`, `contar`, `ids`, `remitentes`, `mensajes`, `vaciar` and then `resolver`, `conectar`,
`entregar` once per message. What the code leaves undefined is a choice: a struct that `fread` did not
fill holds any member of `PerfilesBasura` or `MensajesBasura`, which in the runs of `MCServidor` includes the
profile of any user, because a thread's stack is that of an earlier one; an IP pointer from a previous process yields
no address or a SIGSEGV; a write to a peer that has just died succeeds, fails or raises SIGPIPE.
A process that ends (`Cae`) loses its threads and leaves its files; `Reiniciar` starts it again on them.

Data abstractions: aliases fit the path buffers; records are written and read whole (a message record has 2052
bytes, so one may lie across the 4096 bytes that stdio reads at a time, and a concurrent reader could get it
torn); `fopen` and the following `fread` on the same handle are one step; descriptors have no numbers (running
out of them is `FallosES`, which lets any `fopen` or `socket` fail; `Despacho` counts them); malloc does not
fail; logging is left out; a request is read in one step, after the client of a CONNECT has opened its port
(`client.connect` does), and the reply is always accepted. The thread of a listener ends some time after
DISCONNECT and its port closes with it (`Cliente!Mirar`); `Servidor` has one action for a port that closes,
`ClienteMuere`, whatever the cause.

### UsuariosConectados: state and steps

A reader `l` of `Lectores` has its next step `pcL[l]` and its locals `lec[l]`: the entries `readdir` has yet to
return, the counter, `num` (what the reply will announce), `tam` (the room of the array) and `usuarios`. It
goes through `Consultar` (`connected_users_gestiones`), then three scans of one entry per step: `contar` and
`dimensionar` (the two calls of `count_elements`) and `listar`, and then `ResponderL` and `CerrarL`. `opendir`
and the first `readdir` take in the entries there are (glibc reads a directory this small in one call); an
entry whose file has gone by the time it is opened is passed over (`Saltar`). Every step of `Servidor`
interleaves with these (`PasoServidor`), and a process that ends takes the readers with it. Past the end
of the array a write is harmless or a SIGSEGV; entries of the reply nobody wrote are empty names.

`siempre[l]` and `alguna[l]` are history: who was on line during all of the request, and at some moment of it.
`fiable` is history too: no profile read so far was empty (`fopen(.., "wb")` before its write) or written by an
earlier process, in which cases the name or the status is that of a stack or of a dangling pointer.

### Despacho: state and steps

`main` and the threads share `sd_client` (a pointer to it is the argument of every thread),
`mensaje_no_copiado` and the mutex. Each pthread call is a step; `HiloCopia` is the copy, the flag and the
signal, which are inside one critical section. `para[h]` is history: the connection `h` was created for.
Descriptors are taken by `abiertas`, the connections main accepted and nobody closed; by `usa[h]`, the files and
sockets thread `h` has open while it serves (`HiloAbre`, `HiloCierra`, at most `Uso` at a time); and by `fugas`, the
files that `is_connected`, and the early returns of connect, disconnect and connected users, leave open: up to
`Fugas` of those in use when a thread ends. `accept` fails, and the process ends, when all together reach `MaxFD`:
nothing ties the number of threads to it. A client speaks when it likes, or never (`Hablar`), and `HiloLee` waits
for it as `readLine` does, with no timeout. `sin_hilo` is history: connections whose `pthread_create` failed, for
another reason or because all of `Hilos` are taken; the code accepts again and never closes them.

### Trama and Cliente: state and steps

A stream is a sequence of symbols. A code, a result, a number and an id are one symbol; a text is a
sequence of symbols, which a NUL, a newline or a blank may be among, and RARO, a byte of a character outside
ASCII, which the client's byte-by-byte `decode` cannot read. `readLine(s, previo)` is what the server's buffer
holds and what is left to read: up to NUL or newline, the rest of a long field read and dropped, and
`previo`, what was there before, when the peer closes before the first byte. In the other direction the
server writes each field and its NUL with one call, so that stream is a sequence of pieces, of which the last
may be cut by the end of the process.

A string has no NUL inside (`Texto`); what the user types in a `sg.Input` has no newline either (`UnaLinea`), but
for the text of a SEND, of which nothing is assumed. Codes, ports, results, ids and numbers are symbols of
`Simbolos`; `Cifra` lists those of 0, 1, 2... up to the longest list of users.

`Cliente` has the window (`ventana`: idle, sending, waiting, hung in `readLine`, ended), the requests `con[i]`
with both ends of their connection and the two streams between them, the listeners `oy[o]`, one for each
CONNECT and port, and the deliveries `ent[e]`. The window sends a field per step (`Enviar`) and the server's
thread reads the code and the fields of its branch in one step (`Atender`), possible as soon as they are
there or the client has closed: the reads of one thread change nothing that others see. The same holds for
the reads of a listener (`LeerEntrega`, `LeerRara`, `LeerCortada`). A buffer nothing was read into holds
anything (`SinLeer`); the operation code may be one that an earlier thread left on the stack. `connect` is
merged with the button, because nothing can come between that would be seen. The client's process may be
killed and started again (`Matar`), the server may end (`CaerServidor`, or by itself with SIGPIPE or `exit(-1)`),
the web service may fail, and a connection may be accepted and get no thread (`Acoge`, step `sin_hilo`: nobody
reads, answers or closes it); `MaxFallos` counts all four.

`Cliente` takes from `Servidor` only that a thread delivers to a port that some CONNECT gave (`Entregar`).

### Mensajeria and its mapping

A user's session is `SinAlta`, `SinSesion` or an address. The queue of `a` is the batch in the hands of the
thread that delivers to `a`, once it has emptied the mailbox, followed by the mailbox. Only the sender and the
text of a message are seen. `Spec` is what README.md:15-19 promises: who sends has a session, and a message
leaves the queue by delivery, in order, to the session's address, or by UNREGISTER. `SpecConSalvedades` adds the
two things the code also does: somebody registered sends without a session (`EnviarSinSesion`; `gestiones.c`
303-308 looks for the sender's mailbox only), and messages are lost on their way to an address where
nobody listens (`Perder`; the mailbox is emptied before anything is delivered).
One request at a time, without restarts, the server implements the second and not the first. With several
threads it implements neither, which the violated properties of section 4 show piece by piece.

## 3. What the passing runs show

All use two users. `Disciplina` says that one alias has at most one request in flight, as with the window of
`client.py`, which blocks on each. The runs with two threads keep it, because `Emparejados` needs it; the
theorems about `NadaVarado` and `SalidaSoloPorTramite` do not.

| Run | Bounds | Distinct states | Properties |
|---|---|---|---|
| `servidor_termina` | 2 threads, 2 requests, 1 client death, fairness | 94k | `TodaPeticionTermina`, `ColaSeVacia` |
| `usuarios` | 1 reader, 2 threads, 3 requests of two users who register, leave, connect, disconnect and write to each other, one of them on line at the start | 628k | `TypeOK`, `TypeOKL`; `NadaVarado`: a connected user with pending messages has a thread on its way to deliver them; `SalidaSoloPorTramite`: `exit(1)` for want of a mailbox only around REGISTER/UNREGISTER; `SoloConectados`: who is listed was on line at some moment of the request; `ListaCompleta`: who was on line all along is found; `FotoFija`: if no session changed, number and list are exactly those on line; `Emparejados`: profile and mailbox exist together |
| `servidor_fallos` | 1 thread, 4 requests, any fopen or socket fails, 1 client death, 1 kill and restart at any step | 1.50M | `RespuestaVeraz`: a reply of 0 to REGISTER, UNREGISTER or DISCONNECT is true of the files; `IdRespondido`: the id answered is the message's; `IdsCrecientes`: numbers grow, crash included; `PunteroAjeno`: the server falls on a pointer of a profile only if an earlier process wrote it |
| `servidor_serie` | 1 thread, 5 requests, 1 client death | 284k | `ImplementaConSalvedades`: it implements `Mensajeria` with its two reservations; `SoloCaeConMotivo`: the server falls by itself only for a client that died |
| `despacho_acepta` | 2 threads, 4 connections, 4 descriptors, 2 files at a time per request and 1 left open at most, 2 spurious wake-ups, failing calls, fairness | 112k | `TypeOK`, `SuConexion`, `UnaPorHilo`; `SeAgotaPorCarga`: descriptors run out only when requests in service, files left open and connections with no thread take them all; `VuelveAAceptar`; `SeCierra`: the connection of a client that has spoken is closed |
| `cliente` | 2 requests, 2 ports, 2 deliveries, 1 failure, buffers of 3 symbols, fairness | 411k | see below |

`cliente` checks that: the server acts on the fields the user gave, cut to its buffers and in their places
(`PeticionFiel`); it exits for an unknown code only if a client went before its code was through
(`SoloCaeSiCortan`); what the window shows is what was answered (`RespuestaFiel`: only the id may be a zero,
when the server ended after the result, because the client takes an empty `recv` for one); listeners show
whole texts, once, in order (`SoloEnteras`), and one more at most after DISCONNECT (`UnaTrasDesconectar`). Under
fairness the window gets back to its buttons or ends (`VentanaContesta`), unless the server ended or could create
no thread for the request, and a text sent whole is shown
(`SeMuestra`), unless the server ends, the listener was dismissed by a DISCONNECT, or its thread died: a kill,
or a character outside ASCII in a text, after which that listener shows nothing for good. `PeticionFiel` rests
on `modify_text`, which leaves no newline in a text: a newline would end the field and shift the next.

Why the bounds are enough: every race in the server is between two threads on the files of one user, or on
one static buffer, and needs one request to set it up and two that overlap, hence two threads and three
requests. Sequences of five requests cover register, connect, send, disconnect or death, send; a restart at
any step lets a second run of the server meet what the first left. One reader is enough because readers
write nothing. Four connections over two threads reuse a thread, overwrite `sd_client` while another is still
served and leave one with no thread; two requests with two files each take more than four descriptors, and so do
fewer with a file left open. Two requests and two ports
let the listener of an earlier CONNECT outlive a second one; a buffer of three symbols is filled and
exceeded by an alias of three. The main results are also proved without bounds.

`CHECK_DEADLOCK FALSE` is set everywhere because the number of requests (or connections) is bounded and
a server that has fallen does nothing more; that nothing hangs before is what the liveness runs check.

Symmetry over threads is used in runs of invariants and action properties, where the threads are
interchangeable; the liveness runs do not use it.

Fairness: weak fairness of each thread's `tratar_mensaje` and of `main` is the operating system's scheduler,
which runs every thread that can take a step (no step of a thread is ever disabled by another one, except
for the mutex, where a lock that stays free is eventually granted). In `Cliente` the same is asked of all that
is under way at once (`Equidad`, weak fairness of `Sigue`): each call under way ends after finitely many steps
and only finitely many are begun, so one that could go on for ever and never did would in the end be the
only one left. Nothing is assumed of users (`main` does not have to
get another connection, nor a thread to hear from its client), kills, failures or restarts; spurious wake-ups are
finite in number. In `Despacho` serving a request is many steps, and `WF(HiloTermina(h))` says that a request
that has been read comes to its end, which is what `TodaPeticionTermina` of `Servidor` checks.

## 4. Where code and documentation disagree

Each is a run that TLC ends with a counterexample; the findings in `PROJECT.json` quote the sentence.

| Run | What the counterexample does |
|---|---|
| `servidor_pierde` | a SEND appends after another thread read the mailbox and before it truncates it: answered 0, never delivered |
| `servidor_reconecta` | SEND reads the receiver's profile, the receiver disconnects, SEND writes the profile back: connected again |
| `servidor_ya_conectado` | CONNECT of a connected user with pending messages delivers them and its result is no longer 2 |
| `servidor_dos_equipos` | two CONNECTs from two hosts share `address_thread`: a text goes to the other user's client |
| `servidor_otro_id` | SEND reads the counter for its reply after another SEND has raised it: answered the id of the other's message |
| `usuarios_falta` | a user connects between the count and the list and takes the place of one who was connected all along: the reply leaves out the latter |

`usuarios_falta` does not contradict `ListaCompleta`: the list is complete when it is built; it is the reply
that is cut to the number counted two scans before. `IdPropio` is refuted by two SENDs at once; one at a time
`IdRespondido` holds, which claims nothing of a SEND that gave no id and lets pass the 2 of a profile that
could not be opened. A further difference was seen while modelling: the acknowledgement of a SEND is written
even to a socket whose `connect` failed, which raises SIGPIPE when the sender's client has died;
`SoloCaeConMotivo` says that, one request at a time and before any restart, the server falls in no other way.

The same and two more properties fail for other causes, each alone on an instance of its own. These are not
among the runs of `PROJECT.json`; TLC ends each with a counterexample.

| Instance | Property | What the counterexample does |
|---|---|---|
| `Servidor_resuelve.cfg` | `SoloAlDestinatario` | two deliveries to two hosts share the buffer of `gethostbyname` (`server.c` 55): one connects to the host the other has just resolved |
| `Servidor_estrena.cfg` | `SoloAlDestinatario` | SEND reads a profile REGISTER has created and not yet written, and writes back as the receiver's what was on its stack (`gestiones.c` 331): the text goes to another user |
| `Servidor_pisa.cfg` | `RecibeTodos` | two SENDs find the same end of the mailbox (`gestiones.c` 356), one overwrites the other's message |
| `Servidor_sin_oyente.cfg` | `RecibeTodos` | the receiver's client has died, and the mailbox is emptied before that is found out (`server.c` 63) |
| `Servidor_mezcla.cfg` | `Autentico` | between the passes over senders and texts another SEND overwrites a message (`server.c` 41): a text goes out under somebody else's name |
| `Servidor_promesa.cfg` (`MCServidorEnSerie`) | `ImplementaMensajeria` | a user who is not connected sends (README.md:17), one request at a time and with nobody dying |

## 5. What is proved

TLAPS checks the following for every set of users, hosts, ports and threads, every set of requests, and any
number of requests, restarts and deaths. The assumptions are those named in the modules: `Parametros`,
`CerradoAparte`, `CentinelasAparte` and `FicherosAparte` (sentinels differ from values, and
parameters have their types) and `HilosAparte` for `Despacho`.

- `ServidorTipos!TipoCorrecto`, `Spec => []TypeOK`. `TypeOK` is not inductive: nothing in it says that the
  batch a thread fills is as long as its count when a pass over the mailbox builds it, that a thread
  with a connection open has a message left (`Head`), or that a mailbox which some thread has open through a
  linked handle exists (the append needs a sequence to write to). `IInv` adds exactly these three facts; it
  is shown inductive by one lemma per operation of the code (`RegisterBien`, `SendBien`, `ExtraerBien`...),
  which rest on lemmas about the file operators of `Almacen` (`EscribirEnTipo`, `LeidosTipo`...).
- `ServidorEntregas!NingunMensajeVarado`, `Spec => []NadaVarado`. Together with `IInv` the property is
  inductive. The argument: a step can make a user *start* to wait only by marking it connected (then that
  thread is at `is_connected`), by restoring a connected profile (then it is at `env_abrir`, about to append)
  or by appending (then it is at `is_connected`); and a thread stops attending a user only when it sees the
  user off line, sees the mailbox empty, or has emptied it. With failing calls (`FallosES`) a thread
  may give up, and the property claims nothing.
- `ServidorCuentas`: `SaleSoloPorTramite` (`SalidaSoloPorTramite`) and `PerfilConBuzon` (`Emparejados`). The
  invariant `CuentasOK` says that a file open for writing is still linked or its handle detached, that who is
  between the two removes of UNREGISTER has left, that a profile has its mailbox unless its user is being
  registered or has left, and that the same holds of the user whose mailbox a thread is about to use, since
  it saw that user's profile. Most steps create and remove no file; one lemma per operation says so
  (`Tranquilo`), and the seven that do (`Mudanza`) are taken one by one. Both need files that open
  (`~FallosES`: a REGISTER whose second `fopen` fails leaves a profile alone) and the first run of the process
  (a kill between the two files does the same). `Emparejados` also needs `Disciplina`, that of `client.py`: two
  UNREGISTER of one alias with a REGISTER between them remove the new mailbox and leave the new profile.
- `ServidorUnHilo`, a server that serves one request at a time (`UnHilo`), with failing calls, dying clients,
  kills and restarts at any step: `NumerosEnOrden` (`IdsCrecientes`), `CeroEsVerdad` (`RespuestaVeraz`),
  `IdDelMensaje` (`IdRespondido`) and `SoloPunterosAjenos` (`PunteroAjeno`). None is inductive alone: between
  two accesses the thread relies on what it knows of the files, and a crash must leave the files in order at
  any step. `SerieOK` has a part for the files (`FicherosSanos`: the numbers, no messages without a profile,
  an address for who is on line) and one for the thread (`SabeAlta`, `SabePerfil`, `SabeEnvio`, `SabeLote`...:
  at each step, what it read is still so). `UnHilo` is essential: with two threads what a request has read
  need no longer be so at its next step. `BasuraConIP` says that a leftover with the look of a connected
  profile has an address, which only CONNECT writes. `MuereConMotivo` (`SoloCaeConMotivo`) needs a second
  invariant for the first run: each file the thread has open is its own, and every profile on disk was written
  by this process.
- `UsuariosPruebas`: `TipoConLectores`, `NadieDeMas` (`SpecL => []SoloConectados`) and `TodosLosQueEstan`
  (`SpecL => []ListaCompleta`), for any number of readers beside any number of threads, restarts included. The
  inductive invariant `IInvL` adds to `IInv` what a reader has seen (`Visto`): a name in a list read from true
  profiles belongs to someone who was on line at some moment, and during the third scan whoever has been on
  line all along is in the list or among the entries left. The second part is why the list is complete:
  `opendir` finds the profile of every connected user, an entry is left behind only after its profile was
  opened, and a profile that is opened and not listed belongs, at that moment, to somebody who is not on line
  (its status says so, or the file is empty, since a REGISTER has created it and not yet written it). Failing
  calls void it, and the property claims nothing then. `FotoVerdadera` (`SpecL => []FotoFija`) needs a second
  invariant, `Fotos`: those on line now lie between those always and those ever on line, so as long as the
  latter two agree nobody's session has changed; and then each scan has counted, and the third one listed,
  those on line among the entries already read, each once. That set is finite because a scan reads one entry
  at a time, so nothing is assumed of the number of users. `PasoIInv` of `ServidorTipos` takes care of
  everything that is not a reader's.
- `DespachoPruebas`: `CadaHiloSuConexion` and `NingunaConexionCompartida`, with the mutex invariant. The
  strengthening says that while a thread has yet to copy, it is the only one, `main` is inside its wait with
  the flag up, and `sd_client` still holds that thread's connection; and that connections are numbered as
  they arrive. `SoloLaCargaAgota` (`SeAgotaPorCarga`) counts: every open
  connection is one without a thread, the one `main` has just accepted, or that of a thread that is alive, and
  no two threads have the same one; so the threads that are alive hold at most one connection and `Uso` files
  each. Nothing is assumed of how many threads and descriptors there are.
- `ClientePruebas` proves every safety property of `Cliente`, for any requests, answers, listeners, texts, buffer
  sizes and alphabets, with the client killed and the server ended at any step.
  - `ParaTrasDesconectar` (`UnaTrasDesconectar`). The invariant `Parados` says where a listener that has shown a text
    after DISCONNECT is: ended, or about to look at `_keep_running`, which is down as long as nobody connects again.
  - `MuestraSoloEnteras` (`SoloEnteras`). In `Oidos` a delivery has brought its listener nothing, all of its
    fields, or all but the end of one; such a piece has no NUL and cannot be read, so what is read as a whole text is
    the one that was sent. What a listener has shown, what it is reading and what waits for it come in this order.
  - `MuestraLoRespondido` (`RespuestaFiel`) and `CaeSoloSiCortan` (`SoloCaeSiCortan`), from the invariant `Conexiones`, which
    follows a request through both ends of its connection. The client still has to send the last fields of it; a
    thread that has not read has written nothing; one that has goes by the client's code, if the client got to send
    it; and what has come of the answer and what is still to be written are together that answer, for as long as
    the server lives. After its end what has come is a part of it, which the client reads whole or waits for
    (`RespuestaEntera`). The code it exits for is that of a client that went before its first field was through.
  - `LeeLoPedido` (`PeticionFiel`), when `UnaLinea` holds, from `Peticionadas` beside `Conexiones`: what is still to be
    read are the fields sent so far, each with its NUL, and after them a piece of the next only if the client was
    cut short; and there are no more ends of line than fields sent. The latter is why a thread does not read too
    soon: it waits for as many ends of line as it wants fields. It is here that `modify_text` matters, which
    leaves no newline whatever the text (`ModificadoEnLinea`).
  - `SpecTipos` (`TypeOK`), from `Conexiones` and `Oidos`.

  `readLine`, `Lecturas` and `modify_text` are functions over an interval, whose values are followed from the first
  to the last: if one were wrong there would be a first one (`Minimo`, from the well-foundedness of < on Nat). This takes
  the place of induction (`Recursion`, `LecturasDe`, `LeidosFieles` in `ClienteCampos`). `Oidos`, `Conexiones` and
  `Peticionadas` were checked with TLC, on the instance of the run `cliente`, before they were proved.

Besides the above, `UsuariosConectados` assumes `LectoresAparte` (readers are not threads of `Servidor`; are
users), `Trama` `TramaSana` and `Cliente` `ClienteSano` (sane bounds; NUL, newline and blank differ; requests,
lists and deliveries are strings, with the fields their operations take).

Only model-checked: all liveness (`TodaPeticionTermina`, `ColaSeVacia`, `VuelveAAceptar`, `SeCierra`,
`VentanaContesta`, `SeMuestra`: fairness and ENABLED are outside what the prover does) and the refinement of
`Mensajeria`. Every invariant of a passing run is proved, some under the hypotheses named above.

## 6. Not modelled, and what is left

Left out for good: the layout of the window, its forms and the argument parser of client and server (input
and output), `sendAttach` (a stub), build files and sample data.

Left out for want of a faithful model:

- what zeep returns for a text of blanks only (nothing, perhaps, which `encode` would not take): it is not
  in the repository, so the requests of the model have a word;
- the buffer of four bytes for the acknowledged id (`server.c` 318), which an id of four digits overruns:
  what the overrun of a heap block does is outside the model, and ids do not grow that far in it;
- a reader's `fopen` that fails is modelled but not enabled in a run (it would void the properties of the run);
- signals that interrupt a `read`: the program installs no handler.

Next: the step-by-step proof that `Servidor`, with a single thread, implements `Mensajeria`; a second reader of
CONNECTEDUSERS for one alias.
