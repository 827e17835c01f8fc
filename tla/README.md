# Verification of ReinoPixel MMO

ReinoPixel is a small MMO: a Godot client with a native KCP extension, a Java
server on Netty (UDP) and PostgreSQL. This directory holds TLA+ models of the
parts of it where ordering, loss and concurrency decide what the player sees,
the TLC runs that check them on small instances, and TLAPS proofs of what holds
for every size. Names in the models are those of the source; comments beginning
"(Mutant:" mark definitions that no specification uses: they are the deliberate
errors with which each property was tried out.

Paths are relative to the repository; `java/` is `Servidor/src/main/java/`.

## 1. Inventory

| Component | State | Operations | Talks to | What is hard | What makes it correct |
|---|---|---|---|---|---|
| KCP engine, `java/red/kcp/Kcp.java` | snd_queue, snd_buf, rcv_buf, rcv_queue, cursors, windows, acklist, probe, clock | send, recv, input, flush, update | KcpSession, UDP | loss, repetition, reordering, closed window, stale wnd and una | messages whole, in order, once; bounded memory; no dead window |
| KcpSession, `java/red/kcp/` | one engine, ultimoPaqueteMs | feed, poll, send, tick, estaInactiva | engine, Netty event loop | send is called by pool threads | the engine is touched by one thread; no early release |
| ServidorPrincipal | sesionesKcp, sesionesActivas, two schedulers | channelRead0, one handler per opcode, the 10 ms tick, the auto-save | KcpSession, both gestores | event loop, pool and scheduler share maps and objects | no leaked session, the right character moves, bounded loss |
| GestorAutenticacion | table jugadores | registrarJugador, autenticarJugador | pool of connections | asynchronous, BCrypt in the pool | one account per correo, an answer to every request |
| GestorPersonajes | table personajes | create, list, load, save position, delete | pool of connections, Personaje objects | statements in any order, torn reads, failed UPDATEs | the row is a position the character had, never an older one |
| Personaje, JugadorServidor | position, personajeActivo | getters, setters | handlers and saves | read and written by different threads | |
| PaqueteEntrada, PaqueteSalida, Opcodes | a byte buffer | leer..., escribir... | handlers, `Cliente/red_global.gd` | the order of the fields is written down four times | each field is read as it was written |
| ConexionBBDD, `Servidor/sql/` | Hikari pool of 20 | obtenerConexion, cerrarPool | PostgreSQL | 10 s limit; the shipped schema lacks columns the code uses | |
| KCPClient, `Cliente/mi_extension_kcp/src/` | socket, engine of ikcp.c | connect, disconnect, send_packet, update | RedGlobal, UDP | conv is always 1, the server is not told of a disconnection | a session handles one conversation |
| RedGlobal | KCPClient, conv_id = 1 | connect, disconnect, dispatch of replies to signals | scenes | replies have no request id; only the scene on display listens | |
| Login and registration scenes | buttons, cargando | send credentials, change scene | RedGlobal | scene changed while a request is under way, replies without correo | no wait without end, one login at a time, true announcements |
| Selection and creation scenes | list, personaje_seleccionado, BtnConfirmar | list, select, create, delete, enter | RedGlobal | late and reordered replies | the list and the selection agree with the table |
| Traits (creation scene) | rasgos_seleccionados, puntos_actuales | move a trait, confirm | creation scene | refused creation while the user goes on | no exclusive traits, no negative points |
| World (`mundo.gd`, `jugador.gd`) | position, timer | send the position each 0.1 s | RedGlobal | sends whatever the server knows | |
| `files/`, PersonajeBase, lights | | display, drafts | | | not modelled |
| godot-cpp, ikcp.c | | third party | | | ikcp.c through its Java port |

How they interact: a scene writes a request into RedGlobal, KCPClient's engine
carries it as datagrams to `channelRead0`, which feeds the session's engine and
hands every whole message to a handler. A handler that needs the database starts
a CompletableFuture in the common ForkJoinPool; its `thenAccept` callback, still
in the pool, changes shared state and queues the reply in the event loop. The
reply comes back as a signal of RedGlobal. Two clocks act by themselves: the
10 ms tick (retransmission, and the release of sessions idle for 600 s) and the
auto-save of positions every five minutes.

The hazards this leaves, each at its line, are in `PROJECT.json`.

## 2. Modules

| Module | What it is | Code |
|---|---|---|
| `CanalFiable` | what a KCP direction promises: messages in order, once | the contract of Kcp.send / Kcp.recv |
| `Kcp` | two engines over a lossy, repeating, reordering network | Kcp.java |
| `KcpProofs` | proofs about Kcp | |
| `NumeroSerie` | 32-bit sequence numbers | itimediff, parseData |
| `Relojes` | the clock of one engine: update, timeouts, fast resend, probe | Kcp.java, KcpSession |
| `RelojesProofs` | proofs about Relojes and NumeroSerie | |
| `SesionKcp` | conversations: connection, disconnection, forgotten sessions | kcp_client.cpp, ikcp.c, KcpSession, channelRead0 |
| `SesionKcpProofs` | proofs about SesionKcp | |
| `Sesiones` | sessions, players, positions, saves, timeout, restart | ServidorPrincipal, KcpSession, GestorAutenticacion, GestorPersonajes, login scene, world |
| `PosicionDurable` | what the server promises of a position: a value and a row that follows it | iniciarAutoGuardado, guardarPosicionPersonaje, obtenerPersonajePorId and their users, seen from outside |
| `SesionesProofs` | proofs about Sesiones: types, the login, who moves | |
| `PosicionesProofs` | proofs about Sesiones: what the saves write; Sesiones implements PosicionDurable | |
| `Registro` | accounts, the registration and the login scenes | interfaz_registrar.gd, interfaz_login.gd, manejarRegistro, manejarAutenticacion, GestorAutenticacion |
| `RegistroProofs` | proofs about Registro | |
| `Peticiones` | the character screens and their requests | SeleccionDePersonaje.gd, CreacionDePersonaje.gd, handlers, GestorPersonajes |
| `PeticionesProofs` | proofs about Peticiones | |
| `Rasgos` | the choice of traits | CreacionDePersonaje.gd |
| `Creacion` | Rasgos composed with the form, the packets and the table | CreacionDePersonaje.gd, PaqueteSalida, PaqueteEntrada, manejarCreacionPersonaje, crearPersonaje, manejarPeticionPersonajes, red_global.gd |
| `CreacionProofs` | proofs about Rasgos; Creacion implements it, and what follows | |
| `MCKcp`, `MCSesionKcp`, `MCSesiones`, `MCRegistro`, `MCPeticiones`, `MCCreacion` | constants of the TLC runs | |

Layers. Kcp is shown to implement CanalFiable in both directions, and Sesiones to
implement PosicionDurable (section 5). Sesiones,
Registro and Peticiones stand on that promise (a message sent is handled once, in
order), so they have no datagrams; SesionKcp says when the promise is about one
conversation: between a client and the session that was created for its first
message, until either forgets. Peticiones assumes a user who is logged in, which
is what LoginFirme of Sesiones gives while the server keeps the session. Creacion
extends Rasgos, and the proofs show that each of its steps is a step of Rasgos or
changes nothing of it.

### Kcp

State: one function per field of the Java object, indexed by peer; `red[p]` is
the set of segments on their way to p. `Send`, `Recv`, `Input` (split by command
into `InputAck`, `InputPush`, `InputSonda`) and `Flush` are the entry points;
`Pierde` is UDP. Input leaves the datagram where it is, so any datagram may be
delivered again and in any order.

Abstractions: a fragment is its position in the stream; a datagram carries one
segment; the timers (RTO, fast resend, probe) are a free choice of `Flush`, so
every schedule the clock can produce is included (Relojes has the clock itself); congestion control is out
because both sides set nocwnd (`KcpSession.java:34`, `kcp_client.cpp:131`);
sequence numbers do not wrap (OrdenSerie and VentanaSerie say why that is sound). Both peers
follow Kcp.java. ikcp.c, of which it is a port, clamps `rcv_wnd` in the same way;
`ikcp_recv` with a buffer that is too small is left out (section 7).

### NumeroSerie

The code compares two numbers by the sign of their difference, kept in 32 bits.
`AInt` is that conversion, `ITimeDiff` the comparison, `FueraDeVentana` the test
with which parseData refuses a segment. The module has no behaviour; two theorems of
RelojesProofs are about it (section 5).

### Relojes

One engine and the timer of one segment of snd_buf (each segment has its own, and
flush treats them apart), from its first transmission to its acknowledgement, and
then the next one. `Update` is the tick, with `Flush` under the condition of the
code; `FlushYa` the second flush of enviarInterno; `InputAck` what an
acknowledgement does to `rx_rto`, `fastack` and the window; `Input` any other
datagram. Round trips, losses and the times of the updates are arbitrary, but the
time does not go back. `vaciado`, `preguntado`, and the fields `inicial`, `primero`
and `escrito` of `seg` are history. Times here are unbounded and there is no
constant to make small, so the module has proofs and no run.

### SesionKcp

State: the client's engine and the port of its socket; the map sesionesKcp and the
engine of each session; `red`, the segments written so far that may still arrive.
An engine here carries whole messages that always fit. `Conecta` and `Desconecta`
are those of KCPClient; a server session is created by `ChannelRead0`, by whatever
datagram comes first from a port; `Libera` is the timeout, `Reinicia` the end of
the process. The client is told of neither. What is written to a port that no socket
holds is lost (`EnUso`).

`inact` is the time since `ultimoPaqueteMs`, in periods: `Feed`, with every datagram,
sets it back, `PasaTiempo` is a period without one, and `Libera` needs `Inactividad`
of them (`EstaInactiva`, 600 s), whoever uses the port. So what a client sends keeps
its session, what is written to it does not, and the timeout of a client that is there
takes a network that is down, or a client with nothing to say: KCP sends nothing on an
idle connection. A period is longer than a datagram lives, so `PasaTiempo` also loses
what was under way at that port; so does a new socket at the port. `EnCamino` says
whether a datagram may be under way at the moment a session is forgotten, and arrive
after it. `manejados` is the history of the messages given to the handlers, each with
its session and the connection it came from, which nothing in the datagram tells.

### Sesiones

State: the two maps of the server by client address, the JugadorServidor and
Personaje objects as sequences (an index is a reference, 0 is null), the table,
and `tareas`: each CompletableFuture under way is a record and each of its steps
an action, so the reads of pos_x and pos_y, the UPDATE, the `put` of the login
callback and its reply interleave with everything else. pos_z is like pos_y.

`ultimo`, `ahora` and `antes` are history: the last position the server accepted
and its value at the last auto-save and the one before.

Environment, stated as guards or constants:
 - A user runs one client at a time (`Conecta`), from an address (UDP port) the
   server does not know (SesionKcp says what happens otherwise).
 - A client whose session the server has forgotten is `colgado`: none of its
   messages is delivered any more, because its engine is ahead of the new one.
   NuncaRevive of SesionKcp shows it once the client has seen an acknowledgement, if no
   datagram was under way when the session was forgotten; a client that has seen none
   may have its first request (the login) handled again.
 - A task of the pool lasts less than a period of the auto-save (the pool of
   connections gives up after 10 s; a period is 300 s): `Autoguardado` waits for
   the tasks that were there at the previous one.
 - 600 s without a datagram are two periods (`Inactividad`), and the tick that
   notices it is not late by more than one.
 - `Exclusivos`: characters nobody enters with while an older session of them is
   still in memory. `sesiones_reconexion` drops it, and shows why it is needed.
 - `Impacientes`: users who leave the login scene while it waits.
 - In the 0.4 s between the success of a login and the selection scene other
   replies are ignored.
 - The tables have the columns the code uses; `Servidor/sql/esquema_tablas.sql`
   lacks the cosmetic ones and `rasgos`.

### Peticiones

State: the rows, the tasks of the pool, the replies on their way to each client
and the screen of each client. A task executes its statement (`Carga`, `Crea`,
`Borra`, `FallaSQL`) and then replies (`Responde`), with anything in between. A
reply is handled by the scene on display (`RecibeLista`, `RecibeCreacion`,
`RecibeBorrado`) or lost (`Ignora`). `Pacientes` press nothing in the selection
scene while an answer for it is under way. A task has a number, free among those of
its user, so that two equal requests are two tasks. `EntraMundo` ends a client here, so
the clients may all stop: its runs do not look for deadlocks.

The list a client shows is taken as if it read what the server wrote; Creacion
shows where it does not.

### Registro

State: the table jugadores as the user whose password each correo has; the tasks
of the pool, with the statement and its callback as separate steps; the replies on
their way; and, for each client, the scene, whether its form is enabled, the correo
it was sent with, what its label says and whether the 1.5 s after a success are
running. A reply carries no correo (the field in the model is history): `Recibe`
gives it to the scene on display if that scene listens to its signal. A user always
types one password, so the test of a hash is the equality of users.
`Prudentes` are users who touch nothing in the 1.5 s after they are told that the
registration succeeded. The form is enabled during them
(`interfaz_registrar.gd:89`), so others can send a second registration and leave;
its reply then reaches the next visit of the scene, and TLC shows that AnuncioVeraz
is false of them (section 3): the scene announces the success of a form it never
sent.

### Rasgos

State: the chosen traits, what the left list offers, the points shown, the
button, and the creations under way. `Repobla` is `_repoblar_listas_rasgos`. The
order of the chosen traits is left out.

### Creacion

Adds to Rasgos the options and the name (`datos`), the packet of each creation
under way, and the rows. A packet is the sequence of its fields with their types;
the order in which each of the four ends names the fields is written down as it is
in that end (`EscritosCrear`, `LeidosCrear`, `EscritosLista`, `LeidosLista`), and
`Lee` returns `Basura` from the first field whose type is not the one asked for.
`Crea` stores the row and answers, stores it and answers that it failed, or stores
nothing. `pedidas` is the history of what was on the screen for each row.

## 3. Runs

| Run | Instance | What it checks |
|---|---|---|
| `kcp_ida` | 3 pieces one way, messages of 1 or 2, windows of 2, 2 datagrams in flight; 0.5 M states | order and wholeness of the delivery, memory, windows, cursors, nothing acknowledged is lost, and that the channel implements CanalFiable |
| `kcp_vuelta` | 2 pieces from the server, windows of 1, fairness; 16 k | everything sent arrives although the window closes and any datagram may be lost; this direction implements CanalFiable too |
| `sesion_kcp` | 2 ports, 2 connections of 2 and 1 messages, 1 reply a session, 1 restart or timeout of a client that is there, a timeout of 1 period, no datagram outlives its session, fairness; 0.5 M | a session handles one conversation from its first message, a forgotten one never resumes, a client that has gone leaves no session behind |
| `sesiones_una` | 1 user, 2 addresses, 1 character, 2 logins, 1 movement each, 1 failed statement, 1 restart; 0.5 M | the right character moves; its row never goes back; a failed UPDATE does not lose the last position; a crash loses at most what came after the auto-save before the last; all this as one refinement of PosicionDurable |
| `sesiones_login` | impatient user, 3 logins, 1 restart, fairness; 65 k | every wait ends, no session leaks, a logged-in client is registered |
| `sesiones_impaciente` | as `sesiones_login`, no restart | violated: two logins of an address under way |
| `sesiones_reconexion` | as `sesiones_una`, no failures, character not exclusive | violated: the row goes back |
| `registro` | 2 users after one correo, 3 and 2 requests, 1 failed statement, fairness; 0.2 M | announcements are true, sessions belong to whoever has the password, a blocked form is enabled or left |
| `peticiones_paciente` | 1 patient user, one name, 3 rows, 3 requests under way, 1 failed statement, fairness; 0.15 M | list and selection agree with the table once nothing is under way; the creation scene never stays blocked |
| `peticiones_impaciente` | 1 user in a hurry, 3 requests | violated: a deleted character stays selected |
| `creacion` | 4 of the traits of the source, 1 option with 2 values, 1 name, 2 creations under way, 2 rows; 48 k | what is sent is valid, the screen agrees with the choice, rows hold what was confirmed |
| `lista` | as `creacion`, 2 names, 1 creation under way | violated: the second character of a list is misread |

Why the bounds are enough to meet the cases. Three pieces and a window of two let a
fragmented message wait for its second half, fill the queue and make a sender wait;
a window of one closes with every piece and must be seen to open. That a sender
overruns the receiver when it believes an old advertisement takes four pieces; no
run is that large any more, and the theorem NadaSePierdeNunca covers every size. Two
requests under way are what it takes to swap two replies. Two logins give a session
and its successor, three a login repeated while another session of the address is
released. A session and its successor, with a first and a later message, are what it
takes to continue a conversation in the wrong place. Two users and one correo give
every order of two inserts; the third request of one is the login that follows.
Two pairs of exclusive traits, one of which pays for the other, let a choice be
compatible or not and affordable or not independently.

Queries of two users that cross were checked with two addresses and two characters
in an instance of some minutes; what keeps them apart is that `Activa` writes to the
object its task was started with, and the mutant of MovimientosLlegan (the last
session instead) already fails in `sesiones_una`.

The four violated runs are disagreements between the code and its comments;
`findings` in `PROJECT.json` has the lines:
 - **Rollback.** A client that logs out and comes back has a new port. For 600 s
   the server keeps the old session too, both are saved at each auto-save, and
   the old one once more when it is released: the row returns to where the old
   session ended. The auto-save exists "para evitar rollbacks".
 - **Two logins.** The login scene blocks itself "para evitar múltiples envíos",
   but the way to the registration scene stays open and returns to a fresh one.
   The second login to end replaces the player, also one already in the world,
   whose movements are then ignored and never saved.
 - **Ghost selection.** After a deletion the old list stays on screen until the
   reload; a click on the deleted row in between survives it.
 - **Misread list.** The server writes the traits of each character and the client
   does not read them, so from the second character on it reads other fields.

Three more facts that TLC shows with other constants; a comment denies the first.

 - **Registered twice.** The registration form is blocked "para evitar la duplicidad de
   peticiones asíncronas" (`interfaz_registrar.gd:75`), but the reply enables it also
   after a success, 1.5 s before the scene changes: a click in them sends a second
   registration, and the next visit of the scene can send a third before that one is
   answered. With one user who is not in `Prudentes`, two correos and three requests, TLC
   reaches a state with two registrations of the user under way, and one where the scene
   announces a success without having sent a form (`formulario` is `Nadie`): what
   AnuncioVeraz says of prudent users is false of the others.
 - With `Reutiliza = TRUE` a connection from a port whose old session is still there is
   taken for the old conversation (UnaConversacion is violated), because conv is always
   1 and KCP has no handshake.
 - With `EnCamino = TRUE` NuncaRevive is violated: a copy of the first message that
   arrives just after its session is forgotten is handled a second time, though the
   client has seen it acknowledged. That takes a restart shorter than the life of a
   datagram, or a client that, after 600 s of lost datagrams, is heard again, and hears
   the server's retransmission, just as the tick releases its session. UnaConversacion
   is proved for this case too.

## 4. Fairness

 - Sesiones, `Justicia`: the auto-save (scheduleAtFixedRate), the tick that
   releases sessions, the tasks of each kind in the pool, and the reception of
   replies by a client (KCP delivers in the end) are weakly fair. No user action
   is: users may stop at any time. Fairness of a kind of task, not of each task,
   is all that is claimed; in the runs it is enough because tasks are finite.
 - Peticiones and Registro, `Justicia`: each task of the pool, and the reception of
   replies. No user action is fair either. In Registro neither is the timer of 1.5 s:
   the form it guards is enabled already.
 - Kcp, `Justicia`: applications read what is there; the tick of 10 ms flushes, with
   what its timers make due (they are finite: EsperaProporcional and SondaPuntual
   of Relojes), strongly fair because acknowledgements may empty what it would send;
   no datagram stays in the network for ever; and a datagram that is written again and again arrives in the
   end. The last is the least that any reliable transport asks of UDP: a network
   that loses everything delivers nothing. Sending is not fair.
 - SesionKcp: time goes by (`PasaTiempo`, for each port that has a session) and the
   tick runs again, so that a session that stays idle is released (`Libera`). Nothing
   else is fair: neither end has to write anything and no datagram has to arrive. What
   a period that goes by takes with it is what was under way, because no datagram stays
   in the network for 600 s; a client that is there may put its release off for ever.

## 5. Proofs

TLAPS (SMT, Zenon, LS4) proves, for all values of the constants that satisfy the
ASSUMEs:

 - `KcpProofs`: type correctness, every safety property of `kcp_ida` and
   `kcp_vuelta`, the action property CursoresAvanzan, and both refinements of
   CanalFiable, for every window, fragment count, stream length and number of
   datagrams. The assumptions are those of `KcpAssumption`: different peers,
   windows of at least one, and a longest message of no more than `rcv_wnd`
   fragments (128 against 256 in the program). This is what ColaLlenaSeVacia
   rests on.
 - `SesionKcpProofs`: SesionKcpTipos and NuncaSeRevive (the action property
   NuncaRevive) if `EnCamino = FALSE`, and SiempreUnaConversacion (UnaConversacion) if
   `Reutiliza = FALSE`, for any number of ports, connections, messages, timeouts and
   restarts and any length of the timeout.
 - `SesionesProofs`: SesionesTipos, LoginSeguro (LoginFirme) and SinJugadoresPerdidos
   (SinFugas), for users of any kind and any number of users, addresses, characters,
   failures and restarts; MovimientosDelElegido (MovimientosLlegan), if
   `Impacientes = {}`.
 - `PosicionesProofs`: SinRetrocesos (the action property NoRetrocede), UltimaGuardada
   (UltimaPosicion), PocaPerdida (PerdidaAcotada) and PosicionesDurables (the
   refinement PosicionGuardada), if `Impacientes = {}` and `Exclusivos = Ids`;
   UltimaGuardada also if `MaxFallos <= 2`, which PosicionDurable says of each
   character that is closed instead.
 - `RegistroProofs`: RegistroTipos, AnunciosVeraces (AnuncioVeraz) and SesionesPropias
   (SesionPropia), for any number of users, correos and requests.
 - `PeticionesProofs`: PeticionesTipos; and SeleccionSiempreViva (SeleccionViva) and
   ListaSiempreAlDia (ListaAlDia), if `Pacientes = Clientes`.
 - `CreacionProofs`: PantallaCorrecta (IInv of Rasgos) and CreacionesValidas, for every
   finite table of traits whose exclusions are mutual and irreflexive, and any
   number of creations under way. Points are only used through "the points shown are
   the sum of the chosen traits". CreacionEsRasgos, that the composed system implements
   the screen of Rasgos, and with it CreacionesEnviadasValidas; and SiempreLoElegido
   (GuardadoLoElegido), for every value of the fields and any creations that cross.
 - `RelojesProofs`: for every sequence of updates, round trips and losses, the silence
   on a segment is less than its first timeout, half its age and a tick
   (EsperaProporcional: the backoff has no bound of its own, so after an outage of a
   minute up to half a minute more may pass); a closed window is asked for every 120 s
   and a tick at least (SondaPuntual); and the 32-bit comparison of times is exact
   while the segment is under 12 days old (RelojFiel, by OrdenSerie).
   In the same module, OrdenSerie, that two numbers less than half a turn apart compare
   as unbounded numbers do, and VentanaSerie, that the window test of parseData
   takes exactly the numbers of the window, for windows up to 2^30 and segments up
   to 2^30 away. Kcp keeps its numbers within that distance: what is in flight is at
   most a window (VueloSiempreAcotado), and a datagram older than 2^30 segments is
   gone.

The hypotheses are the ones without which the property is false or was never meant:
the runs `sesiones_impaciente`, `sesiones_reconexion` and `peticiones_impaciente` show
the counterexamples for users in a hurry and characters entered twice, and three
failures are enough to lose every save of a last position. They are conditions on the
constants of the theorem, so nothing is assumed of the program.

The inductive invariant of Kcp. EntregaEnOrden says nothing of the data under
way, so it is not inductive. `IInv` of KcpProofs adds where each piece is: every
segment in a buffer or in the network carries the piece and the fragment number
that the sender's messages put at its sequence number; what recv returned,
rcv_queue, and the cursors are consecutive; every number below the una of any
datagram, or named by an acknowledgement under way, has been received; snd_buf is
what was sent and not yet acknowledged. Then each action has a lemma (`...Paso`),
`PasoIInv` joins them, and each property follows from IInv. The refinement adds
that a Recv appends exactly the next message (`RecvMensaje`, by the position of
the fragment numbered 0) and every other action but Send leaves both histories.

The invariant of Rasgos. CreacionValida speaks of what was sent; it needs that
what is on the screen now is compatible and that the points are those of the
traits, also after a refused creation. An exclusion is blocked only from the
trait chosen first, hence the assumption that exclusions are mutual.

The invariant of Creacion. `EnCamino`: each creation under way carries the screen it was
confirmed on, whatever the user has done to the screen since and whichever of the
others was answered first. What the server then reads is what was written
(`LeeLoEscrito`): the ten fields of the two ends agree in order and type
(`MismosCampos`, from the two lists as the source has them), so the reader is in its
place at the count, and the count is the number of strings that follow. The strings are
in some order, which the set of traits forgets (`OrdenDe`).

The invariant of SesionKcp. UnaConversacion is about messages handled; a session may
mix two conversations long after the datagrams did. So `UnOrigen` is about everything
the server holds of a port or may still get from it: the segments under way, those
buffered in the engine and those handled by the session that is there come from one
connection, which is the one using the port if one does. `Atendidas` and `EnOrden` say
that a session has handled exactly the numbers below its rcv_nxt, one after the other.
`UnOrigen` needs that a connection does not get a port whose session is still there; with
Reutiliza = TRUE the property is false (section 3) and the rest of the invariant still
holds. It needs nothing of what is under way when a session is forgotten. NuncaRevive
does, and needs no `UnOrigen`: if `EnCamino = FALSE`, what acknowledges the first
message to a client comes from the session that is there (`AcusesDeAhora`), because
nothing under way outlives the session; so once it is acknowledged either that session
is there, and it does not take number 0 again, or no copy of the first message is left
(`Empezada`). The timeout itself plays no part in either: they hold whenever the server
forgets. It is SeDespide that rests on it.

The invariants of Sesiones. Three layers, each proved with the one below.
`Base`, for every user: a task of the login ends before its session is idle (a task
that is not from before the last auto-save has a session with no period of idleness,
any other at most one, and the release takes two); a player registered before
S_LOGIN_OK is queued is there, with the account of the login, while the reply is on
its way and while the client uses it, because a session is only released after 600 s
of silence. LoginFirme and SinFugas are read off it. `Login`, for patient users: a user
who logs in is in one phase (`Fase`: waiting, with exactly one task or one reply under
way; or in a scene, with the player that login registered); a Personaje object has one
owner (`SinCompartir`); and the object of a player in the world is the one its user
chose, or is being loaded by the one task that was started for it (`Eleccion`).
MovimientosLlegan follows: one login per address is what makes the player of the
session the player of the client.
`Posiciones`, for exclusive characters: at most one object of a character is in memory
(`Objetos`), so its coordinates only grow, and what a save has read so far lies between
the row and the object (`Orden`): two saves of one object may be under way, an
auto-save that began before the release and the final save, and either may end last
without going back, because once the final save has started the object does not move.
`Alcanza` counts chances: from the last movement to the end of the session there are
two auto-saves and the final save, each of which has written the last position, is
about to, or has failed. So two failures are survived and UltimaPosicion needs
`MaxFallos <= 2`. `Perdida` says that a save begun at an auto-save is over before the
next one, so the row is at least as new as `antes`, while nothing has failed. `Rezago`
keeps rows and objects behind `ultimo` after any number of failures. The steps
are first divided into kinds (`Pasos`, `PasosPosicion`) by what they touch, and the
parts of the invariant that a kind leaves alone follow from the frame lemmas.

The refinement of PosicionDurable. Its variables are `ultimo`, `bbdd`, `ahora`,
`antes`, `fallos` and the open characters (`Abiertos`: those that are not `Quieto`).
A selection opens one; the callback of the load and the release hand it over, from the
task to the session and from the session to the final save, so both are stutters; a
movement writes the value; each UPDATE moves the row to a point between the old row and
the value, and may close the character; an auto-save is a mark, allowed only if the
row has reached the one before; a restart is a cut. `segura` is a variable of its own
because of a character that stands still: without it a mark with an unchanged value
would be a stutter, and a server that never saved it would pass.

The invariant of Registro. A registration that a prudent user sent is the only one of
theirs under way, and the form it was sent with is still in front of them, blocked,
with its correo; so whatever reply arrives is about that form. What the reply says of
the table stays true, because accounts are never removed and one correo has one row;
that is stated of every user, since others register the same correo meanwhile.

The invariant of Peticiones. `Gastadas`: an id once given is below `siguiente`, so a
deleted id never comes back. `UnaEspera`: a user who waits has one list or deletion
under way at most, as a task or as a reply, and none outside the selection scene;
creations may cross with it, several at once. `Vista` says what each of them may still
do to the screen: between the statement of a list and its display no row of its user is
deleted, so the list shown has no ghosts; a creation whose reply has been shown was
executed before the reload it started; while a deletion is under way the selected id is
the one that was sent, its row is there and the deletion, unless it fails, finds it. The bounds need a
counting argument: the creations under way, each of which may take an id, are counted
when they are asked for, and a number that no task of the user has exists by the
pigeonhole principle (`NumeroLibre`).

The serial numbers. The word of a number is the number plus some turns of 2^32, and
lies in the range of an int (`Vueltas`); the word of the difference of two words is
then their difference plus some turns, and only zero turns fit.

The invariant of Relojes. That a segment was written recently does not follow from
the step before: `SegmentoAlDia` adds that resendts is the last write plus rto, that
the last flush left it in the future, and that what rto has grown since the first
transmission is at most half the time from then to the last write, because each
growth by half of rto comes after a wait of rto. `FlushAlDia` bounds the time since
the last flush by the tick, and `SondaAlDia` is the same for the probe.

## 6. Only model-checked

Liveness under fairness (TodoLlega, SeDespide, RespuestaLogin, SeLibera,
FormularioVuelve, ConfirmarVuelve): out of the reach of this prover, as ENABLED is.
ListaLeida: the packet of the list repeats the fields for each row, and what a repetition
computes for every length takes an induction over data. That the sum of the points is
what MapThenSumSet computes: induction over data; TLC evaluates it over the table of
the source.

## 7. Not modelled

 - godot-cpp (third-party bindings, most of the lines of the repository) and the
   drafts under `files/`; physics, camera, 3D mirror and the looks of the controls.
 - Relojes and Kcp are not composed: in Kcp the timers are a free choice of Flush,
   which makes its safety results hold for every schedule; Relojes says how long a
   timer may wait. How fast a message arrives depends on the network and is not said.
   A system clock that is set back is in neither.
 - The other opcodes' bytes (at most three fields, alike on both sides), strings over
   65535 bytes, truncated packets, floats as numbers.
 - `drain_kcp_recv`'s buffer of 64 KiB and the 128 fragments of a message: no list of
   characters the program can make by itself comes near them.
 - The pool of connections itself, BCrypt, errors of the system's socket calls. The
   shipped schema lacks columns the code uses; the models have them.
 - A failed INSERT or DELETE that was executed makes the client believe otherwise
   until the next list: Peticiones has it, and SeleccionViva and ListaAlDia exclude it
   (fallos = 0). A failed load of a character is not told to the client (there is no
   reply to a selection); MovimientosLlegan excludes that case.
 - TLC has no run in which both directions of a Kcp connection carry data: the proofs
   cover the safety of it.

## 8. Plan

What is left, in this order:
 1. Relojes and Kcp composed: the timers of Relojes decide which segments a Flush of Kcp
    writes again, and each step of the composition is one of Kcp, so that the
    refinement of CanalFiable carries over to it.
 2. What a user was told and what the table has, as one specification that Peticiones
    and Registro implement: a request takes effect at most once, between the click
    and the reply. In Peticiones a statement is one step, so the part that says
    something is the order of the replies, which SeleccionViva and ListaAlDia have.
