------------------------------ MODULE Sesiones ------------------------------
(***************************************************************************)
(* The sessions of the server (ServidorPrincipal.java) and the positions it *)
(* keeps in memory and saves in the database.                               *)
(*                                                                          *)
(* Three kinds of thread act.  The Netty event loop handles the messages    *)
(* KCP returns and the 10 ms tick; the common ForkJoinPool runs the queries  *)
(* and their thenAccept callbacks; programadorTareas saves every position   *)
(* each five minutes.  They share sesionesActivas, the JugadorServidor      *)
(* objects in it and the Personaje objects these point to; a query that is  *)
(* under way is a record of tareas, and each step of it is an action.       *)
(*                                                                          *)
(* Abstractions.                                                            *)
(*  - KCP is the reliable channel of CanalFiable: the handler of a message   *)
(*    is one action with its sending.  A client whose session the server    *)
(*    has forgotten (timeout or restart) talks to a new engine that waits   *)
(*    for sequence numbers the client sent long ago: none of its messages   *)
(*    is delivered again, and it is "colgado".                              *)
(*  - A position is the number of the movement that led to it; pos_x and    *)
(*    pos_y (pos_z is like them) are read one by one while the event loop    *)
(*    may be writing them, so a save may mix two movements.                 *)
(*  - Time is counted in periods of the auto-save.  A task of the pool lasts *)
(*    less than a period (HikariCP gives up after ten seconds), and the 600 s*)
(*    without a datagram take two ticks of the auto-save, at most three.    *)
(*  - The rows exist already: creating and deleting them is in Peticiones.  *)
(***************************************************************************)
EXTENDS Integers, Sequences, FiniteSets

CONSTANTS
  Dirs,           \* InetSocketAddress of the clients
  Ids,            \* personajes.id
  Cuenta,         \* Cuenta[d]: account of the user at address d
  Dueno,          \* Dueno[c]: jugador_id of the row c
  Impacientes,    \* users who leave the login scene while they wait
  Exclusivos,     \* characters nobody enters the world with before the server has
                  \* released their last session and finished its saves
  MaxLogins,      \* bound: players registered, logins under way and replies
  MaxMov,         \* bound: movements of each character
  MaxFallos,      \* bound: loads and saves of a position the database fails
  MaxReinicios    \* bound: restarts of the server

ASSUME SesionesAssumption ==
  /\ Cuenta \in [Dirs -> Nat \ {0}]
  /\ Dueno \in [Ids -> Nat \ {0}]
  /\ Impacientes \subseteq Dirs /\ Exclusivos \subseteq Ids
  /\ {MaxLogins, MaxMov, MaxFallos, MaxReinicios} \subseteq Nat

Nadie == 0             \* null: no JugadorServidor, no Personaje
SinLeer == -1          \* a coordinate a save has not read yet
Inactividad == 2       \* TIMEOUT_SESION_MS in periods of the auto-save

VARIABLES
  sesionesKcp,      \* addresses with a KcpSession
  inact,            \* periods since the last datagram of an address
  sesionesActivas,  \* address -> index in jugadores, or Nadie
  jugadores,        \* JugadorServidor objects: idCuenta, personajeActivo
  personajes,       \* Personaje objects: id, posX, posY
  bbdd,             \* table personajes: position of each row
  tareas,           \* tasks in the pool
  respuestas,       \* replies on their way to a client
  cliente,          \* scene of the client at an address
  elegido,          \* personaje_seleccionado of that client
  ultimo,           \* history: last position the server accepted
  ahora, antes,     \* history: ultimo at the last auto-save and the one before
  movs, fallos, reinicios   \* counters of the bounds

servidor == <<sesionesKcp, inact, sesionesActivas, jugadores, personajes>>
clientes == <<cliente, elegido>>
historia == <<ultimo, ahora, antes>>
cuentas == <<movs, fallos, reinicios>>
vars == <<servidor, bbdd, tareas, respuestas, clientes, historia, cuentas>>

Pos(n) == [x |-> n, y |-> n]

-----------------------------------------------------------------------------
(* Helpers *)

TareaLogin(d, n) == [tipo |-> "login", dir |-> d, n |-> n, paso |-> "consulta",
                     vieja |-> FALSE]
TareaCargar(j, c) == [tipo |-> "cargar", jug |-> j, id |-> c, leido |-> <<>>,
                      vieja |-> FALSE]
TareaGuardar(p, origen, vieja) ==
  [tipo |-> "guardar", per |-> p, origen |-> origen, x |-> SinLeer, y |-> SinLeer,
   vieja |-> vieja]

EnVuelo(tipo) == {t \in tareas : t.tipo = tipo}
Logins(d) == {t \in EnVuelo("login") : t.dir = d}

\* The Personaje of the session at d, or Nadie.
Activo(d) ==
  IF sesionesActivas[d] = Nadie THEN Nadie
  ELSE jugadores[sesionesActivas[d]].personajeActivo

\* Nothing in memory or in the pool still has to do with the character c.
Quieto(c) ==
  /\ \A d \in Dirs : Activo(d) # Nadie => personajes[Activo(d)].id # c
  /\ \A t \in EnVuelo("guardar") : personajes[t.per].id # c
  /\ \A t \in EnVuelo("cargar") : t.id # c

\* (Mutant: a session is released one period too soon.)
CaducaPronto(d) == d \in sesionesKcp /\ inact[d] >= Inactividad - 1

\* (Mutant: only a session nobody logged in through is released.)
SoloAnonimas(d) ==
  d \in sesionesKcp /\ inact[d] >= Inactividad /\ sesionesActivas[d] = Nadie

\* estaInactiva
EstaInactiva(d) == d \in sesionesKcp /\ inact[d] >= Inactividad

\* A datagram of d reaches feed.
Alimenta(d) ==
  /\ sesionesKcp' = sesionesKcp \cup {d}
  /\ inact' = [inact EXCEPT ![d] = 0]

-----------------------------------------------------------------------------
Init ==
  /\ sesionesKcp = {}
  /\ inact = [d \in Dirs |-> 0]
  /\ sesionesActivas = [d \in Dirs |-> Nadie]
  /\ jugadores = <<>>
  /\ personajes = <<>>
  /\ bbdd = [c \in Ids |-> Pos(0)]
  /\ tareas = {}
  /\ respuestas = [d \in Dirs |-> <<>>]
  /\ cliente = [d \in Dirs |-> "fuera"]
  /\ elegido = [d \in Dirs |-> Nadie]
  /\ ultimo = [c \in Ids |-> Pos(0)]
  /\ ahora = ultimo /\ antes = ultimo
  /\ movs = [c \in Ids |-> 0]
  /\ fallos = 0 /\ reinicios = 0

-----------------------------------------------------------------------------
(* The client, and the handlers of its messages in the event loop *)

\* A user starts a client, one at a time, at an address the server does not know
\* or has forgotten.
Conecta(d) ==
  /\ d \notin sesionesKcp
  /\ \A e \in Dirs : Cuenta[e] = Cuenta[d] => cliente[e] = "fuera"
  /\ cliente' = [cliente EXCEPT ![d] = "nuevo"]
  /\ elegido' = [elegido EXCEPT ![d] = Nadie]
  /\ UNCHANGED <<servidor, bbdd, tareas, respuestas, historia, cuentas>>

\* The process ends, or logs out and closes its socket.
Sale(d) ==
  /\ cliente[d] # "fuera"
  /\ cliente' = [cliente EXCEPT ![d] = "fuera"]
  /\ respuestas' = [respuestas EXCEPT ![d] = <<>>]
  /\ UNCHANGED <<servidor, bbdd, tareas, elegido, historia, cuentas>>

\* An acknowledgement or a retransmission: no message of the application.
Datagrama(d) ==
  /\ cliente[d] \notin {"nuevo", "fuera"}
  /\ Alimenta(d)
  /\ UNCHANGED <<sesionesActivas, jugadores, personajes, bbdd, tareas, respuestas,
                 clientes, historia, cuentas>>

\* _al_pulsar_login, and manejarAutenticacion.
EnviaLogin(d) ==
  /\ cliente[d] \in {"nuevo", "login"}
  /\ Len(jugadores) + Cardinality(EnVuelo("login")) + Len(respuestas[d]) < MaxLogins
  /\ Alimenta(d)
  /\ cliente' = [cliente EXCEPT ![d] = "espera"]
  /\ \E n \in 1..MaxLogins :
       /\ \A t \in Logins(d) : t.n # n
       /\ \A m \in 1..(n - 1) : \E t \in Logins(d) : t.n = m
       /\ tareas' = tareas \cup {TareaLogin(d, n)}
  /\ UNCHANGED <<sesionesActivas, jugadores, personajes, bbdd, respuestas, elegido,
                 historia, cuentas>>

\* boton_ir_registro works while the login is under way, and while the scene waits
\* to be changed after a success,
IrRegistro(d) ==
  /\ d \in Impacientes /\ cliente[d] \in {"espera", "acceso"}
  /\ cliente' = [cliente EXCEPT ![d] = "registrar"]
  /\ UNCHANGED <<servidor, bbdd, tareas, respuestas, elegido, historia, cuentas>>

\* and boton_volver_login returns to a fresh login scene.
Volver(d) ==
  /\ cliente[d] = "registrar"
  /\ cliente' = [cliente EXCEPT ![d] = "login"]
  /\ UNCHANGED <<servidor, bbdd, tareas, respuestas, elegido, historia, cuentas>>

\* _procesar_paquete_entrante and _al_recibir_respuesta_login: only the login
\* scene listens to evento_login.
Recibe(d) ==
  /\ respuestas[d] # <<>>
  /\ respuestas' = [respuestas EXCEPT ![d] = Tail(@)]
  /\ cliente' = [cliente EXCEPT ![d] =
       IF @ \notin {"espera", "login"} THEN @
       ELSE IF Head(respuestas[d]) = "S_LOGIN_OK" THEN "acceso" ELSE "login"]
  /\ UNCHANGED <<servidor, bbdd, tareas, elegido, historia, cuentas>>

\* The 0.4 s after a successful login are over.
MuestraLista(d) ==
  /\ cliente[d] = "acceso"
  /\ cliente' = [cliente EXCEPT ![d] = "lista"]
  /\ UNCHANGED <<servidor, bbdd, tareas, respuestas, elegido, historia, cuentas>>

\* _on_btn_entrar_mundo_pressed, and manejarSeleccionPersonaje.
Entra(d, c) ==
  /\ cliente[d] = "lista" /\ Dueno[c] = Cuenta[d]
  /\ c \in Exclusivos => Quieto(c)
  /\ Alimenta(d)
  /\ cliente' = [cliente EXCEPT ![d] = "mundo"]
  /\ elegido' = [elegido EXCEPT ![d] = c]
  /\ tareas' = IF sesionesActivas[d] = Nadie THEN tareas
               ELSE tareas \cup {TareaCargar(sesionesActivas[d], c)}
  /\ UNCHANGED <<sesionesActivas, jugadores, personajes, bbdd, respuestas, historia,
                 cuentas>>

\* _physics_process sends the position all the time, whatever the server answered.
EnviaPosicion(d) == cliente[d] = "mundo"

\* manejarMovimiento with actualizarPosicion.
Mueve(d) ==
  LET p == Activo(d) IN
  /\ EnviaPosicion(d)
  /\ Alimenta(d)
  /\ IF p = Nadie THEN UNCHANGED <<personajes, ultimo, movs>>
     ELSE LET c == personajes[p].id
              n == movs[c] + 1 IN
          /\ n <= MaxMov
          /\ personajes' = [personajes EXCEPT ![p] = [@ EXCEPT !.pos = Pos(n)]]
          /\ ultimo' = [ultimo EXCEPT ![c] = Pos(n)]
          /\ movs' = [movs EXCEPT ![c] = n]
  /\ UNCHANGED <<sesionesActivas, jugadores, bbdd, tareas, respuestas, clientes, ahora,
                 antes, fallos, reinicios>>

-----------------------------------------------------------------------------
(* The tasks of the pool *)

\* autenticarJugador finds the account, or not.
Autentica(t, exito) ==
  /\ t.tipo = "login" /\ t.paso = "consulta"
  /\ tareas' = (tareas \ {t}) \cup {[t EXCEPT !.paso = IF exito THEN "put" ELSE "error"]}
  /\ UNCHANGED <<servidor, bbdd, respuestas, clientes, historia, cuentas>>

\* The callback registers the player under the address of the request,
Registra(t) ==
  /\ t.tipo = "login" /\ t.paso = "put"
  /\ tareas' = (tareas \ {t}) \cup {[t EXCEPT !.paso = "ok"]}
  /\ jugadores' = Append(jugadores,
       [idCuenta |-> Cuenta[t.dir], personajeActivo |-> Nadie])
  /\ sesionesActivas' = [sesionesActivas EXCEPT ![t.dir] = Len(jugadores) + 1]
  /\ UNCHANGED <<sesionesKcp, inact, personajes, bbdd, respuestas, clientes, historia,
                 cuentas>>

\* (Mutant: the reply does not wait for the player to be registered.)
AntesDelPut(t) == t.paso \in {"put", "error"}

PuedeResponder(t) == t.paso \in {"ok", "error"}

\* (Mutant: a failed login has no reply.)
SoloExitos(t) == IF t.paso = "error" THEN <<>> ELSE <<"S_LOGIN_OK">>

Respuesta(t) == IF t.paso = "error" THEN <<"S_LOGIN_ERROR">> ELSE <<"S_LOGIN_OK">>

\* and replies, through the event loop.
RespondeLogin(t) ==
  /\ t.tipo = "login" /\ PuedeResponder(t)
  /\ tareas' = tareas \ {t}
  /\ respuestas' = [respuestas EXCEPT ![t.dir] =
       IF cliente[t.dir] \in {"fuera", "colgado", "nuevo"} THEN @ ELSE @ \o Respuesta(t)]
  /\ UNCHANGED <<servidor, bbdd, clientes, historia, cuentas>>

\* obtenerPersonajePorId reads the row,
Consulta(t) ==
  /\ t.tipo = "cargar" /\ t.leido = <<>>
  /\ tareas' = (tareas \ {t}) \cup {[t EXCEPT !.leido = <<bbdd[t.id]>>]}
  /\ UNCHANGED <<servidor, bbdd, respuestas, clientes, historia, cuentas>>

\* or fails to: null, and the callback does nothing.
FallaConsulta(t) ==
  /\ t.tipo = "cargar" /\ t.leido = <<>>
  /\ fallos < MaxFallos
  /\ fallos' = fallos + 1
  /\ tareas' = tareas \ {t}
  /\ UNCHANGED <<servidor, bbdd, respuestas, clientes, historia, movs, reinicios>>

\* (Mutant: the object starts at the origin.)
EnElOrigen(t) == [id |-> t.id, pos |-> Pos(0)]

Cargado(t) == [id |-> t.id, pos |-> t.leido[1]]

\* (Mutant: the player that logged in last.)
ElUltimo(t) == Len(jugadores)

Solicitante(t) == t.jug

\* and the callback makes it the active character of the session that asked.
Activa(t) ==
  /\ t.tipo = "cargar" /\ t.leido # <<>>
  /\ tareas' = tareas \ {t}
  /\ personajes' = Append(personajes, Cargado(t))
  /\ jugadores' = [jugadores EXCEPT ![Solicitante(t)].personajeActivo = Len(personajes) + 1]
  /\ UNCHANGED <<sesionesKcp, inact, sesionesActivas, bbdd, respuestas, clientes,
                 historia, cuentas>>

\* guardarPosicionPersonaje reads the coordinates of the object, in any order
\* with respect to the writes of the event loop,
LeeX(t) ==
  /\ t.tipo = "guardar" /\ t.x = SinLeer
  /\ tareas' = (tareas \ {t}) \cup {[t EXCEPT !.x = personajes[t.per].pos.x]}
  /\ UNCHANGED <<servidor, bbdd, respuestas, clientes, historia, cuentas>>

LeeY(t) ==
  /\ t.tipo = "guardar" /\ t.y = SinLeer
  /\ tareas' = (tareas \ {t}) \cup {[t EXCEPT !.y = personajes[t.per].pos.y]}
  /\ UNCHANGED <<servidor, bbdd, respuestas, clientes, historia, cuentas>>

\* (Mutant: the statement is run when the first coordinate is set.)
SoloX(t) == t.tipo = "guardar" /\ t.x # SinLeer

Leida(t) == t.tipo = "guardar" /\ t.x # SinLeer /\ t.y # SinLeer

\* runs the UPDATE,
Actualiza(t) ==
  /\ Leida(t)
  /\ tareas' = tareas \ {t}
  /\ bbdd' = [bbdd EXCEPT ![personajes[t.per].id] = [x |-> t.x, y |-> t.y]]
  /\ UNCHANGED <<servidor, respuestas, clientes, historia, cuentas>>

\* or ignores its SQLException.
FallaSQL(t) ==
  /\ Leida(t)
  /\ fallos < MaxFallos
  /\ fallos' = fallos + 1
  /\ tareas' = tareas \ {t}
  /\ UNCHANGED <<servidor, bbdd, respuestas, clientes, historia, movs, reinicios>>

Tarea(t) ==
  \/ \E exito \in BOOLEAN : Autentica(t, exito)
  \/ Registra(t) \/ RespondeLogin(t)
  \/ Consulta(t) \/ FallaConsulta(t) \/ Activa(t)
  \/ LeeX(t) \/ LeeY(t) \/ Actualiza(t) \/ FallaSQL(t)

-----------------------------------------------------------------------------
(* The clocks *)

\* The final save of a session that is released.
GuardadoFinal(d) ==
  IF Activo(d) = Nadie THEN {} ELSE {TareaGuardar(Activo(d), "final", FALSE)}

\* The 10 ms tick releases an idle session and saves its last position.
Libera(d) ==
  /\ EstaInactiva(d)
  /\ sesionesKcp' = sesionesKcp \ {d}
  /\ inact' = [inact EXCEPT ![d] = 0]
  /\ sesionesActivas' = [sesionesActivas EXCEPT ![d] = Nadie]
  /\ tareas' = tareas \cup GuardadoFinal(d)
  /\ respuestas' = [respuestas EXCEPT ![d] = <<>>]
  /\ cliente' = [cliente EXCEPT ![d] = IF @ = "fuera" THEN @ ELSE "colgado"]
  /\ UNCHANGED <<jugadores, personajes, bbdd, elegido, historia, cuentas>>

\* (Mutant: the auto-save leaves out the sessions that are sending datagrams.)
SoloQuietas == {TareaGuardar(Activo(d), "auto", TRUE) :
                  d \in {e \in Dirs : Activo(e) # Nadie /\ inact[e] > 0}}

\* One save for each session with an active character.
GuardadoMasivo == {TareaGuardar(Activo(d), "auto", TRUE) :
                     d \in {e \in Dirs : Activo(e) # Nadie}}

\* iniciarAutoGuardado: every five minutes.
Autoguardado ==
  /\ \A t \in tareas : ~t.vieja
  /\ \A d \in Dirs : ~(EstaInactiva(d) /\ inact[d] > Inactividad)
  /\ tareas' = {[t EXCEPT !.vieja = TRUE] : t \in tareas} \cup GuardadoMasivo
  /\ inact' = [d \in Dirs |-> IF d \in sesionesKcp /\ inact[d] <= Inactividad
                           THEN inact[d] + 1 ELSE inact[d]]
  /\ antes' = ahora
  /\ ahora' = ultimo
  /\ UNCHANGED <<sesionesKcp, sesionesActivas, jugadores, personajes, bbdd, respuestas,
                 clientes, ultimo, cuentas>>

\* The server stops (crash, or the shutdown hook, which only closes the pool of
\* connections) and starts again.
Reinicia ==
  /\ reinicios < MaxReinicios
  /\ reinicios' = reinicios + 1
  /\ sesionesKcp' = {}
  /\ inact' = [d \in Dirs |-> 0]
  /\ sesionesActivas' = [d \in Dirs |-> Nadie]
  /\ jugadores' = <<>>
  /\ personajes' = <<>>
  /\ tareas' = {}
  /\ respuestas' = [d \in Dirs |-> <<>>]
  /\ cliente' = [d \in Dirs |->
       IF cliente[d] \in {"nuevo", "fuera"} THEN cliente[d] ELSE "colgado"]
  /\ ultimo' = bbdd /\ ahora' = bbdd /\ antes' = bbdd
  /\ UNCHANGED <<bbdd, elegido, movs, fallos>>

-----------------------------------------------------------------------------
Next ==
  \/ \E d \in Dirs :
       \/ Conecta(d) \/ Sale(d) \/ Datagrama(d)
       \/ EnviaLogin(d) \/ IrRegistro(d) \/ Volver(d) \/ Recibe(d) \/ MuestraLista(d)
       \/ \E c \in Ids : Entra(d, c)
       \/ Mueve(d)
       \/ Libera(d)
  \/ \E t \in tareas : Tarea(t)
  \/ Autoguardado
  \/ Reinicia

Spec == Init /\ [][Next]_vars

\* The threads of the server keep running, and the network delivers at last.
Justicia ==
  /\ WF_vars(Autoguardado)
  /\ WF_vars(\E t \in EnVuelo("login") : Tarea(t))
  /\ WF_vars(\E t \in EnVuelo("cargar") : Tarea(t))
  /\ WF_vars(\E t \in EnVuelo("guardar") : Tarea(t))
  /\ \A d \in Dirs : WF_vars(Libera(d)) /\ WF_vars(Recibe(d))

SpecJusta == Spec /\ Justicia

-----------------------------------------------------------------------------
(* Properties *)

Escenas == {"nuevo", "login", "espera", "registrar", "acceso", "lista", "mundo",
            "colgado", "fuera"}
Fila == [x : Nat, y : Nat]

TypeOK ==
  /\ sesionesKcp \subseteq Dirs
  /\ inact \in [Dirs -> 0..(Inactividad + 1)]
  /\ sesionesActivas \in [Dirs -> 0..Len(jugadores)]
  /\ jugadores \in Seq([idCuenta : Nat, personajeActivo : 0..Len(personajes)])
  /\ personajes \in Seq([id : Ids, pos : Fila])
  /\ bbdd \in [Ids -> Fila]
  /\ tareas \subseteq
       [tipo : {"login"}, dir : Dirs, n : Nat \ {0}, vieja : BOOLEAN,
        paso : {"consulta", "put", "ok", "error"}]
       \cup [tipo : {"cargar"}, jug : 1..Len(jugadores), id : Ids, vieja : BOOLEAN,
             leido : {<<>>} \cup {<<f>> : f \in [x : 0..MaxMov, y : 0..MaxMov]}]
       \cup [tipo : {"guardar"}, per : 1..Len(personajes), origen : {"auto", "final"},
             vieja : BOOLEAN, x : Nat \cup {SinLeer}, y : Nat \cup {SinLeer}]
  /\ respuestas \in [Dirs -> Seq({"S_LOGIN_OK", "S_LOGIN_ERROR"})]
  /\ cliente \in [Dirs -> Escenas]
  /\ elegido \in [Dirs -> Ids \cup {Nadie}]
  /\ {ultimo, ahora, antes} \subseteq [Ids -> Fila]
  /\ movs \in [Ids -> 0..MaxMov]
  /\ fallos \in 0..MaxFallos /\ reinicios \in 0..MaxReinicios

NoPosterior(a, b) == a.x <= b.x /\ a.y <= b.y

\* What a crash loses is bounded: the row of a character is never older than the
\* position the server had accepted one auto-save before the last one.
PerdidaAcotada ==
  fallos = 0 => \A c \in Ids : NoPosterior(antes[c], bbdd[c])

\* Once the session of a character has been released and its saves are done, the
\* row is exactly the last position the server accepted, coordinates of two
\* movements never mixed; it survives as many failed UPDATEs as MaxFallos says.
UltimaPosicion == \A c \in Ids : Quieto(c) => bbdd[c] = ultimo[c]

\* The position in the database never goes back ("para evitar rollbacks").
NoRetrocede == [][\A c \in Ids : NoPosterior(bbdd[c], bbdd'[c])]_vars

\* The characters that are loaded, in memory or under way to the database.
Abiertos == {c \in Ids : ~Quieto(c)}

Durable == INSTANCE PosicionDurable WITH
  Max <- MaxMov, valor <- ultimo, fila <- bbdd, marca <- ahora, segura <- antes,
  abiertos <- Abiertos

\* The loads, the auto-saves, the final saves and the restarts together keep each
\* position as PosicionDurable says: a row between the old one and the value in memory,
\* and as new as the value when the session is released, whatever thread writes last.
PosicionGuardada == Durable!Spec

\* A client that received S_LOGIN_OK, and whose session the server keeps, is
\* registered under its address with its own account: none of its requests is
\* ignored for want of a JugadorServidor.
LoginFirme ==
  \A d \in Dirs : cliente[d] \in {"acceso", "lista", "mundo"} =>
    /\ sesionesActivas[d] # Nadie
    /\ jugadores[sesionesActivas[d]].idCuenta = Cuenta[d]

\* Once the row it chose has been loaded, the movements of a client in the world
\* move that character, not another one and not none (unless the database failed
\* to load it: no reply tells the client).
MovimientosLlegan ==
  \A d \in Dirs : cliente[d] = "mundo" /\ fallos = 0 =>
    \/ \E t \in EnVuelo("cargar") : t.jug = sesionesActivas[d] /\ t.id = elegido[d]
    \/ Activo(d) # Nadie /\ personajes[Activo(d)].id = elegido[d]

\* A registered player always has a KCP session, the only thing whose timeout
\* takes it out of sesionesActivas: a late login callback leaves none behind.
SinFugas == \A d \in Dirs : sesionesActivas[d] # Nadie => d \in sesionesKcp

\* interfaz_login.gd blocks the interface to avoid repeated sends: an address never
\* has two logins under way.
UnSoloLogin == \A d \in Dirs : Cardinality(Logins(d)) <= 1

\* A user waiting at the login scene is answered, unless the session is lost.
RespuestaLogin == \A d \in Dirs : cliente[d] = "espera" ~> cliente[d] # "espera"

\* What a client that left kept in memory is released.
SeLibera == \A d \in Dirs : cliente[d] = "fuera" ~> sesionesActivas[d] = Nadie
=============================================================================
