------------------------------ MODULE Registro ------------------------------
(***************************************************************************)
(* Accounts: the registration and the login scenes of the client            *)
(* (interfaz_registrar.gd, interfaz_login.gd), their requests and the table *)
(* jugadores (GestorAutenticacion.java).                                     *)
(*                                                                          *)
(* Each request is a task of the ForkJoinPool: a statement, then the        *)
(* thenAccept callback that queues the reply.  Two requests run at the same *)
(* time, two users may ask for the same correo, and a reply names neither   *)
(* its request nor its correo: the scene on display takes it for its own.   *)
(*                                                                          *)
(* Abstractions: the channel is reliable and in order (CanalFiable), and    *)
(* the session lasts (SesionKcp); a user always types one password, so a    *)
(* stored hash is the user whose password it accepts; the forms that the    *)
(* scene refuses are not sent.  The messages of a user on their way to the   *)
(* server start their tasks at once: tasks run in any order in any case.    *)
(***************************************************************************)
EXTENDS Integers, Sequences, FiniteSets

CONSTANTS
  Usuarios,      \* the users, one client each
  Correos,       \* what they type as correo
  Prudentes,     \* users who touch nothing once told that the registration succeeded
  MaxPeticiones, \* bound: requests of each user
  MaxFallos      \* bound: statements the database fails

Nadie == "nadie"    \* no row, no session, nothing typed

ASSUME RegistroAssumption ==
  /\ Nadie \notin Usuarios /\ Nadie \notin Correos
  /\ Prudentes \subseteq Usuarios
  /\ MaxPeticiones \in [Usuarios -> Nat] /\ MaxFallos \in Nat

VARIABLES
  jugadores,    \* correo -> user whose password the row has, or Nadie
  tareas,       \* tasks in the pool
  respuestas,   \* replies queued for a client
  sesion,       \* correo of the JugadorServidor of each client, or Nadie
  escena,       \* scene on display
  activos,      \* its button (and "volver", in the registration) are enabled
  formulario,   \* correo of the request the scene made last, or Nadie
  etiqueta,     \* what the scene says of it
  temporizador, \* the 1.5 s after a successful registration are running
  peticiones,   \* requests of each user so far
  fallos        \* counter of the bound

servidor == <<jugadores, tareas, sesion, fallos>>
pantalla == <<escena, activos, formulario, etiqueta, temporizador>>
vars == <<servidor, respuestas, pantalla, peticiones>>

-----------------------------------------------------------------------------
Init ==
  /\ jugadores = [c \in Correos |-> Nadie]
  /\ tareas = {}
  /\ respuestas = [u \in Usuarios |-> <<>>]
  /\ sesion = [u \in Usuarios |-> Nadie]
  /\ escena = [u \in Usuarios |-> "login"]
  /\ activos = [u \in Usuarios |-> TRUE]
  /\ formulario = [u \in Usuarios |-> Nadie]
  /\ etiqueta = [u \in Usuarios |-> "nada"]
  /\ temporizador = [u \in Usuarios |-> FALSE]
  /\ peticiones = [u \in Usuarios |-> 0]
  /\ fallos = 0

-----------------------------------------------------------------------------
(* The client *)

\* change_scene_to_file: the scene's nodes, and the timer one awaits, are gone.
Abre(u, e) ==
  /\ escena' = [escena EXCEPT ![u] = e]
  /\ activos' = [activos EXCEPT ![u] = TRUE]
  /\ formulario' = [formulario EXCEPT ![u] = Nadie]
  /\ etiqueta' = [etiqueta EXCEPT ![u] = "nada"]
  /\ temporizador' = [temporizador EXCEPT ![u] = FALSE]

\* A request is sent with the form blocked until its reply.
Pide(u, op, c) ==
  /\ activos[u] /\ peticiones[u] < MaxPeticiones[u]
  /\ peticiones' = [peticiones EXCEPT ![u] = @ + 1]
  /\ tareas' = tareas \cup {[cli |-> u, op |-> op, correo |-> c, n |-> peticiones'[u],
                             paso |-> "sql"]}
  /\ activos' = [activos EXCEPT ![u] = FALSE]
  /\ formulario' = [formulario EXCEPT ![u] = c]
  /\ etiqueta' = [etiqueta EXCEPT ![u] = "espera"]
  /\ UNCHANGED <<jugadores, sesion, fallos, respuestas, escena, temporizador>>

\* _al_pulsar_registro
PulsaRegistro(u, c) ==
  /\ escena[u] = "registro"
  /\ u \in Prudentes => ~temporizador[u]
  /\ Pide(u, "registro", c)

\* _al_pulsar_login
PulsaLogin(u, c) == escena[u] = "login" /\ Pide(u, "login", c)

\* boton_ir_registro, which is never disabled
IrARegistro(u) ==
  /\ escena[u] = "login"
  /\ Abre(u, "registro")
  /\ UNCHANGED <<servidor, respuestas, peticiones>>

\* boton_volver_login
Volver(u) ==
  /\ escena[u] = "registro" /\ activos[u]
  /\ Abre(u, "login")
  /\ UNCHANGED <<servidor, respuestas, peticiones>>

\* The 1.5 s after a successful registration are over.
Redirige(u) ==
  /\ escena[u] = "registro" /\ temporizador[u]
  /\ Abre(u, "login")
  /\ UNCHANGED <<servidor, respuestas, peticiones>>

-----------------------------------------------------------------------------
(* The pool *)

Pasa(t, paso) == (tareas \ {t}) \cup {[t EXCEPT !.paso = paso]}

\* (Mutant: the insertion replaces the row of that correo.)
CorreoNoUnico(c) == TRUE

\* correo is UNIQUE.
Libre(c) == jugadores[c] = Nadie

\* (Mutant: the parameters of the statement are swapped.)
InsertaAlReves(t) == jugadores' = [jugadores EXCEPT ![t.correo] = t.correo]

Inserta(t) == jugadores' = [jugadores EXCEPT ![t.correo] = t.cli]

\* registrarJugador
Registra(t) ==
  /\ t.op = "registro" /\ t.paso = "sql"
  /\ IF Libre(t.correo) THEN Inserta(t) /\ tareas' = Pasa(t, "ok")
     ELSE UNCHANGED jugadores /\ tareas' = Pasa(t, "error")
  /\ UNCHANGED <<sesion, fallos, respuestas, pantalla, peticiones>>

\* (Mutant: the password is not compared.)
SinContrasena(t) == jugadores[t.correo] # Nadie

\* checkpw
Coincide(t) == jugadores[t.correo] = t.cli

\* autenticarJugador
Autentica(t) ==
  /\ t.op = "login" /\ t.paso = "sql"
  /\ tareas' = Pasa(t, IF Coincide(t) THEN "ok" ELSE "error")
  /\ UNCHANGED <<jugadores, sesion, fallos, respuestas, pantalla, peticiones>>

\* (Mutant: a failed statement counts as a success.)
ComoSiNada == "ok"

TrasFallo == "error"

\* A SQLException, after the row is inserted or without it.
FallaSQL(t) ==
  /\ t.paso = "sql" /\ fallos < MaxFallos
  /\ fallos' = fallos + 1
  /\ tareas' = Pasa(t, TrasFallo)
  /\ \/ UNCHANGED jugadores
     \/ t.op = "registro" /\ Libre(t.correo) /\ Inserta(t)
  /\ UNCHANGED <<sesion, respuestas, pantalla, peticiones>>

\* (Mutant: the callback has nothing to say of a failure.)
SoloExitos(t) ==
  IF t.paso = "ok" THEN <<[op |-> t.op, exito |-> TRUE, correo |-> t.correo]>> ELSE <<>>

\* S_LOGIN_OK, S_LOGIN_ERROR, S_REGISTRO_OK, S_REGISTRO_ERROR (correo is not on the wire)
Contesta(t) == <<[op |-> t.op, exito |-> t.paso = "ok", correo |-> t.correo]>>

\* thenAccept of manejarRegistro and of manejarAutenticacion
Responde(t) ==
  /\ t.paso # "sql"
  /\ tareas' = tareas \ {t}
  /\ sesion' = IF t.op = "login" /\ t.paso = "ok"
               THEN [sesion EXCEPT ![t.cli] = t.correo] ELSE sesion
  /\ respuestas' = [respuestas EXCEPT ![t.cli] = @ \o Contesta(t)]
  /\ UNCHANGED <<jugadores, fallos, pantalla, peticiones>>

-----------------------------------------------------------------------------
(* The replies, in the scene on display *)

\* _al_recibir_respuesta_registro; after a success _al_recibir_respuesta_login leaves
\* the scene at once (its 0.4 s change nothing here).
Muestra(u, r) ==
  IF r.op = "login" /\ r.exito THEN Abre(u, "seleccion")
  ELSE /\ activos' = [activos EXCEPT ![u] = TRUE]
       /\ etiqueta' = [etiqueta EXCEPT ![u] = IF r.exito THEN "exito" ELSE "error"]
       /\ temporizador' = [temporizador EXCEPT ![u] = @ \/ r.exito]
       /\ UNCHANGED <<escena, formulario>>

\* _procesar_paquete_entrante: the other scene does not hear the signal.
Recibe(u) ==
  /\ respuestas[u] # <<>>
  /\ LET r == Head(respuestas[u]) IN
     IF r.op = escena[u] THEN Muestra(u, r) ELSE UNCHANGED pantalla
  /\ respuestas' = [respuestas EXCEPT ![u] = Tail(@)]
  /\ UNCHANGED <<servidor, peticiones>>

-----------------------------------------------------------------------------
Ejecuta(t) == Registra(t) \/ Autentica(t) \/ FallaSQL(t) \/ Responde(t)

Next ==
  \/ \E u \in Usuarios :
       \/ \E c \in Correos : PulsaRegistro(u, c) \/ PulsaLogin(u, c)
       \/ IrARegistro(u) \/ Volver(u) \/ Redirige(u) \/ Recibe(u)
  \/ \E t \in tareas : Ejecuta(t)

Spec == Init /\ [][Next]_vars

\* Every task of the pool ends, and every reply arrives.
Justicia ==
  \A u \in Usuarios :
    /\ WF_vars(Recibe(u))
    /\ \A n \in 1..MaxPeticiones[u] :
         WF_vars(\E t \in tareas : t.cli = u /\ t.n = n /\ Ejecuta(t))

SpecJusta == Spec /\ Justicia

-----------------------------------------------------------------------------
(* Properties *)

\* The type of each variable.
TypeOK ==
  /\ jugadores \in [Correos -> Usuarios \cup {Nadie}]
  /\ \A t \in tareas :
       /\ t.cli \in Usuarios /\ t.op \in {"registro", "login"} /\ t.correo \in Correos
       /\ t.n \in 1..MaxPeticiones[t.cli] /\ t.paso \in {"sql", "ok", "error"}
  /\ \A u \in Usuarios : \A i \in 1..Len(respuestas[u]) : respuestas[u][i].correo \in Correos
  /\ sesion \in [Usuarios -> Correos \cup {Nadie}]
  /\ escena \in [Usuarios -> {"login", "registro", "seleccion"}]
  /\ activos \in [Usuarios -> BOOLEAN]
  /\ formulario \in [Usuarios -> Correos \cup {Nadie}]
  /\ etiqueta \in [Usuarios -> {"nada", "espera", "exito", "error"}]
  /\ temporizador \in [Usuarios -> BOOLEAN]
  /\ \A u \in Usuarios : peticiones[u] \in 0..MaxPeticiones[u]
  /\ fallos \in 0..MaxFallos

\* When two users ask for one correo, whatever the order of the insertions, of their
\* failures and of the replies, "¡Registro exitoso!" is only ever said to the one whose
\* password the row has, and of the correo of the form: a user who then logs in
\* with it gets in.
AnuncioVeraz ==
  \A u \in Prudentes : etiqueta[u] = "exito" => jugadores[formulario[u]] = u

\* A session, a success on its way, and the selection scene belong to the account with
\* that user's password, now and not only when the statement ran.
SesionPropia ==
  \A u \in Usuarios :
    /\ sesion[u] # Nadie => jugadores[sesion[u]] = u
    /\ escena[u] = "seleccion" => sesion[u] # Nadie
    /\ \A i \in 1..Len(respuestas[u]) :
         respuestas[u][i].exito => jugadores[respuestas[u][i].correo] = u

\* "Valida la creación de la cuenta devolviendo el control de la escena": a blocked form
\* is enabled again, or left, whatever the database does.
FormularioVuelve == \A u \in Usuarios : ~activos[u] ~> activos[u]
=============================================================================
