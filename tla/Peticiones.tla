----------------------------- MODULE Peticiones -----------------------------
(***************************************************************************)
(* The character screens of the client (SeleccionDePersonaje.gd,            *)
(* CreacionDePersonaje.gd) and the requests they make: the list of the      *)
(* characters of the account, the creation of one and its deletion.         *)
(*                                                                          *)
(* The server handles each request in a task of the ForkJoinPool: a         *)
(* statement on the table personajes, then the thenAccept callback that      *)
(* queues the reply.  Tasks run at the same time, so the replies may come   *)
(* in another order than the requests, and a reply does not say which       *)
(* request it answers; RedGlobal turns it into a signal that only the scene *)
(* on display hears.                                                        *)
(*                                                                          *)
(* Abstractions: the user is logged in and keeps the session (Sesiones);    *)
(* the channel is reliable and in order (CanalFiable); a row is its id, its *)
(* owner and its name.                                                      *)
(***************************************************************************)
EXTENDS Integers, Sequences, FiniteSets

CONSTANTS
  Clientes,     \* the users, one account each
  Nombres,      \* names a user may type
  Pacientes,    \* users who do nothing while a list or a deletion is under way
  MaxIds,       \* bound: rows ever created
  MaxVuelo,     \* bound: requests of a user under way
  MaxFallos     \* bound: statements the database fails

ASSUME PeticionesAssumption ==
  /\ Pacientes \subseteq Clientes
  /\ {MaxIds, MaxFallos} \subseteq Nat
  /\ MaxVuelo \in Nat \ {0}

Ninguno == -1    \* personaje_seleccionado when there is none

VARIABLES
  personajes,    \* table personajes: rows [id, jugador_id, nombre]
  siguiente,     \* sequence of personajes.id
  tareas,        \* tasks in the pool
  respuestas,    \* replies queued for a client
  escena,        \* scene on display
  lista,         \* ids in ListaPersonajes
  seleccionado,  \* personaje_seleccionado
  confirmar,     \* BtnConfirmar is enabled
  creados,       \* history: rows a user was told of by the creation scene
  borrados,      \* history: rows a user was told are deleted
  fallos         \* counter of the bound

servidor == <<personajes, siguiente, tareas, fallos>>
pantalla == <<escena, lista, seleccionado, confirmar>>
historia == <<creados, borrados>>
vars == <<servidor, respuestas, pantalla, historia>>

IdsDe(c) == {r.id : r \in {x \in personajes : x.jugador_id = c}}

-----------------------------------------------------------------------------
(* Requests: a message to the server, whose handler starts a task *)

DeCliente(c) == {t \in tareas : t.cli = c}

\* A number that no task of c has: there is one up to the number of its tasks plus 1.
Numero(c) ==
  CHOOSE n \in 1..(Cardinality(DeCliente(c)) + 1) : \A t \in DeCliente(c) : t.n # n

\* A new task for the request op of c; n tells apart equal requests.
Tarea(c, op, dato) ==
  [cli |-> c, op |-> op, dato |-> dato, hecho |-> FALSE, res |-> {}, n |-> Numero(c)]

Cabe(c) == Cardinality(DeCliente(c)) + Len(respuestas[c]) < MaxVuelo

\* An answer that changes the selection scene of c is still to come.
Espera(c) ==
  \/ \E t \in DeCliente(c) : t.op \in {"lista", "eliminar"}
  \/ \E i \in 1..Len(respuestas[c]) : respuestas[c][i].op \in {"lista", "eliminar"}

\* Rows that the creations under way may still add: MaxIds bounds them when they
\* are asked for, so that a task always ends.
PorCrear == Cardinality({t \in tareas : t.op = "crear" /\ ~t.hecho})

\* c may press a button.
Pulsa(c) == c \in Pacientes => ~Espera(c)

\* _ready of the selection scene: an empty list, nothing selected, C_PEDIR_PERSONAJES.
AbreSeleccion(c) ==
  /\ escena' = [escena EXCEPT ![c] = "seleccion"]
  /\ lista' = [lista EXCEPT ![c] = {}]
  /\ seleccionado' = [seleccionado EXCEPT ![c] = Ninguno]
  /\ tareas' = tareas \cup {Tarea(c, "lista", Ninguno)}
  /\ UNCHANGED confirmar

-----------------------------------------------------------------------------
Init ==
  /\ personajes = {} /\ siguiente = 1
  /\ escena = [c \in Clientes |-> "seleccion"]
  /\ lista = [c \in Clientes |-> {}]
  /\ seleccionado = [c \in Clientes |-> Ninguno]
  /\ confirmar = [c \in Clientes |-> FALSE]
  /\ respuestas = [c \in Clientes |-> <<>>]
  /\ tareas = {[cli |-> c, op |-> "lista", dato |-> Ninguno, hecho |-> FALSE,
                res |-> {}, n |-> 1] : c \in Clientes}
  /\ creados = [c \in Clientes |-> {}]
  /\ borrados = [c \in Clientes |-> {}]
  /\ fallos = 0

\* _on_lista_personajes_item_selected
Elige(c, id) ==
  /\ escena[c] = "seleccion" /\ id \in lista[c] /\ Pulsa(c)
  /\ seleccionado' = [seleccionado EXCEPT ![c] = id]
  /\ UNCHANGED <<servidor, respuestas, escena, lista, confirmar, historia>>

\* _on_btn_delete_pressed
Elimina(c) ==
  /\ escena[c] = "seleccion" /\ seleccionado[c] # Ninguno /\ Pulsa(c) /\ Cabe(c)
  /\ tareas' = tareas \cup {Tarea(c, "eliminar", seleccionado[c])}
  /\ UNCHANGED <<personajes, siguiente, fallos, respuestas, pantalla, historia>>

\* _on_btn_crear_nuevo_pressed: the creation scene starts with no traits, and so
\* with BtnConfirmar enabled.
IrACrear(c) ==
  /\ escena[c] = "seleccion" /\ Pulsa(c)
  /\ escena' = [escena EXCEPT ![c] = "creacion"]
  /\ confirmar' = [confirmar EXCEPT ![c] = TRUE]
  /\ UNCHANGED <<servidor, respuestas, lista, seleccionado, historia>>

\* _on_btn_confirmar_pressed
Confirma(c, nombre) ==
  /\ escena[c] = "creacion" /\ confirmar[c] /\ Cabe(c) /\ siguiente + PorCrear <= MaxIds
  /\ confirmar' = [confirmar EXCEPT ![c] = FALSE]
  /\ tareas' = tareas \cup {Tarea(c, "crear", nombre)}
  /\ UNCHANGED <<personajes, siguiente, fallos, respuestas, escena, lista, seleccionado,
                 historia>>

\* A trait is moved from one list to the other: _repoblar_listas_rasgos enables the
\* button again if the points allow it, whether or not a creation is under way.
TocaRasgo(c) ==
  /\ escena[c] = "creacion"
  /\ \E b \in BOOLEAN : confirmar' = [confirmar EXCEPT ![c] = b]
  /\ UNCHANGED <<servidor, respuestas, escena, lista, seleccionado, historia>>

\* BtnVolver
Vuelve(c) ==
  /\ escena[c] = "creacion" /\ Pulsa(c) /\ Cabe(c)
  /\ AbreSeleccion(c)
  /\ UNCHANGED <<personajes, siguiente, fallos, respuestas, historia>>

\* _on_btn_entrar_mundo_pressed: none of these requests is made in the world.
EntraMundo(c) ==
  /\ escena[c] = "seleccion" /\ seleccionado[c] # Ninguno /\ Pulsa(c)
  /\ escena' = [escena EXCEPT ![c] = "mundo"]
  /\ UNCHANGED <<servidor, respuestas, lista, seleccionado, confirmar, historia>>

-----------------------------------------------------------------------------
(* The tasks of the pool *)

Hecha(t, res) == (tareas \ {t}) \cup {[t EXCEPT !.hecho = TRUE, !.res = res]}

\* cargarPersonajesDeJugador
Carga(t) ==
  /\ t.op = "lista" /\ ~t.hecho
  /\ tareas' = Hecha(t, IdsDe(t.cli))
  /\ UNCHANGED <<personajes, siguiente, fallos, respuestas, pantalla, historia>>

\* crearPersonaje: nombre is UNIQUE.  The serial id is spent in any case.
Crea(t) ==
  LET libre == \A r \in personajes : r.nombre # t.dato IN
  /\ t.op = "crear" /\ ~t.hecho
  /\ siguiente' = siguiente + 1
  /\ personajes' = IF libre
                   THEN personajes \cup
                          {[id |-> siguiente, jugador_id |-> t.cli, nombre |-> t.dato]}
                   ELSE personajes
  /\ tareas' = Hecha(t, IF libre THEN {siguiente} ELSE {})
  /\ UNCHANGED <<fallos, respuestas, pantalla, historia>>

\* The rows of DELETE ... WHERE id = ? AND jugador_id = ?
Filas(t) == {r \in personajes : r.id = t.dato /\ r.jugador_id = t.cli}

\* eliminarPersonaje
Borra(t) ==
  /\ t.op = "eliminar" /\ ~t.hecho
  /\ personajes' = personajes \ Filas(t)
  /\ tareas' = Hecha(t, {r.id : r \in Filas(t)})
  /\ UNCHANGED <<siguiente, fallos, respuestas, pantalla, historia>>

\* A SQLException: an empty list, or a failure; the statement may have been
\* executed or not.
FallaSQL(t) ==
  /\ ~t.hecho /\ fallos < MaxFallos
  /\ fallos' = fallos + 1
  /\ tareas' = Hecha(t, {})
  /\ \/ UNCHANGED <<personajes, siguiente>>
     \/ /\ t.op = "eliminar"
        /\ personajes' = personajes \ Filas(t)
        /\ UNCHANGED siguiente
     \/ /\ t.op = "crear"
        /\ \A r \in personajes : r.nombre # t.dato
        /\ personajes' = personajes \cup
             {[id |-> siguiente, jugador_id |-> t.cli, nombre |-> t.dato]}
        /\ siguiente' = siguiente + 1
  /\ UNCHANGED <<respuestas, pantalla, historia>>

\* (Mutant: a failed creation or deletion has no reply.)
SinErrores(t) == IF t.op # "lista" /\ t.res = {} THEN <<>> ELSE <<[op |-> t.op, res |-> t.res]>>

\* What the callback sends; res is the list, or not empty when it succeeded.
Contesta(t) == <<[op |-> t.op, res |-> t.res]>>

\* thenAccept
Responde(t) ==
  /\ t.hecho
  /\ tareas' = tareas \ {t}
  /\ respuestas' = [respuestas EXCEPT ![t.cli] = @ \o Contesta(t)]
  /\ UNCHANGED <<personajes, siguiente, fallos, pantalla, historia>>

-----------------------------------------------------------------------------
(* The replies, in the scene on display *)

\* _cargar_lista_desde_servidor: fills the list and leaves the selection as it is.
RecibeLista(c, r) ==
  /\ r.op = "lista" /\ escena[c] = "seleccion"
  /\ lista' = [lista EXCEPT ![c] = r.res]
  /\ UNCHANGED <<tareas, escena, seleccionado, confirmar, historia>>

\* _al_recibir_respuesta_creacion
RecibeCreacion(c, r) ==
  /\ r.op = "crear" /\ escena[c] = "creacion"
  /\ IF r.res # {}
     THEN /\ AbreSeleccion(c)
          /\ creados' = [creados EXCEPT ![c] = @ \cup r.res]
     ELSE /\ confirmar' = [confirmar EXCEPT ![c] = TRUE]
          /\ UNCHANGED <<tareas, escena, lista, seleccionado, creados>>
  /\ UNCHANGED borrados

\* (Mutant: the selection is not reset.)
SigueSeleccionado(c) == seleccionado[c]

\* (Mutant: the selection is reset to 0, which is not "none".)
ACero(c) == 0

TrasBorrar(c) == Ninguno

\* (Mutant: the list is not asked for again.)
SinRecarga(c) == {}

Recarga(c) == {Tarea(c, "lista", Ninguno)}

\* _on_personaje_eliminado_res
RecibeBorrado(c, r) ==
  /\ r.op = "eliminar" /\ escena[c] = "seleccion"
  /\ IF r.res # {}
     THEN /\ seleccionado' = [seleccionado EXCEPT ![c] = TrasBorrar(c)]
          /\ tareas' = tareas \cup Recarga(c)
          /\ borrados' = [borrados EXCEPT ![c] = @ \cup r.res]
     ELSE UNCHANGED <<seleccionado, tareas, borrados>>
  /\ UNCHANGED <<escena, lista, confirmar, creados>>

\* No node of the scene on display listens to the signal.
Ignora(c, r) ==
  /\ \/ r.op \in {"lista", "eliminar"} /\ escena[c] # "seleccion"
     \/ r.op = "crear" /\ escena[c] # "creacion"
  /\ UNCHANGED <<tareas, pantalla, historia>>

\* _procesar_paquete_entrante
Recibe(c) ==
  /\ respuestas[c] # <<>>
  /\ LET r == Head(respuestas[c]) IN
     RecibeLista(c, r) \/ RecibeCreacion(c, r) \/ RecibeBorrado(c, r) \/ Ignora(c, r)
  /\ respuestas' = [respuestas EXCEPT ![c] = Tail(@)]
  /\ UNCHANGED <<personajes, siguiente, fallos>>

-----------------------------------------------------------------------------
Usuario(c) ==
  \/ \E id \in lista[c] : Elige(c, id)
  \/ Elimina(c) \/ IrACrear(c) \/ Vuelve(c) \/ EntraMundo(c) \/ TocaRasgo(c)
  \/ \E n \in Nombres : Confirma(c, n)

Ejecuta(t) == Carga(t) \/ Crea(t) \/ Borra(t) \/ FallaSQL(t) \/ Responde(t)

Next ==
  \/ \E c \in Clientes : Usuario(c) \/ Recibe(c)
  \/ \E t \in tareas : Ejecuta(t)

Spec == Init /\ [][Next]_vars

\* Every task of the pool ends, and every reply arrives.
Justicia ==
  \A c \in Clientes :
    /\ WF_vars(Recibe(c))
    /\ \A op \in {"lista", "crear", "eliminar"}, n \in 1..MaxVuelo :
         WF_vars(\E t \in tareas : t.cli = c /\ t.op = op /\ t.n = n /\ Ejecuta(t))

SpecJusta == Spec /\ Justicia

-----------------------------------------------------------------------------
(* Properties *)

\* Type of each variable, with the bounds of the counters.
TypeOK ==
  /\ personajes \subseteq [id : 1..MaxIds, jugador_id : Clientes, nombre : Nombres]
  /\ siguiente \in 1..(MaxIds + 1)
  /\ \A t \in tareas : /\ t.cli \in Clientes /\ t.n \in 1..MaxVuelo
                       /\ t.res \subseteq 1..MaxIds /\ t.hecho \in BOOLEAN
                       /\ t.op \in {"lista", "crear", "eliminar"}
  /\ \A c \in Clientes :
       /\ escena[c] \in {"seleccion", "creacion", "mundo"}
       /\ lista[c] \subseteq 1..MaxIds
       /\ seleccionado[c] \in 1..MaxIds \cup {Ninguno}
       /\ confirmar[c] \in BOOLEAN
       /\ \A i \in 1..Len(respuestas[c]) : respuestas[c][i].res \subseteq 1..MaxIds
       /\ creados[c] \subseteq 1..MaxIds /\ borrados[c] \subseteq 1..MaxIds
  /\ fallos \in 0..MaxFallos

\* The selection scene of c is not waiting for anything, and the database answered
\* what it did: after a failure the client knows less than the table.
EnCalma(c) == escena[c] = "seleccion" /\ ~Espera(c) /\ fallos = 0

\* With nothing under way, the selected character exists ("Si el borrado es exitoso,
\* resetea la selección ... y recarga la lista"): the next click neither enters the
\* world with a deleted character nor deletes one twice.
SeleccionViva ==
  \A c \in Clientes : EnCalma(c) => seleccionado[c] \in IdsDe(c) \cup {Ninguno}

\* With nothing under way, the list has every character whose creation was
\* confirmed to the user, and none whose deletion was.
ListaAlDia ==
  \A c \in Clientes : EnCalma(c) =>
    /\ creados[c] \ borrados[c] \subseteq lista[c]
    /\ lista[c] \cap borrados[c] = {}

\* A disabled BtnConfirmar with a creation under way is enabled again or the scene
\* left, whatever the database answers.
ConfirmarVuelve ==
  \A c \in Clientes :
    (escena[c] = "creacion" /\ ~confirmar[c] /\ \E t \in DeCliente(c) : t.op = "crear")
      ~> (escena[c] # "creacion" \/ confirmar[c])
=============================================================================
