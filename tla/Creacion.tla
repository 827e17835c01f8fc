------------------------------ MODULE Creacion ------------------------------
(***************************************************************************)
(* What is written on the creation screen, through the wire and the table   *)
(* personajes, up to the list the client shows: the screen of Rasgos with    *)
(* datos_personaje and the name, the packet C_CREAR_PERSONAJE, the insertion *)
(* of crearPersonaje, and the packet S_LISTA_PERSONAJES.                    *)
(*                                                                          *)
(* The wire carries no tags: writer and reader must agree on the order and   *)
(* the type of every field, and the four ends are written apart, in         *)
(* GDScript and Java.  Abstraction: a packet is the sequence of the fields   *)
(* written, each with its type ("i" four bytes, "f" a float, "s" a length    *)
(* and its bytes).  A reader that asks for another type than the next field  *)
(* has lost its place: what it reads from there on is Basura, any value.     *)
(* The insertion and its answer are one step: no other step looks between.   *)
(***************************************************************************)
EXTENDS Rasgos, FiniteSets

CONSTANTS
  Nombres,      \* what the user may type in InputNombre
  Opciones,     \* values of an option of the screen, 1 is the initial one
  Editables,    \* the options the user changes
  MaxFilas      \* bound: characters of the account

ASSUME CreacionAssumption ==
  /\ Nombres \subseteq STRING \ {""}
  /\ 1 \in Opciones /\ Opciones \subseteq Nat
  /\ MaxFilas \in Nat

VARIABLES
  datos,       \* datos_personaje and the text of InputNombre
  paquetes,    \* bytes of each of enviadas, and the datos they were made of
  filas,       \* rows of personajes of this account, in the order of their ids
  pedidas      \* history: what was on the screen when each row was asked for

creacionVars == <<vars, datos, paquetes, filas, pedidas>>

-----------------------------------------------------------------------------
(* The wire format *)

Basura == -1   \* an unspecified value, no count and no field

Campo(nombre, tipo) == [nombre |-> nombre, tipo |-> tipo]

Tipos(campos) == [k \in DOMAIN campos |-> campos[k].tipo]

Cadenas(n) == [k \in 1..n |-> "s"]

\* put_32, put_float, escribir_string_en_buffer; escribirInt, escribirFloat, escribirString
Escribe(campos, valores) ==
  [k \in DOMAIN campos |-> [tipo |-> campos[k].tipo, valor |-> valores[campos[k].nombre]]]

\* A count and that many strings
EscribeConjunto(s) ==
  LET orden == SetToSeq(s)
  IN  <<[tipo |-> "i", valor |-> Len(orden)]>>
        \o [k \in DOMAIN orden |-> [tipo |-> "s", valor |-> orden[k]]]

\* leerInt, leerFloat, leerString; get_32, get_float, _leer_string_de_buffer
Lee(tipos, bytes) ==
  [k \in DOMAIN tipos |->
     IF \A j \in 1..k : j <= Len(bytes) /\ bytes[j].tipo = tipos[j]
     THEN bytes[k].valor ELSE Basura]

\* The values from position desde on, under the names the reader gives them
PorNombre(campos, leidos, desde) ==
  [n \in {c.nombre : c \in Range(campos)} |->
     leidos[desde + (CHOOSE k \in DOMAIN campos : campos[k].nombre = n)]]

Aspecto ==
  <<Campo("genero", "i"), Campo("cuerpo", "i"), Campo("pelo", "i"), Campo("forma_ojos", "i"),
    Campo("altura", "f"), Campo("musculatura", "f"), Campo("edad", "f"),
    Campo("color_piel", "s"), Campo("color_ojos", "s")>>

\* _on_btn_confirmar_pressed, as it writes them
EscritosCrear == <<Campo("nombre", "s")>> \o Aspecto

\* (Mutant: the second and the third float are read in the other order.)
LeidosAlReves ==
  <<Campo("nombre", "s"), Campo("genero", "i"), Campo("cuerpo", "i"), Campo("pelo", "i"),
    Campo("forma_ojos", "i"), Campo("musculatura", "f"), Campo("altura", "f"),
    Campo("edad", "f"), Campo("color_piel", "s"), Campo("color_ojos", "s")>>

\* manejarCreacionPersonaje, as it reads them
LeidosCrear ==
  <<Campo("nombre", "s"), Campo("genero", "i"), Campo("cuerpo", "i"), Campo("pelo", "i"),
    Campo("forma_ojos", "i"), Campo("altura", "f"), Campo("musculatura", "f"),
    Campo("edad", "f"), Campo("color_piel", "s"), Campo("color_ojos", "s")>>

\* manejarPeticionPersonajes, for each character before its traits
EscritosLista ==
  <<Campo("id", "i"), Campo("jugador_id", "i"), Campo("nombre", "s"), Campo("nivel", "i"),
    Campo("pos_x", "f"), Campo("pos_y", "f"), Campo("pos_z", "f")>> \o Aspecto

\* _procesar_paquete_entrante, for each character
LeidosLista ==
  <<Campo("id", "i"), Campo("jugador_id", "i"), Campo("nombre", "s"), Campo("nivel", "i"),
    Campo("pos_x", "f"), Campo("pos_y", "f"), Campo("pos_z", "f"), Campo("genero", "i"),
    Campo("cuerpo", "i"), Campo("pelo", "i"), Campo("forma_ojos", "i"), Campo("altura", "f"),
    Campo("musculatura", "f"), Campo("edad", "f"), Campo("color_piel", "s"),
    Campo("color_ojos", "s")>>

EscribeCreacion(d, s) == Escribe(EscritosCrear, d) \o EscribeConjunto(s)

LeeCreacion(bytes) ==
  LET n == Len(LeidosCrear) + 1
      fijos == Append(Tipos(LeidosCrear), "i")
      rasgos == Lee(fijos \o Cadenas(Lee(fijos, bytes)[n]), bytes)
  IN  [datos |-> PorNombre(LeidosCrear, rasgos, 0), rasgos |-> Range(SubSeq(rasgos, n + 1, Len(rasgos)))]

\* cargarPersonajesDeJugador and the packet it ends in
EscribeLista(fs) ==
  <<[tipo |-> "i", valor |-> Len(fs)]>>
    \o FlattenSeq([i \in DOMAIN fs |->
         Escribe(EscritosLista, fs[i].datos) \o EscribeConjunto(fs[i].rasgos)])

\* The lista that evento_personajes_recibidos carries
LeeLista(bytes) ==
  LET uno == Tipos(LeidosLista)
      n == Lee(<<"i">>, bytes)[1]
      leidos == Lee(<<"i">> \o FlattenSeq([i \in 1..n |-> uno]), bytes)
  IN  [i \in 1..n |-> PorNombre(LeidosLista, leidos, 1 + (i - 1) * Len(uno))]

-----------------------------------------------------------------------------
DatosIniciales ==
  [n \in {c.nombre : c \in Range(EscritosCrear)} |-> IF n = "nombre" THEN "" ELSE 1]

InitCreacion ==
  /\ Init
  /\ datos = DatosIniciales
  /\ paquetes = <<>> /\ filas = <<>> /\ pedidas = <<>>

\* A trait is moved.
MueveRasgo ==
  /\ \E id \in Ids : Elige(id) \/ Devuelve(id)
  /\ UNCHANGED <<datos, paquetes, filas, pedidas>>

\* _actualizar_datos, and typing in InputNombre
ActualizarDatos ==
  /\ \/ \E n \in Nombres : datos' = [datos EXCEPT !["nombre"] = n]
     \/ \E e \in Editables, v \in Opciones : datos' = [datos EXCEPT ![e] = v]
  /\ UNCHANGED <<vars, paquetes, filas, pedidas>>

Pulsa ==
  /\ datos["nombre"] # ""
  /\ Confirma
  /\ paquetes' = Append(paquetes, [bytes |-> EscribeCreacion(datos, elegidos),
                                   pantalla |-> [datos |-> datos, rasgos |-> elegidos]])
  /\ UNCHANGED <<datos, filas, pedidas>>

\* The row of a creation; crearPersonaje adds level 1 and the origin.
Fila(leido) ==
  LET mas == [id |-> Len(filas) + 1, jugador_id |-> 1, nivel |-> 1,
              pos_x |-> 0, pos_y |-> 0, pos_z |-> 0]
  IN  [datos |-> [n \in DOMAIN leido.datos \cup DOMAIN mas |->
                    IF n \in DOMAIN leido.datos THEN leido.datos[n] ELSE mas[n]],
       rasgos |-> leido.rasgos]

\* nombre is UNIQUE.
Libre(n) == \A i \in DOMAIN filas : filas[i].datos["nombre"] # n

Guarda(i) ==
  LET leido == LeeCreacion(paquetes[i].bytes)
  IN  /\ Len(filas) < MaxFilas
      /\ Libre(leido.datos["nombre"])
      /\ filas' = Append(filas, Fila(leido))
      /\ pedidas' = Append(pedidas, paquetes[i].pantalla)

\* manejarCreacionPersonaje and crearPersonaje: the row is stored and the client learns
\* it, or the connection is lost after executeUpdate and it is told of a failure, or
\* nothing is stored.
Crea(i) ==
  /\ \/ Guarda(i) /\ Acepta(i) /\ datos' = DatosIniciales
     \/ Guarda(i) /\ Rechaza(i) /\ UNCHANGED datos
     \/ Rechaza(i) /\ UNCHANGED <<datos, filas, pedidas>>
  /\ paquetes' = RemoveAt(paquetes, i)

VuelveSinCrear ==
  /\ Vuelve
  /\ datos' = DatosIniciales
  /\ UNCHANGED <<paquetes, filas, pedidas>>

NextCreacion ==
  \/ MueveRasgo \/ ActualizarDatos \/ Pulsa \/ VuelveSinCrear
  \/ \E i \in 1..Len(enviadas) : Crea(i)

SpecCreacion == InitCreacion /\ [][NextCreacion]_creacionVars

-----------------------------------------------------------------------------
(* Properties *)

\* Each stored row is what the user had on the screen when its creation was confirmed,
\* whatever was changed on the screen, sent or refused since, and its traits are
\* compatible and paid for: the server checks nothing, it reads and stores.
GuardadoLoElegido ==
  \A i \in DOMAIN filas :
    /\ \A n \in DOMAIN pedidas[i].datos : filas[i].datos[n] = pedidas[i].datos[n]
    /\ filas[i].rasgos = pedidas[i].rasgos
    /\ Compatibles(filas[i].rasgos) /\ Suma(filas[i].rasgos) >= 0

\* "Leemos los 9 atributos estéticos en el mismo orden" (red_global.gd): the list the
\* client reads is the list of the rows.
ListaLeida ==
  LET lista == LeeLista(EscribeLista(filas))
  IN  /\ Len(lista) = Len(filas)
      /\ \A i \in DOMAIN lista : \A n \in DOMAIN lista[i] : lista[i][n] = filas[i].datos[n]
=============================================================================
