-------------------------- MODULE PosicionDurable --------------------------
(***************************************************************************)
(* What the server promises of the positions of the characters: a value    *)
(* that is written in memory, and a row that follows it.  The row only     *)
(* goes forward and never passes the value.  It reaches the value before   *)
(* the character is closed, and reaches each mark (the value at one        *)
(* auto-save) before the next one, as long as the database does not fail   *)
(* too often.  A cut leaves what the rows have.  Nothing is said of        *)
(* sessions, players, objects or tasks.                                    *)
(***************************************************************************)
EXTENDS Integers

CONSTANTS
  Ids,        \* the characters
  Max         \* the largest coordinate

VARIABLES
  valor,      \* last position accepted of each character
  fila,       \* position in its row
  marca,      \* the value at the last mark
  segura,     \* the value at the mark before it, that the row has reached
  abiertos,   \* characters somebody is in the world with, or is still saved
  fallos      \* operations the database has failed

vars == <<valor, fila, marca, segura, abiertos, fallos>>

\* Coordinates are read one by one: a row may have them from two positions.
Punto == [x : 0..Max, y : 0..Max]

Detras(a, b) == a.x <= b.x /\ a.y <= b.y

\* Failures a character survives between its last movement and its release.
Toleradas == 2

Init ==
  /\ valor = [c \in Ids |-> [x |-> 0, y |-> 0]]
  /\ fila = valor /\ marca = valor /\ segura = valor
  /\ abiertos = {} /\ fallos = 0

Abre(c) ==
  /\ c \notin abiertos
  /\ abiertos' = abiertos \cup {c}
  /\ UNCHANGED <<valor, fila, marca, segura, fallos>>

Escribe(c) ==
  /\ c \in abiertos
  /\ \E p \in Punto :
       /\ Detras(valor[c], p) /\ p # valor[c]
       /\ valor' = [valor EXCEPT ![c] = p]
  /\ UNCHANGED <<fila, marca, segura, abiertos, fallos>>

\* The step may be the last one that has to do with c.
QuizaCierra(c) ==
  /\ c \in abiertos
  /\ \/ UNCHANGED abiertos
     \/ /\ abiertos' = abiertos \ {c}
        /\ fallos' <= Toleradas => fila'[c] = valor[c]

Guarda(c) ==
  /\ \E p \in Punto :
       /\ Detras(fila[c], p) /\ Detras(p, valor[c])
       /\ fila' = [fila EXCEPT ![c] = p]
  /\ UNCHANGED <<valor, marca, segura, fallos>>
  /\ QuizaCierra(c)

Falla(c) ==
  /\ fallos' = fallos + 1
  /\ UNCHANGED <<valor, fila, marca, segura>>
  /\ QuizaCierra(c)

Marca ==
  /\ fallos = 0 => \A c \in Ids : Detras(marca[c], fila[c])
  /\ segura' = marca /\ marca' = valor
  /\ UNCHANGED <<valor, fila, abiertos, fallos>>

Corta ==
  /\ valor' = fila /\ marca' = fila /\ segura' = fila
  /\ abiertos' = {}
  /\ UNCHANGED <<fila, fallos>>

Next ==
  \/ \E c \in Ids : Abre(c) \/ Escribe(c) \/ Guarda(c) \/ Falla(c)
  \/ Marca
  \/ Corta

Spec == Init /\ [][Next]_vars

=============================================================================
