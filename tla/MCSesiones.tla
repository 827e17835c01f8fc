----------------------------- MODULE MCSesiones -----------------------------
(* Constants of the model-checking runs of Sesiones: who uses which address. *)
EXTENDS Sesiones

\* One user with two characters, always at the same address.
UnaCuenta == [d \in Dirs |-> 1]
DeLaMisma == [c \in Ids |-> 1]

\* Two users, each with a character.
CadaUnoLaSuya == [d \in Dirs |-> d]
DeCadaUno == [c \in Ids |-> c]
=============================================================================
