------------------------------- MODULE MCKcp -------------------------------
(* Constants of the model-checking runs of Kcp: the pieces each side may send. *)
EXTENDS Kcp

\* Only the client sends: three pieces, so that a message of two fragments waits
\* behind or ahead of another one, in a window of two.
TrozosIda == [p \in Peers |-> IF p = Cliente THEN 3 ELSE 0]

\* Only the server sends: the second piece waits for the window of one to open again.
TrozosVuelta == [p \in Peers |-> IF p = Servidor THEN 2 ELSE 0]
=============================================================================
