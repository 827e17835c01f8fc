---------------------------- MODULE MCSesionKcp ----------------------------
(* Constants of the model-checking run of SesionKcp. *)
EXTENDS SesionKcp

\* Two messages of a first connection, so that a session can be lost between them,
\* and one of the connection that follows.
DosYUno == <<2, 1>>
=============================================================================
