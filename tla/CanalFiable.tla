---------------------------- MODULE CanalFiable ----------------------------
(***************************************************************************)
(* What the KCP layer promises to the application in one direction: the    *)
(* messages one side hands to Kcp.send are returned by Kcp.recv on the     *)
(* other side whole, in the same order, each exactly once.  Nothing is     *)
(* said of datagrams, acknowledgements or windows.                         *)
(***************************************************************************)
EXTENDS Naturals, Sequences

CONSTANT Mensajes     \* the application messages that may be sent

VARIABLES
  enviado,            \* every message handed to send, in order
  entregado           \* every message returned by recv, in order

vars == <<enviado, entregado>>

Init ==
  /\ enviado = <<>>
  /\ entregado = <<>>

Enviar ==
  /\ \E m \in Mensajes : enviado' = Append(enviado, m)
  /\ UNCHANGED entregado

Entregar ==
  /\ Len(entregado) < Len(enviado)
  /\ entregado' = Append(entregado, enviado[Len(entregado) + 1])
  /\ UNCHANGED enviado

Next == Enviar \/ Entregar

Spec == Init /\ [][Next]_vars

=============================================================================
