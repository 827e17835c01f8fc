----------------------------- MODULE NumeroSerie -----------------------------
(***************************************************************************)
(* The 32-bit numbers of KCP.  Kcp counts segments without end; the code     *)
(* keeps each number in an int (Kcp.java) or an IUINT32 (ikcp.c), which wraps, *)
(* and compares two of them by the sign of their difference.  RelojesProofs *)
(* says when that is the comparison of the numbers Kcp uses.                *)
(***************************************************************************)
EXTENDS Integers

Palabra == 4294967296
Mitad == 2147483648

\* The int that an integer is kept in: two's complement of 32 bits.
AInt(x) == IF x % Palabra >= Mitad THEN (x % Palabra) - Palabra ELSE x % Palabra

\* The range of an int.
EnInt(x) == x \in Int /\ -2147483648 <= x /\ x <= 2147483647

\* itimediff
ITimeDiff(later, earlier) == AInt(later - earlier)

\* The test of parse_data: outside of the receive window.
FueraDeVentana(sn, rcv_nxt, rcv_wnd) ==
  ITimeDiff(sn, AInt(rcv_nxt + rcv_wnd)) >= 0 \/ ITimeDiff(sn, rcv_nxt) < 0
=============================================================================
