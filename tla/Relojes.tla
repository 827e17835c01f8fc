------------------------------- MODULE Relojes -------------------------------
(***************************************************************************)
(* The clock of a KCP engine (Kcp.java, and ikcp.c alike): update, which     *)
(* decides when to flush; the retransmission timer of a segment of snd_buf,  *)
(* with its backoff and the fast resend; and the timer that asks a peer with *)
(* a closed window for it.  Kcp lets flush retransmit and ask at any time;   *)
(* here is when the code does.                                               *)
(*                                                                          *)
(* Times are milliseconds and do not wrap (NumeroSerie).  Each segment of    *)
(* snd_buf has its own timer, so one is followed, from its first             *)
(* transmission to its acknowledgement, and then another.  The clock does    *)
(* not go back.  The engine is configured as the program does:               *)
(* noDelay(1, 10, 2, 1).                                                     *)
(***************************************************************************)
EXTENDS Integers

Interval == 10         \* interval
RxMinRto == 30         \* rx_minrto: IKCP_RTO_NDL
RtoMax == 60000        \* IKCP_RTO_MAX
Resent == 2            \* fastresend
FastLimit == 5         \* fastlimit
ProbeInit == 7000      \* IKCP_PROBE_INIT
ProbeLimit == 120000   \* IKCP_PROBE_LIMIT

VARIABLES
  current, ts_flush,   \* the time of the last update, and when the next flush is due
  rx_rto,              \* retransmission timeout
  rtts,                \* rx_srtt and rx_rttval
  seg,                 \* timer of the segment; xmit is 0 when there is none
  cerrada,             \* rmt_wnd = 0
  ts_probe, probe_wait,
  vaciado,             \* history: time of the last flush
  preguntado           \* history: when the window was seen closed, or asked for, last

sonda == <<ts_probe, probe_wait, preguntado>>
vars == <<current, ts_flush, rx_rto, rtts, seg, cerrada, sonda, vaciado>>

\* resendts, rto, xmit and fastack are the fields of the code; the rest is history: its
\* first timeout, and when it was written first and last.
Temporizador == [resendts : Nat, rto : Nat, xmit : Nat, fastack : Nat,
                 inicial : Nat, primero : Nat, escrito : Nat]

Sin == [resendts |-> 0, rto |-> 0, xmit |-> 0, fastack |-> 0,
        inicial |-> 0, primero |-> 0, escrito |-> 0]

-----------------------------------------------------------------------------
Imin(a, b) == IF a <= b THEN a ELSE b
Imax(a, b) == IF a >= b THEN a ELSE b
Ibound(lower, middle, upper) == Imin(Imax(lower, middle), upper)

Absoluto(x) == IF x < 0 THEN -x ELSE x

\* updateAck
TrasRtt(rtt) ==
  IF rtts.srtt = 0 THEN [srtt |-> rtt, rttval |-> rtt \div 2]
  ELSE [srtt |-> Imax((7 * rtts.srtt + rtt) \div 8, 1),
        rttval |-> (3 * rtts.rttval + Absoluto(rtt - rtts.srtt)) \div 4]

-----------------------------------------------------------------------------
\* The first update, which KcpSession makes when it is created, has flushed nothing.
Init ==
  /\ current \in Nat /\ ts_flush = current + Interval /\ vaciado = current
  /\ rx_rto = 200 /\ rtts = [srtt |-> 0, rttval |-> 0]
  /\ seg = Sin
  /\ cerrada = FALSE /\ ts_probe = 0 /\ probe_wait = 0 /\ preguntado = current

\* The window of the peer, in a flush at time t.
FlushSonda(t) ==
  IF ~cerrada THEN ts_probe' = 0 /\ probe_wait' = 0 /\ UNCHANGED preguntado
  ELSE IF probe_wait = 0
       THEN probe_wait' = ProbeInit /\ ts_probe' = t + ProbeInit /\ preguntado' = t
  ELSE IF t >= ts_probe
       THEN /\ probe_wait' = Imin(Imax(probe_wait, ProbeInit)
                                  + Imax(probe_wait, ProbeInit) \div 2, ProbeLimit)
            /\ ts_probe' = t + probe_wait'
            /\ preguntado' = t
  ELSE UNCHANGED sonda

\* A segment of snd_queue is given a number and written.
Primera(t) ==
  /\ seg.xmit = 0
  /\ seg' = [resendts |-> t + rx_rto, rto |-> rx_rto, xmit |-> 1, fastack |-> 0,
             inicial |-> rx_rto, primero |-> t, escrito |-> t]

\* Its timer is due: it is written again, and waits half as long again.
Reenvia(t) ==
  /\ seg.xmit > 0 /\ t >= seg.resendts
  /\ seg' = [seg EXCEPT !.xmit = @ + 1, !.rto = @ + @ \div 2,
                        !.resendts = t + seg.rto + seg.rto \div 2, !.escrito = t]

\* Later segments have been acknowledged twice.
ReenvioRapido(t) ==
  /\ seg.xmit > 0 /\ t < seg.resendts
  /\ seg.fastack >= Resent /\ seg.xmit <= FastLimit
  /\ seg' = [seg EXCEPT !.xmit = @ + 1, !.fastack = 0, !.resendts = t + seg.rto,
                        !.escrito = t]

\* Nothing is due.
Espera(t) ==
  /\ seg.xmit > 0 => t < seg.resendts /\ ~(seg.fastack >= Resent /\ seg.xmit <= FastLimit)
  /\ UNCHANGED seg

FlushSegmento(t) == Primera(t) \/ Reenvia(t) \/ ReenvioRapido(t) \/ Espera(t)

Flush(t) == FlushSonda(t) /\ FlushSegmento(t) /\ vaciado' = t

\* ts_flush for an update at time t: where it was, or t if it is too far from it.
Base(t) == IF t - ts_flush >= 10000 \/ t - ts_flush < -10000 THEN t ELSE ts_flush

Update(t) ==
  /\ t >= current
  /\ current' = t
  /\ IF t >= Base(t)
     THEN /\ ts_flush' = (IF t >= Base(t) + Interval THEN t ELSE Base(t)) + Interval
          /\ Flush(t)
     ELSE /\ ts_flush' = Base(t)
          /\ UNCHANGED <<seg, sonda, vaciado>>
  /\ UNCHANGED <<rx_rto, rtts, cerrada>>

\* The flush of enviarInterno, after its update.
FlushYa ==
  /\ Flush(current)
  /\ UNCHANGED <<current, ts_flush, rx_rto, rtts, cerrada>>

\* input of an acknowledgement that takes rtt to come: of the segment, of a later one
\* or of another; and of the window the datagram announces.
InputAck(rtt, cierra) ==
  /\ rtts' = TrasRtt(rtt)
  /\ rx_rto' = Ibound(RxMinRto, rtts'.srtt + Imax(Interval, 4 * rtts'.rttval), RtoMax)
  /\ cerrada' = cierra
  /\ \/ seg' = Sin
     \/ seg.xmit > 0 /\ seg' = [seg EXCEPT !.fastack = @ + 1]
     \/ UNCHANGED seg
  /\ UNCHANGED <<current, ts_flush, sonda, vaciado>>

\* input of any other datagram.
Input(cierra) ==
  /\ cerrada' = cierra
  /\ seg' = Sin \/ UNCHANGED seg
  /\ UNCHANGED <<current, ts_flush, rx_rto, rtts, sonda, vaciado>>

Next ==
  \/ \E t \in Nat : Update(t)
  \/ FlushYa
  \/ \E cierra \in BOOLEAN : Input(cierra) \/ \E rtt \in Nat : InputAck(rtt, cierra)

Spec == Init /\ [][Next]_vars

-----------------------------------------------------------------------------
(* Properties *)

\* A segment that has not been acknowledged was written, at the last update, less than
\* this long ago: its first timeout, half its age, and a tick.  The backoff has no limit
\* of its own (IKCP_RTO_MAX bounds rx_rto only), so a connection that was cut for a time
\* is silent for as much as half of it again; and no acknowledgement of other segments
\* puts a timer off without a write.
EsperaProporcional ==
  seg.xmit > 0 =>
    2 * (current - seg.escrito) < 2 * seg.inicial + (seg.escrito - seg.primero) + 2 * Interval

\* While a window is seen closed the peer is asked for it every 120 s at least.
SondaPuntual ==
  probe_wait # 0 => current < preguntado + ProbeLimit + Interval

\* The inductive invariant: no flush is late by an update, none leaves a timer that is
\* due, and half the backoff has been spent waiting.
TypeOK ==
  /\ current \in Nat /\ ts_flush \in Nat /\ vaciado \in Nat /\ preguntado \in Nat
  /\ ts_probe \in Nat /\ probe_wait \in Nat /\ cerrada \in BOOLEAN
  /\ rtts \in [srtt : Nat, rttval : Nat]
  /\ rx_rto \in Nat /\ RxMinRto <= rx_rto /\ rx_rto <= RtoMax
  /\ seg \in Temporizador

FlushAlDia ==
  vaciado <= current /\ current < ts_flush /\ ts_flush <= vaciado + Interval

SegmentoAlDia ==
  seg.xmit > 0 =>
    /\ RxMinRto <= seg.rto /\ seg.inicial <= RtoMax
    /\ seg.primero <= seg.escrito /\ seg.escrito <= current
    /\ seg.resendts = seg.escrito + seg.rto /\ vaciado < seg.resendts
    /\ 2 * (seg.rto - seg.inicial) <= seg.escrito - seg.primero

SondaAlDia ==
  probe_wait # 0 =>
    /\ ProbeInit <= probe_wait /\ probe_wait <= ProbeLimit
    /\ ts_probe = preguntado + probe_wait /\ vaciado < ts_probe
    /\ preguntado <= current

IInv == TypeOK /\ FlushAlDia /\ SegmentoAlDia /\ SondaAlDia
=============================================================================
