--------------------------- MODULE RelojesProofs ---------------------------
(***************************************************************************)
(* First, when 32-bit numbers compare as the unbounded numbers they stand    *)
(* for.  Then, with it, what the timers of an engine guarantee, for every    *)
(* sequence of times at which it is updated, every round trip and every loss. *)
(***************************************************************************)
EXTENDS Relojes, NumeroSerie, TLAPS

-----------------------------------------------------------------------------
(* Serial numbers *)

\* The word of a number is the number plus some turns.
LEMMA Vueltas ==
  ASSUME NEW x \in Int
  PROVE  \E k \in Int : AInt(x) = x + k * 4294967296 /\ EnInt(AInt(x))
<1>. DEFINE r == x % 4294967296
            q == x \div 4294967296
<1>1. q \in Int /\ r \in Nat /\ r < 4294967296 /\ x = (q * 4294967296) + r
  BY SMT
<1>2. AInt(x) = IF r >= 2147483648 THEN r - 4294967296 ELSE r
  BY SMT DEF AInt, Palabra, Mitad
<1>. HIDE DEF r, q
<1>3. CASE r >= 2147483648
  <2>1. AInt(x) = x + (-q - 1) * 4294967296 /\ EnInt(AInt(x))
    BY SMT, <1>1, <1>2, <1>3 DEF EnInt
  <2>. QED
    BY SMT, <2>1, <1>1
<1>4. CASE ~(r >= 2147483648)
  <2>1. AInt(x) = x + (-q) * 4294967296 /\ EnInt(AInt(x))
    BY SMT, <1>1, <1>2, <1>4 DEF EnInt
  <2>. QED
    BY SMT, <2>1, <1>1
<1>. QED
  BY SMT, <1>3, <1>4

\* Two numbers less than half a turn apart compare as if they had never wrapped.
THEOREM OrdenSerie ==
  ASSUME NEW a \in Int, NEW b \in Int, EnInt(a - b)
  PROVE  ITimeDiff(AInt(a), AInt(b)) = a - b
<1>1. PICK i \in Int : AInt(a) = a + i * 4294967296 /\ AInt(a) \in Int
  BY SMT, Vueltas
<1>2. PICK j \in Int : AInt(b) = b + j * 4294967296 /\ AInt(b) \in Int
  BY SMT, Vueltas
<1>3. PICK k \in Int : /\ AInt(AInt(a) - AInt(b)) = AInt(a) - AInt(b) + k * 4294967296
                       /\ EnInt(AInt(AInt(a) - AInt(b)))
  BY SMT, <1>1, <1>2, Vueltas
<1>4. AInt(AInt(a) - AInt(b)) = (a - b) + (i - j + k) * 4294967296
  BY SMT, <1>1, <1>2, <1>3 DEF EnInt
<1>5. i - j + k = 0
  BY SMT, <1>1, <1>2, <1>3, <1>4 DEF EnInt
<1>. QED
  BY SMT, <1>4, <1>5 DEF ITimeDiff

\* The receive window of parse_data never lets in a number of another turn: for every
\* window that both codes allow (at most 2^30), a segment less than half a turn from
\* the window is taken if and only if its unbounded number is in it.
THEOREM VentanaSerie ==
  ASSUME NEW sn \in Nat, NEW rcv_nxt \in Nat, NEW rcv_wnd \in Nat, rcv_wnd <= 1073741824,
         -1073741824 <= sn - rcv_nxt, sn - rcv_nxt <= 1073741824
  PROVE  FueraDeVentana(AInt(sn), AInt(rcv_nxt), rcv_wnd)
           <=> ~(sn \in rcv_nxt..(rcv_nxt + rcv_wnd - 1))
<1>1. ITimeDiff(AInt(sn), AInt(rcv_nxt)) = sn - rcv_nxt
  BY SMT, OrdenSerie DEF EnInt
<1>2. AInt(AInt(rcv_nxt) + rcv_wnd) = AInt(rcv_nxt + rcv_wnd)
  <2>1. PICK i \in Int : AInt(rcv_nxt) = rcv_nxt + i * 4294967296
    BY SMT, Vueltas
  <2>2. (AInt(rcv_nxt) + rcv_wnd) % 4294967296 = (rcv_nxt + rcv_wnd) % 4294967296
    BY SMT, <2>1
  <2>. QED
    BY SMT, <2>2 DEF AInt, Palabra
<1>3. ITimeDiff(AInt(sn), AInt(rcv_nxt + rcv_wnd)) = sn - (rcv_nxt + rcv_wnd)
  BY SMT, OrdenSerie DEF EnInt
<1>. QED
  BY SMT, <1>1, <1>2, <1>3 DEF FueraDeVentana

-----------------------------------------------------------------------------
(* The timers *)

\* updateAck keeps rx_rto within its bounds.
LEMMA AckAcotado ==
  ASSUME IInv, NEW rtt \in Nat, NEW cierra \in BOOLEAN, InputAck(rtt, cierra)
  PROVE  /\ rtts' \in [srtt : Nat, rttval : Nat]
         /\ rx_rto' \in Nat /\ RxMinRto <= rx_rto' /\ rx_rto' <= RtoMax
<1>1. rtts.srtt \in Nat /\ rtts.rttval \in Nat
  BY DEF IInv, TypeOK
<1>2. (7 * rtts.srtt + rtt) \div 8 \in Nat /\ rtt \div 2 \in Nat
  BY <1>1, SMT
<1>3. Absoluto(rtt - rtts.srtt) \in Nat
  BY <1>1, SMT DEF Absoluto
<1>4. (3 * rtts.rttval + Absoluto(rtt - rtts.srtt)) \div 4 \in Nat
  BY <1>1, <1>3, SMT
<1>5. Imax((7 * rtts.srtt + rtt) \div 8, 1) \in Nat
  BY <1>2, SMT DEF Imax
<1>6. TrasRtt(rtt) \in [srtt : Nat, rttval : Nat]
  BY <1>2, <1>4, <1>5 DEF TrasRtt
<1>7. rtts' \in [srtt : Nat, rttval : Nat]
  BY <1>6 DEF InputAck
<1>8. rtts'.srtt + Imax(Interval, 4 * rtts'.rttval) \in Nat
  BY <1>7, SMT DEF Imax, Interval
<1>9. rx_rto' = Ibound(RxMinRto, rtts'.srtt + Imax(Interval, 4 * rtts'.rttval), RtoMax)
  BY DEF InputAck
<1>. QED
  BY <1>7, <1>8, <1>9, SMT DEF Ibound, Imin, Imax, RxMinRto, RtoMax

\* The part of IInv about the segment, and that about the window, after a flush at t.
TrasFlush(t) ==
  /\ seg' \in Temporizador
  /\ seg'.xmit > 0 =>
       /\ RxMinRto <= seg'.rto /\ seg'.inicial <= RtoMax
       /\ seg'.primero <= seg'.escrito /\ seg'.escrito <= t
       /\ seg'.resendts = seg'.escrito + seg'.rto /\ t < seg'.resendts
       /\ 2 * (seg'.rto - seg'.inicial) <= seg'.escrito - seg'.primero

SondaTrasFlush(t) ==
  /\ ts_probe' \in Nat /\ probe_wait' \in Nat /\ preguntado' \in Nat
  /\ probe_wait' # 0 =>
       /\ ProbeInit <= probe_wait' /\ probe_wait' <= ProbeLimit
       /\ ts_probe' = preguntado' + probe_wait' /\ t < ts_probe'
       /\ preguntado' <= t

\* No flush leaves the segment due, and what its timeout has grown is half of what it
\* has waited.
LEMMA FlushSegmentoBien ==
  ASSUME IInv, NEW t \in Nat, t >= current, FlushSegmento(t)
  PROVE  TrasFlush(t)
<1>1. CASE Primera(t)
  BY <1>1, SMT DEF Primera, TrasFlush, IInv, TypeOK, Temporizador, RxMinRto
<1>2. CASE Reenvia(t)
  <2>1. /\ seg'.resendts = t + seg.rto + seg.rto \div 2
        /\ seg'.rto = seg.rto + seg.rto \div 2
        /\ seg'.escrito = t /\ seg'.primero = seg.primero /\ seg'.inicial = seg.inicial
        /\ seg'.fastack = seg.fastack /\ seg'.xmit = seg.xmit + 1
    BY <1>2 DEF Reenvia, IInv, TypeOK, Temporizador
  <2>2. /\ seg.rto \in Nat /\ seg.inicial \in Nat /\ seg.primero \in Nat
        /\ seg.escrito \in Nat /\ seg.xmit \in Nat /\ seg.fastack \in Nat
    BY DEF IInv, TypeOK, Temporizador
  <2>3. /\ 30 <= seg.rto /\ seg.inicial <= RtoMax /\ seg.primero <= seg.escrito
        /\ t >= seg.escrito + seg.rto
        /\ 2 * (seg.rto - seg.inicial) <= seg.escrito - seg.primero
    BY <1>2 DEF Reenvia, IInv, SegmentoAlDia, RxMinRto
  <2>4. PICK q \in Nat : q = seg.rto \div 2 /\ 2 * q <= seg.rto
    BY <2>2, SMT
  <2>5. seg' \in Temporizador
    <3>1. t + seg.rto + seg.rto \div 2 \in Nat /\ seg.rto + seg.rto \div 2 \in Nat
          /\ seg.xmit + 1 \in Nat
      BY <2>2, <2>4, SMT
    <3>. QED
      BY <1>2, <3>1 DEF Reenvia, IInv, TypeOK, Temporizador
  <2>6. /\ 30 <= seg'.rto /\ seg'.primero <= seg'.escrito
        /\ seg'.resendts = seg'.escrito + seg'.rto /\ t < seg'.resendts
        /\ 2 * (seg'.rto - seg'.inicial) <= seg'.escrito - seg'.primero
    BY <2>1, <2>2, <2>3, <2>4, SMT
  <2>. QED
    BY <2>1, <2>3, <2>5, <2>6, SMT DEF TrasFlush, RxMinRto
<1>3. CASE ReenvioRapido(t)
  <2>1. /\ seg'.resendts = t + seg.rto /\ seg'.rto = seg.rto
        /\ seg'.escrito = t /\ seg'.primero = seg.primero /\ seg'.inicial = seg.inicial
    BY <1>3 DEF ReenvioRapido, IInv, TypeOK, Temporizador
  <2>2. /\ seg.rto \in Nat /\ seg.inicial \in Nat /\ seg.primero \in Nat
        /\ seg.escrito \in Nat /\ seg.xmit \in Nat /\ current \in Nat
    BY DEF IInv, TypeOK, Temporizador
  <2>3. /\ 30 <= seg.rto /\ seg.inicial <= RtoMax /\ seg.primero <= seg.escrito
        /\ seg.escrito <= current
        /\ 2 * (seg.rto - seg.inicial) <= seg.escrito - seg.primero
    BY <1>3 DEF ReenvioRapido, IInv, SegmentoAlDia, RxMinRto
  <2>4. seg' \in Temporizador
    <3>1. t + seg.rto \in Nat /\ seg.xmit + 1 \in Nat /\ 0 \in Nat
      BY <2>2, SMT
    <3>. QED
      BY <1>3, <3>1 DEF ReenvioRapido, IInv, TypeOK, Temporizador
  <2>5. /\ seg'.primero <= seg'.escrito
        /\ seg'.resendts = seg'.escrito + seg'.rto /\ t < seg'.resendts
        /\ 2 * (seg'.rto - seg'.inicial) <= seg'.escrito - seg'.primero
    BY <2>1, <2>2, <2>3, SMT
  <2>. QED
    BY <2>1, <2>3, <2>4, <2>5, SMT DEF TrasFlush, RxMinRto
<1>4. CASE Espera(t)
  BY <1>4, SMT DEF Espera, TrasFlush, IInv, TypeOK, SegmentoAlDia, Temporizador
<1>. QED
  BY <1>1, <1>2, <1>3, <1>4 DEF FlushSegmento

\* Nor is the question due after it.
LEMMA FlushSondaBien ==
  ASSUME IInv, NEW t \in Nat, t >= current, FlushSonda(t)
  PROVE  SondaTrasFlush(t)
<1>1. CASE ~cerrada
  BY <1>1, SMT DEF FlushSonda, SondaTrasFlush, IInv, TypeOK
<1>2. CASE cerrada /\ probe_wait = 0
  BY <1>2, SMT DEF FlushSonda, SondaTrasFlush, ProbeInit, ProbeLimit
<1>3. CASE cerrada /\ probe_wait # 0 /\ t >= ts_probe
  <2>1. /\ probe_wait' = Imin(Imax(probe_wait, ProbeInit)
                              + Imax(probe_wait, ProbeInit) \div 2, ProbeLimit)
        /\ ts_probe' = t + probe_wait' /\ preguntado' = t
    BY <1>3 DEF FlushSonda
  <2>2. Imax(probe_wait, ProbeInit) \in Nat /\ Imax(probe_wait, ProbeInit) >= 7000
    BY SMT DEF IInv, TypeOK, Imax, ProbeInit
  <2>3. Imax(probe_wait, ProbeInit) \div 2 \in Nat
    BY <2>2, SMT
  <2>4. probe_wait' \in Nat /\ 7000 <= probe_wait' /\ probe_wait' <= 120000
    BY <2>1, <2>2, <2>3, SMT DEF Imin, ProbeLimit
  <2>. QED
    BY <2>1, <2>4, SMT DEF SondaTrasFlush, ProbeInit, ProbeLimit
<1>4. CASE cerrada /\ probe_wait # 0 /\ ~(t >= ts_probe)
  BY <1>4, SMT DEF FlushSonda, SondaTrasFlush, IInv, TypeOK, SondaAlDia, sonda
<1>. QED
  BY <1>1, <1>2, <1>3, <1>4

\* Every step keeps the invariant.
LEMMA PasoIInv == IInv /\ [Next]_vars => IInv'
<1>. SUFFICES ASSUME IInv, [Next]_vars PROVE IInv'
  OBVIOUS
<1>1. ASSUME NEW t \in Nat, Update(t) PROVE IInv'
  <2>1. t >= current /\ current' = t /\ rx_rto' = rx_rto /\ rtts' = rtts /\ cerrada' = cerrada
    BY <1>1 DEF Update
  <2>2. CASE t >= Base(t)
    <3>1. /\ ts_flush' = (IF t >= Base(t) + Interval THEN t ELSE Base(t)) + Interval
          /\ Flush(t)
      BY <1>1, <2>2 DEF Update
    <3>2. TrasFlush(t) /\ SondaTrasFlush(t) /\ vaciado' = t
      BY <2>1, <3>1, FlushSegmentoBien, FlushSondaBien DEF Flush
    <3>3. Base(t) \in Nat
      BY DEF Base, IInv, TypeOK
    <3>4. ts_flush' \in Nat /\ t < ts_flush' /\ ts_flush' <= t + Interval
      BY <2>2, <3>1, <3>3, SMT DEF Interval
    <3>5. cerrada' \in BOOLEAN /\ rtts' \in [srtt : Nat, rttval : Nat] /\ rx_rto' \in Nat
          /\ RxMinRto <= rx_rto' /\ rx_rto' <= RtoMax
      BY <2>1 DEF IInv, TypeOK
    <3>6. TypeOK'
      BY <2>1, <3>2, <3>4, <3>5 DEF TypeOK, TrasFlush, SondaTrasFlush
    <3>7. FlushAlDia'
      BY <2>1, <3>2, <3>4, SMT DEF FlushAlDia
    <3>8. SegmentoAlDia'
      BY <2>1, <3>2 DEF SegmentoAlDia, TrasFlush
    <3>9. SondaAlDia'
      BY <2>1, <3>2 DEF SondaAlDia, SondaTrasFlush
    <3>. QED
      BY <3>6, <3>7, <3>8, <3>9 DEF IInv
  <2>3. CASE ~(t >= Base(t))
    <3>1. ts_flush' = Base(t) /\ UNCHANGED <<seg, sonda, vaciado>>
      BY <1>1, <2>3 DEF Update
    <3>2. Base(t) = ts_flush /\ t < ts_flush
      BY <2>3, SMT DEF Base, IInv, TypeOK
    <3>. QED
      BY <2>1, <3>1, <3>2, SMT DEF IInv, TypeOK, FlushAlDia, SegmentoAlDia, SondaAlDia,
         Temporizador, sonda
  <2>. QED
    BY <2>2, <2>3
<1>2. CASE FlushYa
  <2>1. current \in Nat
    BY DEF IInv, TypeOK
  <2>2. /\ TrasFlush(current) /\ SondaTrasFlush(current) /\ vaciado' = current
        /\ UNCHANGED <<current, ts_flush, rx_rto, rtts, cerrada>>
    BY <1>2, <2>1, FlushSegmentoBien, FlushSondaBien DEF FlushYa, Flush
  <2>3. /\ ts_flush \in Nat /\ current < ts_flush /\ ts_flush <= current + Interval
        /\ cerrada \in BOOLEAN /\ rtts \in [srtt : Nat, rttval : Nat] /\ rx_rto \in Nat
        /\ RxMinRto <= rx_rto /\ rx_rto <= RtoMax
    BY SMT DEF IInv, TypeOK, FlushAlDia, Interval
  <2>4. TypeOK'
    BY <2>1, <2>2, <2>3 DEF TypeOK, TrasFlush, SondaTrasFlush
  <2>5. FlushAlDia'
    BY <2>1, <2>2, <2>3, SMT DEF FlushAlDia
  <2>6. SegmentoAlDia'
    BY <2>2 DEF SegmentoAlDia, TrasFlush
  <2>7. SondaAlDia'
    BY <2>2 DEF SondaAlDia, SondaTrasFlush
  <2>. QED
    BY <2>4, <2>5, <2>6, <2>7 DEF IInv
<1>3. ASSUME NEW cierra \in BOOLEAN, Input(cierra) PROVE IInv'
  <2>1. CASE seg' = Sin
    BY <1>3, <2>1, SMT DEF Input, IInv, TypeOK, FlushAlDia, SegmentoAlDia, SondaAlDia,
       Temporizador, Sin, sonda
  <2>2. CASE UNCHANGED seg
    BY <1>3, <2>2 DEF Input, IInv, TypeOK, FlushAlDia, SegmentoAlDia, SondaAlDia, sonda
  <2>. QED
    BY <1>3, <2>1, <2>2 DEF Input
<1>4. ASSUME NEW cierra \in BOOLEAN, NEW rtt \in Nat, InputAck(rtt, cierra) PROVE IInv'
  <2>1. /\ rtts' \in [srtt : Nat, rttval : Nat]
        /\ rx_rto' \in Nat /\ RxMinRto <= rx_rto' /\ rx_rto' <= RtoMax
    BY <1>4, AckAcotado
  <2>2. cerrada' \in BOOLEAN /\ UNCHANGED <<current, ts_flush, sonda, vaciado>>
    BY <1>4 DEF InputAck
  <2>3. CASE seg' = Sin
    BY <2>1, <2>2, <2>3, SMT DEF IInv, TypeOK, FlushAlDia, SegmentoAlDia, SondaAlDia,
       Temporizador, Sin, sonda
  <2>4. CASE seg.xmit > 0 /\ seg' = [seg EXCEPT !.fastack = @ + 1]
    BY <2>1, <2>2, <2>4, SMT DEF IInv, TypeOK, FlushAlDia, SegmentoAlDia, SondaAlDia,
       Temporizador, sonda
  <2>5. CASE UNCHANGED seg
    BY <2>1, <2>2, <2>5 DEF IInv, TypeOK, FlushAlDia, SegmentoAlDia, SondaAlDia, sonda
  <2>. QED
    BY <1>4, <2>3, <2>4, <2>5 DEF InputAck
<1>5. CASE UNCHANGED vars
  BY <1>5 DEF vars, IInv, TypeOK, FlushAlDia, SegmentoAlDia, SondaAlDia, sonda
<1>. QED
  BY <1>1, <1>2, <1>3, <1>4, <1>5 DEF Next

\* The invariant holds.
THEOREM RelojesCorrectos == Spec => []IInv
<1>1. ASSUME Init PROVE IInv
  <2>1. Sin \in Temporizador /\ ~(Sin.xmit > 0)
    BY SMT DEF Sin, Temporizador
  <2>2. [srtt |-> 0, rttval |-> 0] \in [srtt : Nat, rttval : Nat]
    OBVIOUS
  <2>3. TypeOK
    <3>1. rx_rto \in Nat /\ RxMinRto <= rx_rto /\ rx_rto <= RtoMax /\ ts_flush \in Nat
      BY <1>1, SMT DEF Init, Interval, RxMinRto, RtoMax
    <3>. QED
      BY <1>1, <2>1, <2>2, <3>1 DEF Init, TypeOK
  <2>4. FlushAlDia
    BY <1>1, SMT DEF Init, FlushAlDia, Interval
  <2>5. SegmentoAlDia /\ SondaAlDia
    BY <1>1, <2>1 DEF Init, SegmentoAlDia, SondaAlDia
  <2>. QED
    BY <2>3, <2>4, <2>5 DEF IInv
<1>. QED
  BY <1>1, PasoIInv, PTL DEF Spec

\* A segment is written again within its first timeout, half its age and a tick.
THEOREM EsperaSiempreProporcional == Spec => []EsperaProporcional
<1>1. IInv => EsperaProporcional
  BY SMT DEF IInv, TypeOK, FlushAlDia, SegmentoAlDia, Temporizador, EsperaProporcional,
     Interval
<1>. QED
  BY <1>1, RelojesCorrectos, PTL

\* While the window is closed the peer is asked for it every 120 s at least.
THEOREM SondaSiemprePuntual == Spec => []SondaPuntual
<1>1. IInv => SondaPuntual
  BY SMT DEF IInv, TypeOK, FlushAlDia, SondaAlDia, SondaPuntual, Interval, ProbeLimit
<1>. QED
  BY <1>1, RelojesCorrectos, PTL

\* The code keeps times in 32 bits, which wrap every 49 days, and looks at the sign of
\* their difference: while the segment is less than 12 days old, the next update sees
\* its timer as it is.
RelojFiel ==
  [][ seg.xmit > 0 /\ current' - seg.primero <= 1073741824
        => ITimeDiff(AInt(current'), AInt(seg.resendts)) = current' - seg.resendts ]_vars

\* The wrap of the clock is harmless whenever the engine is created.
THEOREM RelojSiempreFiel == Spec => RelojFiel
<1>1. ASSUME IInv, IInv', [Next]_vars, seg.xmit > 0, current' - seg.primero <= 1073741824
      PROVE  ITimeDiff(AInt(current'), AInt(seg.resendts)) = current' - seg.resendts
  <2>1. current \in Nat /\ current' \in Nat /\ seg.resendts \in Nat
    BY <1>1 DEF IInv, TypeOK, Temporizador
  <2>2. current' >= current
    BY <1>1, <2>1, SMT DEF Next, Update, FlushYa, Input, InputAck, vars
  <2>3. -2147483648 <= current' - seg.resendts /\ current' - seg.resendts <= 2147483647
    BY <1>1, <2>1, <2>2, SMT DEF IInv, TypeOK, SegmentoAlDia, Temporizador, RtoMax
  <2>4. current' \in Int /\ seg.resendts \in Int /\ EnInt(current' - seg.resendts)
    BY <2>1, <2>3, SMT DEF EnInt
  <2>. QED
    BY <2>4, OrdenSerie
<1>. QED
  BY <1>1, RelojesCorrectos, PasoIInv, PTL DEF Spec, RelojFiel
=============================================================================
