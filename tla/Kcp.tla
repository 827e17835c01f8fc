-------------------------------- MODULE Kcp --------------------------------
(***************************************************************************)
(* The KCP engine of the server (red/kcp/Kcp.java, the port of the client's*)
(* ikcp.c) run by two peers over UDP.  Each peer is one Kcp object with its*)
(* send side (snd_queue, snd_buf, snd_una, snd_nxt, rmt_wnd) and its       *)
(* receive side (rcv_buf, rcv_queue, rcv_nxt, acklist, probe); the four    *)
(* actions are its four entry points: send, recv, input and flush.         *)
(*                                                                         *)
(* Abstractions.                                                           *)
(*  - A piece of at most mss bytes is one value: its position in the       *)
(*    stream of its sender.  The engine never looks inside the data.       *)
(*  - A datagram is one segment: splitting the segments flush packs in a   *)
(*    datagram only adds losses and orders.                                *)
(*  - The network red[p] is a set of segments on their way to p.  Input    *)
(*    takes any of them (reordering) and leaves it there (duplication);    *)
(*    Pierde drops one for good (loss).                                    *)
(*  - The clock is left out: a retransmission (RTO or fast resend) of any  *)
(*    segment of snd_buf, and a window probe while rmt_wnd = 0, may be part*)
(*    of any flush.  Congestion control is left out because KcpSession and *)
(*    kcp_client.cpp both set nocwnd = 1, which makes flush ignore cwnd.   *)
(*  - snd_buf and rcv_buf are lists sorted by sn without repetitions; they *)
(*    are modelled as sets.  Sequence numbers do not wrap here.            *)
(***************************************************************************)
EXTENDS Integers, Sequences, FiniteSets

CONSTANTS
  Cliente, Servidor,   \* the two peers
  SndWnd,              \* snd_wnd
  RcvWnd,              \* rcv_wnd
  RmtWndIni,           \* rmt_wnd before the first segment of the remote peer
  MaxFrag,             \* fragments of the longest message send accepts
  MaxTrozos,           \* bound: pieces each peer may send in all
  MaxRed               \* bound: distinct segments on their way to one peer

Peers == {Cliente, Servidor}
Otro(p) == IF p = Cliente THEN Servidor ELSE Cliente

\* wndSize: rcv_wnd = max(rcvwnd, IKCP_WND_RCV), rmt_wnd starts as IKCP_WND_RCV and
\* send refuses a message of IKCP_WND_RCV fragments or more.
ASSUME KcpAssumption ==
  /\ Cliente # Servidor
  /\ SndWnd \in Nat \ {0}
  /\ RcvWnd \in Nat \ {0}
  /\ RmtWndIni \in 0..RcvWnd
  /\ MaxFrag \in 1..RcvWnd
  /\ MaxTrozos \in [Peers -> Nat]
  /\ MaxRed \in Nat

VARIABLES
  snd_queue,   \* pieces handed to send that have no sequence number yet
  snd_buf,     \* segments sent and not acknowledged
  snd_una,     \* first unacknowledged sequence number
  snd_nxt,     \* next sequence number to assign
  rmt_wnd,     \* last window advertised by the remote peer
  rcv_nxt,     \* next sequence number to move to rcv_queue
  rcv_buf,     \* segments received out of order, or while rcv_queue was full
  rcv_queue,   \* segments in order, not yet returned by recv
  acklist,     \* sequence numbers to acknowledge in the next flush
  probe,       \* IKCP_ASK_TELL: advertise the window in the next flush
  red,         \* red[p]: segments sent to p
  enviados,    \* history: messages handed to send
  entregados   \* history: messages returned by recv

sndVars == <<snd_queue, snd_buf, snd_una, snd_nxt, rmt_wnd>>
rcvVars == <<rcv_nxt, rcv_buf, rcv_queue, acklist, probe>>
historia == <<enviados, entregados>>
vars == <<sndVars, rcvVars, red, historia>>

Trozo == [frg : 0..(MaxFrag - 1), dato : Nat]
Segmento == [sn : Nat, frg : 0..(MaxFrag - 1), dato : Nat]

\* What goes on the wire: every segment carries the una and wnd of who sent it.
Push == [cmd : {"PUSH"}, sn : Nat, frg : 0..(MaxFrag - 1), dato : Nat,
         una : Nat, wnd : 0..RcvWnd]
Ack == [cmd : {"ACK"}, sn : Nat, una : Nat, wnd : 0..RcvWnd]
Sonda == [cmd : {"WASK", "WINS"}, una : Nat, wnd : 0..RcvWnd]

-----------------------------------------------------------------------------
(* Helpers of the engine *)

\* Pieces p has handed to send so far: the position of its next piece.
Total(p) ==
  IF enviados[p] = <<>> THEN 0
  ELSE LET m == enviados[p][Len(enviados[p])] IN m[1] + Len(m)

\* (Mutant: fragments numbered from n down to 1, so the last one is not 0.)
FragmentosSinCero(d, n) == [i \in 1..n |-> [frg |-> n - i + 1, dato |-> d + i - 1]]

\* The pieces of a message of n of them that starts at d, numbered backwards.
Fragmentos(d, n) == [i \in 1..n |-> [frg |-> n - i, dato |-> d + i - 1]]

\* (Mutant: the tail of snd_buf instead of its head.)
CabezaAlFinal(buf, nxt) ==
  IF buf = {} THEN nxt
  ELSE CHOOSE n \in {x.sn : x \in buf} : \A x \in buf : n >= x.sn

\* shrinkBuf: the sequence number at the head of snd_buf, or snd_nxt if it is empty.
Cabeza(buf, nxt) ==
  IF buf = {} THEN nxt
  ELSE CHOOSE n \in {x.sn : x \in buf} : \A x \in buf : n <= x.sn

\* (Mutant: una itself is taken for acknowledged.)
TrasUnaInclusive(buf, una) == {x \in buf : x.sn > una}

\* parseUna: drop everything below una.
TrasUna(buf, una) == {x \in buf : x.sn >= una}

\* parseAck: drop the segment sn, unless sn is outside snd_una..snd_nxt - 1.
TrasAck(buf, sn, una, nxt) ==
  IF sn < una \/ sn >= nxt THEN buf ELSE {x \in buf : x.sn # sn}

\* parseData inserts a segment unless one with its sn is already there.
Inserta(buf, seg) ==
  IF \E x \in buf : x.sn = seg.sn THEN buf ELSE buf \cup {seg}

\* The loop that moves segments from rcv_buf to rcv_queue, with room for hueco
\* of them, stops at n: it took nxt..n-1, and n is missing or there is no room.
ParaEn(buf, nxt, hueco, n) ==
  /\ n >= nxt /\ n <= nxt + hueco
  /\ \A k \in nxt..(n - 1) : \E x \in buf : x.sn = k
  /\ n = nxt + hueco \/ \A x \in buf : x.sn # n

Tramo(buf, nxt, n) ==
  [i \in 1..(n - nxt) |-> CHOOSE x \in buf : x.sn = nxt + i - 1]

\* (Mutant: one place more than there is.)
VentanaDeMas(p) ==
  IF Len(rcv_queue[p]) <= RcvWnd THEN RcvWnd - Len(rcv_queue[p]) + 1 ELSE 0

\* wndUnused
VentanaLibre(p) ==
  IF Len(rcv_queue[p]) < RcvWnd THEN RcvWnd - Len(rcv_queue[p]) ELSE 0

\* (Mutant: a segment that has already passed is not acknowledged again.)
SinRepetidos(p, sn) == sn >= rcv_nxt[p] /\ sn < rcv_nxt[p] + RcvWnd

\* input acknowledges a segment of the window or before it,
EnVentana(p, sn) == sn < rcv_nxt[p] + RcvWnd

\* and parseData keeps it if it is not before.
Aceptable(p, sn) == sn >= rcv_nxt[p] /\ sn < rcv_nxt[p] + RcvWnd

\* (Mutant: recv does not wait for the rest of the message.)
HayAlgo(cola) == cola # <<>>

\* peekSize: the message at the head of rcv_queue is complete.
HayMensaje(cola) == cola # <<>> /\ Len(cola) >= Head(cola).frg + 1

Minimo(a, b) == IF a <= b THEN a ELSE b

\* (Mutant: the window counted from snd_nxt.)
TopeDesdeNxt(p) == snd_nxt[p] + Minimo(SndWnd, rmt_wnd[p])

\* The sequence number flush stops at: snd_una + min(snd_wnd, rmt_wnd).
Tope(p) == snd_una[p] + Minimo(SndWnd, rmt_wnd[p])

\* How many pieces of snd_queue flush sends for the first time,
Cuantos(p) ==
  IF Tope(p) <= snd_nxt[p] THEN 0
  ELSE Minimo(Tope(p) - snd_nxt[p], Len(snd_queue[p]))

\* (Mutant: the last pieces of snd_queue instead of the first.)
NuevosDelFinal(p) ==
  LET n == Len(snd_queue[p]) IN
  {[sn |-> snd_nxt[p] + i - 1, frg |-> snd_queue[p][n - i + 1].frg,
    dato |-> snd_queue[p][n - i + 1].dato] : i \in 1..Cuantos(p)}

\* and the segments it makes of them.
Nuevos(p) ==
  {[sn |-> snd_nxt[p] + i - 1, frg |-> snd_queue[p][i].frg,
    dato |-> snd_queue[p][i].dato] : i \in 1..Cuantos(p)}

\* What flush puts on the wire: acklist, the probe bits and the segments of datos.
Salida(p, datos, pregunta) ==
  LET una == rcv_nxt[p]
      wnd == VentanaLibre(p)
      sondas == (IF pregunta THEN {"WASK"} ELSE {}) \cup (IF probe[p] THEN {"WINS"} ELSE {})
  IN
  {[cmd |-> "ACK", sn |-> k, una |-> una, wnd |-> wnd] : k \in acklist[p]}
  \cup {[cmd |-> c, una |-> una, wnd |-> wnd] : c \in sondas}
  \cup {[cmd |-> "PUSH", sn |-> x.sn, frg |-> x.frg, dato |-> x.dato,
         una |-> una, wnd |-> wnd] : x \in datos}

-----------------------------------------------------------------------------
Init ==
  /\ snd_queue = [p \in Peers |-> <<>>]
  /\ snd_buf = [p \in Peers |-> {}]
  /\ snd_una = [p \in Peers |-> 0]
  /\ snd_nxt = [p \in Peers |-> 0]
  /\ rmt_wnd = [p \in Peers |-> RmtWndIni]
  /\ rcv_nxt = [p \in Peers |-> 0]
  /\ rcv_buf = [p \in Peers |-> {}]
  /\ rcv_queue = [p \in Peers |-> <<>>]
  /\ acklist = [p \in Peers |-> {}]
  /\ probe = [p \in Peers |-> FALSE]
  /\ red = [p \in Peers |-> {}]
  /\ enviados = [p \in Peers |-> <<>>]
  /\ entregados = [p \in Peers |-> <<>>]

\* send: cut a message of n pieces into n fragments at the tail of snd_queue.
Send(p, n) ==
  /\ Total(p) + n <= MaxTrozos[p]
  /\ snd_queue' = [snd_queue EXCEPT ![p] =
       @ \o Fragmentos(Total(p), n)]
  /\ enviados' = [enviados EXCEPT ![p] =
       Append(@, [i \in 1..n |-> Total(p) + i - 1])]
  /\ UNCHANGED <<snd_buf, snd_una, snd_nxt, rmt_wnd, rcvVars, red, entregados>>

\* recv: return the message at the head of rcv_queue if all of it is there
\* (peekSize), refill rcv_queue, and advertise the window if it was closed.
Recv(p) ==
  LET cola == rcv_queue[p] IN
  /\ HayMensaje(cola)
  /\ \E k \in 1..Len(cola), n \in rcv_nxt[p]..(rcv_nxt[p] + RcvWnd) :
       LET resto == SubSeq(cola, k + 1, Len(cola)) IN
       /\ \A j \in 1..(k - 1) : cola[j].frg # 0
       /\ cola[k].frg = 0 \/ k = Len(cola)
       /\ ParaEn(rcv_buf[p], rcv_nxt[p], RcvWnd - Len(resto), n)
       /\ entregados' = [entregados EXCEPT ![p] =
            Append(@, [i \in 1..k |-> cola[i].dato])]
       /\ rcv_queue' = [rcv_queue EXCEPT ![p] =
            resto \o Tramo(rcv_buf[p], rcv_nxt[p], n)]
       /\ rcv_buf' = [rcv_buf EXCEPT ![p] = {x \in @ : x.sn >= n}]
       /\ rcv_nxt' = [rcv_nxt EXCEPT ![p] = n]
       /\ probe' = [probe EXCEPT ![p] =
            @ \/ (Len(cola) >= RcvWnd /\ Len(rcv_queue'[p]) < RcvWnd)]
  /\ UNCHANGED <<sndVars, acklist, red, enviados>>

\* What input does with the una and wnd every segment carries.
Confirma(p, s) ==
  /\ rmt_wnd' = [rmt_wnd EXCEPT ![p] = s.wnd]
  /\ snd_buf' = [snd_buf EXCEPT ![p] = TrasUna(@, s.una)]
  /\ snd_una' = [snd_una EXCEPT ![p] = Cabeza(snd_buf'[p], snd_nxt[p])]
  /\ UNCHANGED <<snd_queue, snd_nxt>>

InputAck(p, s) ==
  LET buf == TrasUna(snd_buf[p], s.una) IN
  /\ s.cmd = "ACK"
  /\ rmt_wnd' = [rmt_wnd EXCEPT ![p] = s.wnd]
  /\ snd_buf' = [snd_buf EXCEPT ![p] =
       TrasAck(buf, s.sn, Cabeza(buf, snd_nxt[p]), snd_nxt[p])]
  /\ snd_una' = [snd_una EXCEPT ![p] = Cabeza(snd_buf'[p], snd_nxt[p])]
  /\ UNCHANGED <<snd_queue, snd_nxt, rcvVars, red, historia>>

\* A segment beyond the window is dropped unacknowledged; one already passed is
\* acknowledged again and dropped; the others go through parseData.
InputPush(p, s) ==
  LET seg == [sn |-> s.sn, frg |-> s.frg, dato |-> s.dato]
      buf == Inserta(rcv_buf[p], seg)
  IN
  /\ s.cmd = "PUSH"
  /\ Confirma(p, s)
  /\ IF EnVentana(p, s.sn)
     THEN acklist' = [acklist EXCEPT ![p] = @ \cup {s.sn}]
     ELSE UNCHANGED acklist
  /\ IF EnVentana(p, s.sn) /\ Aceptable(p, s.sn)
     THEN \E n \in rcv_nxt[p]..(rcv_nxt[p] + RcvWnd) :
            /\ ParaEn(buf, rcv_nxt[p], VentanaLibre(p), n)
            /\ rcv_queue' = [rcv_queue EXCEPT ![p] = @ \o Tramo(buf, rcv_nxt[p], n)]
            /\ rcv_buf' = [rcv_buf EXCEPT ![p] = {x \in buf : x.sn >= n}]
            /\ rcv_nxt' = [rcv_nxt EXCEPT ![p] = n]
     ELSE UNCHANGED <<rcv_queue, rcv_buf, rcv_nxt>>
  /\ UNCHANGED <<probe, red, historia>>

InputSonda(p, s) ==
  /\ s.cmd \in {"WASK", "WINS"}
  /\ Confirma(p, s)
  /\ probe' = [probe EXCEPT ![p] = @ \/ s.cmd = "WASK"]
  /\ UNCHANGED <<rcv_nxt, rcv_buf, rcv_queue, acklist, red, historia>>

\* input
Input(p) ==
  \E s \in red[p] : InputAck(p, s) \/ InputPush(p, s) \/ InputSonda(p, s)

\* flush: acknowledge, probe or advertise the window, give sequence numbers to as
\* many queued pieces as the window allows and send them, together with the
\* segments of reenvio whose timer or duplicate acknowledgements call for it.
Flush(p, reenvio, pregunta) ==
  /\ pregunta => rmt_wnd[p] = 0
  /\ red' = [red EXCEPT ![Otro(p)] = @ \cup Salida(p, Nuevos(p) \cup reenvio, pregunta)]
  /\ Cardinality(red'[Otro(p)]) <= MaxRed
  /\ snd_queue' = [snd_queue EXCEPT ![p] = SubSeq(@, Cuantos(p) + 1, Len(@))]
  /\ snd_buf' = [snd_buf EXCEPT ![p] = @ \cup Nuevos(p)]
  /\ snd_nxt' = [snd_nxt EXCEPT ![p] = @ + Cuantos(p)]
  /\ acklist' = [acklist EXCEPT ![p] = {}]
  /\ probe' = [probe EXCEPT ![p] = FALSE]
  /\ UNCHANGED <<snd_una, rmt_wnd, rcv_nxt, rcv_buf, rcv_queue, historia>>

\* UDP loses a datagram.
Pierde(p) ==
  /\ \E s \in red[p] : red' = [red EXCEPT ![p] = @ \ {s}]
  /\ UNCHANGED <<sndVars, rcvVars, historia>>

Next ==
  \E p \in Peers :
    \/ \E n \in 1..MaxFrag : Send(p, n)
    \/ Recv(p)
    \/ Input(p)
    \/ Pierde(p)
    \/ \E reenvio \in SUBSET snd_buf[p], pregunta \in BOOLEAN :
         Flush(p, reenvio, pregunta)

Spec == Init /\ [][Next]_vars

\* The sender of s, on its way to p, would still write it: same una, same window,
\* the data not acknowledged yet, the window still believed closed.
Vigente(p, s) ==
  LET o == Otro(p) IN
  /\ s.una = rcv_nxt[o] /\ s.wnd = VentanaLibre(o)
  /\ s.cmd = "PUSH" => \E x \in snd_buf[o] : x.sn = s.sn
  /\ s.cmd = "WASK" => rmt_wnd[o] = 0

\* The network delivers or drops what is not Vigente(p) any more.
Caduca(p) ==
  /\ \E s \in red[p] : ~Vigente(p, s) /\ red' = [red EXCEPT ![p] = @ \ {s}]
  /\ UNCHANGED <<sndVars, rcvVars, historia>>

\* Applications read, the tick flushes with every retransmission that is due (RTO and
\* probe_wait are finite), no datagram stays in the network for ever, and one that is
\* written again and again arrives.
Justicia ==
  \A p \in Peers :
    /\ WF_vars(Recv(p)) /\ WF_vars(Caduca(p))
    /\ SF_vars(Flush(p, snd_buf[p], rmt_wnd[p] = 0))
    /\ \A n \in 0..(MaxTrozos[Otro(p)] - 1) :
         SF_vars(\E s \in red[p] : Vigente(p, s) /\ InputPush(p, s) /\ s.sn = n)
    /\ SF_vars(\E s \in red[p] : Vigente(p, s) /\ InputSonda(p, s) /\ s.cmd = "WASK")
    /\ SF_vars(\E s \in red[p] :
         Vigente(p, s) /\ s.cmd # "WASK" /\ (InputAck(p, s) \/ InputSonda(p, s)))

SpecJusta == Spec /\ Justicia

-----------------------------------------------------------------------------
(* Properties *)

\* p holds, or has already returned to its application, the segment sn.
Recibido(p, sn) == sn < rcv_nxt[p] \/ \E x \in rcv_buf[p] : x.sn = sn

TypeOK ==
  /\ snd_queue \in [Peers -> Seq(Trozo)]
  /\ snd_buf \in [Peers -> SUBSET Segmento]
  /\ snd_una \in [Peers -> Nat]
  /\ snd_nxt \in [Peers -> Nat]
  /\ rmt_wnd \in [Peers -> 0..RcvWnd]
  /\ rcv_nxt \in [Peers -> Nat]
  /\ rcv_buf \in [Peers -> SUBSET Segmento]
  /\ rcv_queue \in [Peers -> Seq(Segmento)]
  /\ acklist \in [Peers -> SUBSET Nat]
  /\ probe \in [Peers -> BOOLEAN]
  /\ red \in [Peers -> SUBSET (Push \cup Ack \cup Sonda)]
  /\ enviados \in [Peers -> Seq(Seq(Nat))]
  /\ entregados \in [Peers -> Seq(Seq(Nat))]

\* The messages recv returned are the first messages the other side sent: whole,
\* in order, none twice, whatever the network loses, repeats or reorders.
EntregaEnOrden ==
  \A p \in Peers :
    /\ Len(entregados[p]) <= Len(enviados[Otro(p)])
    /\ \A j \in 1..Len(entregados[p]) : entregados[p][j] = enviados[Otro(p)][j]

\* A segment the sender no longer keeps for retransmission is in the hands of the
\* receiver: an acknowledgement is never sent for a segment that is then dropped.
NadaSePierde ==
  \A p \in Peers : \A sn \in 0..(snd_nxt[p] - 1) :
    (\A x \in snd_buf[p] : x.sn # sn) => Recibido(Otro(p), sn)

\* The receiver never holds more than two windows, whatever stale window
\* advertisements make the sender believe: rcv_queue has at most rcv_wnd segments
\* and rcv_buf only segments of the window that starts at rcv_nxt.
MemoriaAcotada ==
  \A p \in Peers :
    /\ Len(rcv_queue[p]) <= RcvWnd
    /\ \A x \in rcv_buf[p] : x.sn >= rcv_nxt[p] /\ x.sn < rcv_nxt[p] + RcvWnd

\* At most snd_wnd consecutive sequence numbers are in flight.
VueloAcotado ==
  \A p \in Peers :
    /\ snd_una[p] <= snd_nxt[p] /\ snd_nxt[p] <= snd_una[p] + SndWnd
    /\ \A x \in snd_buf[p] : x.sn >= snd_una[p] /\ x.sn < snd_nxt[p]

\* A full rcv_queue always starts with a complete message, its last fragment
\* included, so recv can empty it: the window can not close for ever around the
\* beginning of a message (ikcp.c:1283 asks rcvwnd for room for the longest one).
ColaLlenaSeVacia ==
  \A p \in Peers :
    Len(rcv_queue[p]) >= RcvWnd =>
      HayMensaje(rcv_queue[p]) /\ rcv_queue[p][Head(rcv_queue[p]).frg + 1].frg = 0

\* No step, a late or repeated datagram least of all, moves a cursor backwards.
CursoresAvanzan ==
  [][\A p \in Peers : /\ snd_una'[p] >= snd_una[p]
                      /\ snd_nxt'[p] >= snd_nxt[p]
                      /\ rcv_nxt'[p] >= rcv_nxt[p]]_vars

\* The messages a peer may send, for the abstract channel.
MensajesDe(p) ==
  {[i \in 1..n |-> d + i - 1] : n \in 1..MaxFrag, d \in 0..MaxTrozos[p]}

Ida == INSTANCE CanalFiable WITH
  Mensajes <- MensajesDe(Cliente),
  enviado <- enviados[Cliente], entregado <- entregados[Servidor]

Vuelta == INSTANCE CanalFiable WITH
  Mensajes <- MensajesDe(Servidor),
  enviado <- enviados[Servidor], entregado <- entregados[Cliente]

\* Every message handed to send is returned by recv on the other side: a lost
\* acknowledgement, a closed window or a lost WINS never stops the channel for good.
TodoLlega ==
  (\E p \in Peers : entregados[p] # enviados[Otro(p)]) ~>
    \A p \in Peers : entregados[p] = enviados[Otro(p)]

\* Each direction of the connection is a reliable channel.
IdaFiable == Ida!Spec
VueltaFiable == Vuelta!Spec
=============================================================================
