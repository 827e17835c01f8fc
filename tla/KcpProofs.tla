----------------------------- MODULE KcpProofs -----------------------------
(* Proofs about Kcp, for every window, fragment and network size. *)
EXTENDS Kcp, SequenceTheorems, WellFoundedInduction, TLAPS

-----------------------------------------------------------------------------
(* The helpers of the engine *)

\* The other side of the other side is oneself.
LEMMA OtroPeer ==
  ASSUME NEW p \in Peers
  PROVE  Otro(p) \in Peers /\ Otro(Otro(p)) = p /\ Otro(p) # p
BY KcpAssumption DEF Peers, Otro

\* A set of numbers that is not empty has a least one.
LEMMA MinimoNat ==
  ASSUME NEW S \in SUBSET Nat, S # {}
  PROVE  \E n \in S : \A m \in S : n <= m
<1>1. PICK n \in S : \A m \in S : <<m, n>> \notin OpToRel(<, Nat)
  <2>1. IsWellFoundedOn(OpToRel(<, Nat), Nat)
    BY NatLessThanWellFounded
  <2> QED  BY <2>1, WFMin
<1>2. \A m \in S : ~(m < n)
  <2> SUFFICES ASSUME NEW m \in S, m < n PROVE FALSE
    OBVIOUS
  <2>1. <<m, n>> \in Nat \X Nat
    OBVIOUS
  <2>2. <<m, n>> \in OpToRel(<, Nat)
    BY <2>1 DEF OpToRel
  <2> QED  BY <2>2, <1>1
<1> QED  BY <1>2

\* una is the least sequence number of buf, nxt if it has none.
EsCabeza(una, buf, nxt) ==
  /\ una \in Nat
  /\ \A x \in buf : una <= x.sn
  /\ buf = {} => una = nxt
  /\ buf # {} => \E x \in buf : x.sn = una

\* shrinkBuf: snd_una becomes a lower bound of snd_buf that is met.
LEMMA CabezaMinimo ==
  ASSUME NEW buf \in SUBSET Segmento, NEW nxt \in Nat
  PROVE  EsCabeza(Cabeza(buf, nxt), buf, nxt)
<1>1. CASE buf = {}
  BY <1>1 DEF Cabeza, EsCabeza
<1>2. CASE buf # {}
  <2> DEFINE S == {x.sn : x \in buf}
  <2>1. S \in SUBSET Nat /\ S # {}
    BY <1>2 DEF Segmento
  <2>2. \E n \in S : \A m \in S : n <= m
    BY <2>1, MinimoNat
  <2>3. \E n \in S : \A x \in buf : n <= x.sn
    BY <2>2
  <2>4. Cabeza(buf, nxt) \in S /\ \A x \in buf : Cabeza(buf, nxt) <= x.sn
    BY <2>3, <1>2 DEF Cabeza
  <2> QED  BY <2>1, <2>4, <1>2 DEF EsCabeza
<1> QED  BY <1>1, <1>2

\* A function on 1..k is a sequence of length k.
LEMMA FuncionSeq ==
  ASSUME NEW S, NEW k \in Nat, NEW f, f = [i \in 1..k |-> f[i]],
         \A i \in 1..k : f[i] \in S
  PROVE  f \in Seq(S) /\ Len(f) = k
OBVIOUS

\* parseData and recv: r is q and, after it, the segments nxt .. n - 1 of buf.
Alargada(buf, nxt, hueco, n, q, r) ==
  /\ n \in Nat /\ n >= nxt /\ n <= nxt + hueco
  /\ r \in Seq(Segmento)
  /\ Len(r) = Len(q) + (n - nxt)
  /\ \A i \in 1..Len(q) : r[i] = q[i]
  /\ \A i \in (Len(q) + 1)..Len(r) :
       r[i] \in buf /\ r[i].sn = nxt + (i - Len(q)) - 1

\* The loop of parseData and recv moves the segments that follow rcv_queue.
LEMMA MueveTramo ==
  ASSUME NEW buf \in SUBSET Segmento, NEW nxt \in Nat, NEW hueco \in Int,
         NEW n \in Int, ParaEn(buf, nxt, hueco, n), NEW q \in Seq(Segmento)
  PROVE  Alargada(buf, nxt, hueco, n, q, q \o Tramo(buf, nxt, n))
<1> DEFINE t == Tramo(buf, nxt, n)
           r == q \o t
<1>1. n \in Nat /\ n >= nxt /\ n <= nxt + hueco
  BY DEF ParaEn
<1>2. \A i \in 1..(n - nxt) : t[i] \in buf /\ t[i].sn = nxt + i - 1
  <2> SUFFICES ASSUME NEW i \in 1..(n - nxt)
               PROVE  t[i] \in buf /\ t[i].sn = nxt + i - 1
    OBVIOUS
  <2>1. nxt + i - 1 \in nxt..(n - 1)
    BY <1>1
  <2>2. \E x \in buf : x.sn = nxt + i - 1
    BY <2>1 DEF ParaEn
  <2>3. t[i] = CHOOSE x \in buf : x.sn = nxt + i - 1
    BY DEF Tramo
  <2> QED  BY <2>2, <2>3
<1>3. t \in Seq(Segmento) /\ Len(t) = n - nxt
  <2>1. t = [i \in 1..(n - nxt) |-> t[i]]
    BY DEF Tramo
  <2>2. n - nxt \in Nat
    BY <1>1
  <2>3. \A i \in 1..(n - nxt) : t[i] \in Segmento
    BY <1>2
  <2> HIDE DEF t
  <2> QED  BY <2>1, <2>2, <2>3, FuncionSeq
<1>4. /\ r \in Seq(Segmento)
      /\ Len(r) = Len(q) + Len(t)
      /\ \A i \in 1..(Len(q) + Len(t)) :
           r[i] = IF i <= Len(q) THEN q[i] ELSE t[i - Len(q)]
  BY <1>3, ConcatProperties
<1>5. Len(q) \in Nat
  OBVIOUS
<1> HIDE DEF t, r
<1>6. \A i \in (Len(q) + 1)..Len(r) :
        r[i] = t[i - Len(q)] /\ i - Len(q) \in 1..(n - nxt)
  BY <1>1, <1>3, <1>4, <1>5
<1>7. \A i \in (Len(q) + 1)..Len(r) :
        r[i] \in buf /\ r[i].sn = nxt + (i - Len(q)) - 1
  BY <1>2, <1>5, <1>6
<1>8. Alargada(buf, nxt, hueco, n, q, r)
  BY <1>1, <1>3, <1>4, <1>5, <1>7 DEF Alargada
<1> QED  BY <1>8 DEF r, t

-----------------------------------------------------------------------------
(* The inductive invariant.  EntregaEnOrden is not inductive: that the next    *)
(* message recv returns is the next message sent follows from what each queue *)
(* between the two applications holds.  The parts below say it queue by queue *)
(* in the order a piece travels: snd_queue, snd_buf, the network, rcv_buf,    *)
(* rcv_queue.  A piece has the same number everywhere: its position in the    *)
(* stream is the sequence number flush gives it.                              *)

\* The message m of p has the pieces Ini(p, m) .. Fin(p, m) - 1.
Ini(p, m) == enviados[p][m][1]
Fin(p, m) == enviados[p][m][1] + Len(enviados[p][m])

\* p cut the piece d, with f fragments of its message after it.
EsTrozo(p, d, f) ==
  \E m \in 1..Len(enviados[p]) : Ini(p, m) <= d /\ d + f + 1 = Fin(p, m)

\* The messages of p cover 0 .. Total(p) - 1 one after the other.
EnvioOk(p) ==
  /\ Total(p) \in 0..MaxTrozos[p]
  /\ enviados[p] = <<>> => Total(p) = 0
  /\ \A m \in 1..Len(enviados[p]) :
       /\ Len(enviados[p][m]) \in 1..MaxFrag
       /\ \A i \in 1..Len(enviados[p][m]) : enviados[p][m][i] = Ini(p, m) + i - 1
       /\ Ini(p, m) \in Nat
       /\ m = 1 => Ini(p, m) = 0
       /\ m > 1 => Ini(p, m) = Fin(p, m - 1)
       /\ m = Len(enviados[p]) => Fin(p, m) = Total(p)
  /\ \A m, k \in 1..Len(enviados[p]) : m < k => Fin(p, m) <= Ini(p, k)

\* snd_queue: the pieces that have no sequence number yet, in order.
ColaOk(p) ==
  /\ Len(snd_queue[p]) = Total(p) - snd_nxt[p]
  /\ \A i \in 1..Len(snd_queue[p]) :
       /\ snd_queue[p][i].dato = snd_nxt[p] + i - 1
       /\ EsTrozo(p, snd_queue[p][i].dato, snd_queue[p][i].frg)

\* snd_buf: pieces of the window that starts at snd_una.
VueloOk(p) ==
  /\ snd_una[p] <= snd_nxt[p] /\ snd_nxt[p] <= snd_una[p] + SndWnd
  /\ \A x \in snd_buf[p] :
       /\ x.sn >= snd_una[p] /\ x.sn < snd_nxt[p]
       /\ x.dato = x.sn
       /\ EsTrozo(p, x.dato, x.frg)

\* What snd_buf has dropped was received.
GuardaOk(p) ==
  \A sn \in 0..(snd_nxt[p] - 1) :
    (\A x \in snd_buf[p] : x.sn # sn) => Recibido(Otro(p), sn)

\* red[p]: what the other side received, and the pieces it sent.
RedOk(p) ==
  \A s \in red[p] :
    /\ s.una <= rcv_nxt[Otro(p)]
    /\ s.cmd = "ACK" => Recibido(Otro(p), s.sn)
    /\ s.cmd = "PUSH" => /\ s.sn < snd_nxt[Otro(p)]
                         /\ s.dato = s.sn
                         /\ EsTrozo(Otro(p), s.dato, s.frg)

\* acklist: p acknowledges what it has received.
AckOk(p) == \A sn \in acklist[p] : Recibido(p, sn)

\* A segment p holds was sent by the other side.
LlegoOk(p, x) ==
  /\ x.sn < snd_nxt[Otro(p)]
  /\ x.dato = x.sn
  /\ EsTrozo(Otro(p), x.dato, x.frg)

\* rcv_buf holds segments of the window, rcv_queue those just before it.
ReciboOk(p) ==
  /\ Len(rcv_queue[p]) <= RcvWnd
  /\ rcv_nxt[p] <= snd_nxt[Otro(p)]
  /\ \A x \in rcv_buf[p] :
       /\ x.sn >= rcv_nxt[p] /\ x.sn < rcv_nxt[p] + RcvWnd
       /\ LlegoOk(p, x)
  /\ \A i \in 1..Len(rcv_queue[p]) :
       /\ rcv_queue[p][i].sn = rcv_nxt[p] - Len(rcv_queue[p]) + i - 1
       /\ LlegoOk(p, rcv_queue[p][i])

\* What recv returned is a prefix of what was sent, and rcv_queue goes on there.
EntregaOk(p) ==
  /\ Len(entregados[p]) <= Len(enviados[Otro(p)])
  /\ \A j \in 1..Len(entregados[p]) : entregados[p][j] = enviados[Otro(p)][j]
  /\ rcv_nxt[p] - Len(rcv_queue[p]) =
       IF Len(entregados[p]) = 0 THEN 0 ELSE Fin(Otro(p), Len(entregados[p]))

IInv ==
  /\ TypeOK
  /\ \A p \in Peers : EnvioOk(p) /\ ColaOk(p) /\ VueloOk(p) /\ GuardaOk(p)
  /\ \A p \in Peers : RedOk(p) /\ AckOk(p) /\ ReciboOk(p) /\ EntregaOk(p)

-----------------------------------------------------------------------------
(* Lemmas on the invariant *)

\* The invariant holds at the start.
LEMMA InitIInv == Init => IInv
<1> SUFFICES ASSUME Init PROVE IInv
  OBVIOUS
<1> USE KcpAssumption, OtroPeer DEF Init
<1>1. TypeOK
  BY DEF TypeOK
<1>2. ASSUME NEW p \in Peers
      PROVE  EnvioOk(p) /\ ColaOk(p) /\ VueloOk(p) /\ GuardaOk(p)
  BY <1>2 DEF EnvioOk, ColaOk, VueloOk, GuardaOk, Total
<1>3. ASSUME NEW p \in Peers
      PROVE  RedOk(p) /\ AckOk(p) /\ ReciboOk(p) /\ EntregaOk(p)
  BY <1>3 DEF RedOk, AckOk, ReciboOk, EntregaOk
<1> QED  BY <1>1, <1>2, <1>3 DEF IInv

\* A step that does not move rcv_nxt back, and takes from rcv_buf only what rcv_nxt
\* passes, keeps what is received.
LEMMA RecibidoQueda ==
  ASSUME TypeOK, NEW p \in Peers, rcv_nxt'[p] \in Nat, rcv_nxt[p] <= rcv_nxt'[p],
         \A x \in rcv_buf[p] : x.sn >= rcv_nxt'[p] => x \in rcv_buf'[p]
  PROVE  \A sn \in Nat : Recibido(p, sn) => Recibido(p, sn)'
<1> SUFFICES ASSUME NEW sn \in Nat, Recibido(p, sn) PROVE Recibido(p, sn)'
  OBVIOUS
<1>1. rcv_nxt[p] \in Nat /\ rcv_buf[p] \in SUBSET Segmento
  BY DEF TypeOK
<1>2. CASE sn < rcv_nxt[p]
  BY <1>1, <1>2 DEF Recibido
<1>3. CASE \E x \in rcv_buf[p] : x.sn = sn
  BY <1>1, <1>3 DEF Recibido, Segmento
<1> QED  BY <1>2, <1>3 DEF Recibido

\* Segments that extend rcv_queue (of q, what a recv or a datagram left in it)
\* from buf keep the receiver in order.
LEMMA AvanzaRecibo ==
  ASSUME TypeOK, NEW p \in Peers, NEW buf \in SUBSET Segmento,
         NEW q \in Seq(Segmento), Len(q) <= RcvWnd, NEW n \in Int,
         ParaEn(buf, rcv_nxt[p], RcvWnd - Len(q), n),
         rcv_queue'[p] = q \o Tramo(buf, rcv_nxt[p], n),
         rcv_buf'[p] = {x \in buf : x.sn >= n},
         rcv_nxt'[p] = n,
         enviados' = enviados, snd_nxt' = snd_nxt,
         rcv_nxt[p] <= snd_nxt[Otro(p)],
         \A x \in buf : /\ x.sn >= rcv_nxt[p] /\ x.sn < rcv_nxt[p] + RcvWnd
                        /\ LlegoOk(p, x),
         \A i \in 1..Len(q) : /\ q[i].sn = rcv_nxt[p] - Len(q) + i - 1
                              /\ LlegoOk(p, q[i])
  PROVE  /\ ReciboOk(p)'
         /\ rcv_nxt'[p] - Len(rcv_queue'[p]) = rcv_nxt[p] - Len(q)
         /\ rcv_nxt'[p] \in Nat /\ rcv_nxt[p] <= rcv_nxt'[p]
         /\ rcv_queue'[p] \in Seq(Segmento)
         /\ rcv_buf'[p] \in SUBSET Segmento
<1> DEFINE r == rcv_queue'[p]
<1>0. /\ rcv_nxt[p] \in Nat /\ RcvWnd \in Nat /\ Len(q) \in Nat
      /\ Otro(p) \in Peers /\ snd_nxt[Otro(p)] \in Nat
  BY KcpAssumption, OtroPeer DEF TypeOK
<1>1. /\ n \in Nat /\ n >= rcv_nxt[p] /\ n <= rcv_nxt[p] + (RcvWnd - Len(q))
      /\ r \in Seq(Segmento)
      /\ Len(r) = Len(q) + (n - rcv_nxt[p])
      /\ \A i \in 1..Len(q) : r[i] = q[i]
      /\ \A i \in (Len(q) + 1)..Len(r) :
           r[i] \in buf /\ r[i].sn = rcv_nxt[p] + (i - Len(q)) - 1
  <2>1. RcvWnd - Len(q) \in Int
    BY <1>0
  <2>2. Alargada(buf, rcv_nxt[p], RcvWnd - Len(q), n, q, r)
    BY <1>0, <2>1, MueveTramo
  <2> QED  BY <2>2 DEF Alargada
<1>2. \A x \in buf : x.sn \in Nat
  BY DEF Segmento
<1>3. \A x : LlegoOk(p, x) => LlegoOk(p, x)'
  BY DEF LlegoOk, EsTrozo, Ini, Fin
<1>4. \A i \in 1..Len(r) : /\ r[i].sn = n - Len(r) + i - 1
                           /\ LlegoOk(p, r[i])
  <2> SUFFICES ASSUME NEW i \in 1..Len(r)
               PROVE  r[i].sn = n - Len(r) + i - 1 /\ LlegoOk(p, r[i])
    OBVIOUS
  <2>0. PICK a, b, c : a = rcv_nxt[p] /\ b = Len(q) /\ c = Len(r)
    OBVIOUS
  <2>1. /\ a \in Nat /\ b \in Nat /\ c \in Nat /\ n \in Nat
        /\ c = b + (n - a) /\ i \in Int /\ 1 <= i /\ i <= c
    <3>1. r \in Seq(Segmento) /\ n \in Nat /\ Len(r) = Len(q) + (n - rcv_nxt[p])
      BY <1>1
    <3>2. Len(r) \in Nat
      BY <3>1
    <3> QED  BY <1>0, <2>0, <3>1, <3>2
  <2>2. CASE i <= b
    <3>1. r[i] = q[i] /\ i \in 1..Len(q)
      BY <1>1, <2>0, <2>1, <2>2
    <3>2. q[i].sn = a - b + i - 1 /\ LlegoOk(p, q[i])
      BY <2>0, <3>1
    <3>3. a - b + i - 1 = n - c + i - 1
      BY <2>1
    <3> QED  BY <2>0, <3>1, <3>2, <3>3
  <2>3. CASE i > b
    <3>1. i \in (Len(q) + 1)..Len(r)
      BY <2>0, <2>1, <2>3
    <3>2. r[i] \in buf /\ r[i].sn = a + (i - b) - 1
      BY <1>1, <2>0, <3>1
    <3>3. a + (i - b) - 1 = n - c + i - 1
      BY <2>1
    <3> QED  BY <2>0, <3>2, <3>3
  <2>4. i <= b \/ i > b
    BY <2>1
  <2> QED  BY <2>2, <2>3, <2>4
<1>5. n <= snd_nxt[Otro(p)]
  <2>1. CASE n = rcv_nxt[p]
    BY <2>1
  <2>2. CASE n > rcv_nxt[p]
    <3>1. PICK x \in buf : x.sn = n - 1
      <4>1. n - 1 \in rcv_nxt[p]..(n - 1)
        BY <1>0, <1>1, <2>2
      <4> QED  BY <4>1 DEF ParaEn
    <3>2. x.sn < snd_nxt[Otro(p)]
      BY DEF LlegoOk
    <3> QED  BY <1>0, <1>1, <3>1, <3>2
  <2> QED  BY <1>0, <1>1, <2>1, <2>2
<1>6. \A x \in rcv_buf'[p] : x.sn >= n /\ x.sn < n + RcvWnd /\ LlegoOk(p, x)
  BY SMTT(30), <1>0, <1>1, <1>2
<1>7. Len(r) <= RcvWnd
  BY <1>0, <1>1
<1>8. ReciboOk(p)'
  BY <1>3, <1>4, <1>5, <1>6, <1>7 DEF ReciboOk
<1> QED  BY <1>0, <1>1, <1>8

\* What is received stays received, what was cut stays cut.
Conserva(p) == \A sn \in Nat : Recibido(p, sn) => Recibido(p, sn)'
Recuerda(p) == \A d, f : EsTrozo(p, d, f) => EsTrozo(p, d, f)'

\* The same of the steps that leave those variables alone.
LEMMA Quietos ==
  ASSUME NEW q \in Peers
  PROVE  /\ UNCHANGED <<rcv_nxt, rcv_buf>> => Conserva(q)
         /\ UNCHANGED enviados => Recuerda(q)
BY DEF Conserva, Recuerda, Recibido, EsTrozo, Ini, Fin

\* Each part of the invariant depends on a few variables of one peer or the other.
LEMMA Marco ==
  ASSUME IInv, NEW q \in Peers
  PROVE  /\ enviados'[q] = enviados[q] => EnvioOk(q)'
         /\ /\ enviados'[q] = enviados[q] /\ snd_queue'[q] = snd_queue[q]
            /\ snd_nxt'[q] = snd_nxt[q]
            => ColaOk(q)'
         /\ /\ Recuerda(q) /\ snd_una'[q] = snd_una[q] /\ snd_nxt'[q] = snd_nxt[q]
            /\ snd_buf'[q] = snd_buf[q]
            => VueloOk(q)'
         /\ /\ snd_nxt'[q] = snd_nxt[q] /\ snd_buf'[q] = snd_buf[q]
            /\ Conserva(Otro(q))
            => GuardaOk(q)'
         /\ /\ red'[q] \subseteq red[q] /\ Conserva(Otro(q)) /\ Recuerda(Otro(q))
            /\ snd_nxt'[Otro(q)] \in Nat /\ snd_nxt[Otro(q)] <= snd_nxt'[Otro(q)]
            /\ rcv_nxt'[Otro(q)] \in Nat /\ rcv_nxt[Otro(q)] <= rcv_nxt'[Otro(q)]
            => RedOk(q)'
         /\ acklist'[q] = acklist[q] /\ Conserva(q) => AckOk(q)'
         /\ /\ rcv_queue'[q] = rcv_queue[q] /\ rcv_nxt'[q] = rcv_nxt[q]
            /\ rcv_buf'[q] = rcv_buf[q] /\ Recuerda(Otro(q))
            /\ snd_nxt'[Otro(q)] \in Nat /\ snd_nxt[Otro(q)] <= snd_nxt'[Otro(q)]
            => ReciboOk(q)'
         /\ /\ entregados'[q] = entregados[q] /\ rcv_queue'[q] = rcv_queue[q]
            /\ rcv_nxt'[q] = rcv_nxt[q] /\ enviados'[Otro(q)] = enviados[Otro(q)]
            => EntregaOk(q)'
<1> DEFINE o == Otro(q)
<1>0. /\ o \in Peers /\ snd_nxt[q] \in Nat /\ snd_nxt[o] \in Nat
      /\ rcv_nxt[o] \in Nat /\ rcv_nxt[q] \in Nat
      /\ red[q] \subseteq Push \cup Ack \cup Sonda /\ acklist[q] \subseteq Nat
      /\ rcv_buf[q] \subseteq Segmento /\ rcv_queue[q] \in Seq(Segmento)
  BY OtroPeer DEF IInv, TypeOK
<1>i. /\ EnvioOk(q) /\ ColaOk(q) /\ VueloOk(q) /\ GuardaOk(q)
      /\ RedOk(q) /\ AckOk(q) /\ ReciboOk(q) /\ EntregaOk(q)
  BY DEF IInv
<1>1. enviados'[q] = enviados[q] => EnvioOk(q)'
  BY <1>i DEF EnvioOk, Total, Ini, Fin
<1>2. /\ enviados'[q] = enviados[q] /\ snd_queue'[q] = snd_queue[q]
      /\ snd_nxt'[q] = snd_nxt[q]
      => ColaOk(q)'
  BY <1>i DEF ColaOk, Total, EsTrozo, Ini, Fin
<1>3. /\ Recuerda(q) /\ snd_una'[q] = snd_una[q] /\ snd_nxt'[q] = snd_nxt[q]
      /\ snd_buf'[q] = snd_buf[q]
      => VueloOk(q)'
  BY <1>i DEF VueloOk, Recuerda
<1>4. /\ snd_nxt'[q] = snd_nxt[q] /\ snd_buf'[q] = snd_buf[q] /\ Conserva(o)
      => GuardaOk(q)'
  BY <1>0, <1>i DEF GuardaOk, Conserva
<1>5. /\ red'[q] \subseteq red[q] /\ Conserva(o) /\ Recuerda(o)
      /\ snd_nxt'[o] \in Nat /\ snd_nxt[o] <= snd_nxt'[o]
      /\ rcv_nxt'[o] \in Nat /\ rcv_nxt[o] <= rcv_nxt'[o]
      => RedOk(q)'
  <2> SUFFICES ASSUME red'[q] \subseteq red[q], Conserva(o), Recuerda(o),
                      snd_nxt'[o] \in Nat, snd_nxt[o] <= snd_nxt'[o],
                      rcv_nxt'[o] \in Nat, rcv_nxt[o] <= rcv_nxt'[o],
                      NEW s \in red'[q]
               PROVE  /\ s.una <= rcv_nxt'[o]
                      /\ s.cmd = "ACK" => Recibido(o, s.sn)'
                      /\ s.cmd = "PUSH" => /\ s.sn < snd_nxt'[o]
                                           /\ s.dato = s.sn
                                           /\ EsTrozo(o, s.dato, s.frg)'
    BY DEF RedOk
  <2>1. s \in red[q] /\ s \in Push \cup Ack \cup Sonda
    BY <1>0
  <2>2. s.una \in Nat /\ s.una <= rcv_nxt[o]
    BY <2>1, <1>i DEF RedOk, Push, Ack, Sonda
  <2>3. CASE s.cmd = "ACK"
    BY <1>0, <1>i, <2>1, <2>2, <2>3 DEF RedOk, Push, Ack, Sonda, Conserva
  <2>4. CASE s.cmd = "PUSH"
    BY <1>0, <1>i, <2>1, <2>2, <2>4 DEF RedOk, Push, Ack, Sonda, Recuerda
  <2> QED  BY <1>0, <2>2, <2>3, <2>4
<1>6. acklist'[q] = acklist[q] /\ Conserva(q) => AckOk(q)'
  BY <1>0, <1>i DEF AckOk, Conserva
<1>7. /\ rcv_queue'[q] = rcv_queue[q] /\ rcv_nxt'[q] = rcv_nxt[q]
      /\ rcv_buf'[q] = rcv_buf[q] /\ Recuerda(o)
      /\ snd_nxt'[o] \in Nat /\ snd_nxt[o] <= snd_nxt'[o]
      => ReciboOk(q)'
  <2> SUFFICES ASSUME rcv_queue'[q] = rcv_queue[q], rcv_nxt'[q] = rcv_nxt[q],
                      rcv_buf'[q] = rcv_buf[q], Recuerda(o),
                      snd_nxt'[o] \in Nat, snd_nxt[o] <= snd_nxt'[o]
               PROVE  ReciboOk(q)'
    OBVIOUS
  <2>1. \A x \in Segmento : LlegoOk(q, x) => LlegoOk(q, x)'
    BY <1>0 DEF LlegoOk, Recuerda, Segmento
  <2>2. \A i \in 1..Len(rcv_queue[q]) : rcv_queue[q][i] \in Segmento
    BY <1>0
  <2> QED  BY <1>0, <1>i, <2>1, <2>2 DEF ReciboOk
<1>8. /\ entregados'[q] = entregados[q] /\ rcv_queue'[q] = rcv_queue[q]
      /\ rcv_nxt'[q] = rcv_nxt[q] /\ enviados'[o] = enviados[o]
      => EntregaOk(q)'
  BY <1>i DEF EntregaOk, Fin
<1> QED  BY <1>1, <1>2, <1>3, <1>4, <1>5, <1>6, <1>7, <1>8

\* A sender that drops from snd_buf only what was received, and then runs
\* shrinkBuf, keeps its window and moves snd_una forwards.
LEMMA ConfirmaEmisor ==
  ASSUME TypeOK, NEW p \in Peers, VueloOk(p), GuardaOk(p),
         UNCHANGED <<snd_nxt, enviados>>,
         snd_buf'[p] \in SUBSET snd_buf[p],
         snd_una'[p] = Cabeza(snd_buf'[p], snd_nxt[p]),
         \A x \in snd_buf[p] : x \in snd_buf'[p] \/ Recibido(Otro(p), x.sn),
         Conserva(Otro(p))
  PROVE  /\ VueloOk(p)' /\ GuardaOk(p)'
         /\ snd_una'[p] \in Nat /\ snd_una[p] <= snd_una'[p]
<1> DEFINE b == snd_buf'[p]
           u == snd_una'[p]
<1>1. /\ b \in SUBSET Segmento /\ snd_nxt[p] \in Nat /\ snd_una[p] \in Nat
      /\ SndWnd \in Nat
  BY KcpAssumption DEF TypeOK
<1>2. /\ u \in Nat
      /\ \A x \in b : u <= x.sn
      /\ b = {} => u = snd_nxt[p]
      /\ b # {} => \E x \in b : x.sn = u
  <2>1. EsCabeza(u, b, snd_nxt[p])
    BY <1>1, CabezaMinimo
  <2> QED  BY <2>1 DEF EsCabeza
<1>3. \A x \in b : /\ x.sn \in Nat /\ x.sn >= snd_una[p] /\ x.sn < snd_nxt[p]
                   /\ x.dato = x.sn /\ EsTrozo(p, x.dato, x.frg)
  BY <1>1 DEF VueloOk, Segmento
<1>4. snd_una[p] <= u /\ u <= snd_nxt[p]
  BY <1>1, <1>2, <1>3 DEF VueloOk
<1>5. VueloOk(p)'
  <2>1. snd_nxt[p] <= u + SndWnd
    BY <1>1, <1>2, <1>4 DEF VueloOk
  <2>2. \A x \in b : EsTrozo(p, x.dato, x.frg)'
    BY <1>3 DEF EsTrozo, Ini, Fin
  <2> QED  BY <1>1, <1>2, <1>3, <1>4, <2>1, <2>2 DEF VueloOk
<1>6. GuardaOk(p)'
  <2> SUFFICES ASSUME NEW sn \in 0..(snd_nxt[p] - 1), \A x \in b : x.sn # sn
               PROVE  Recibido(Otro(p), sn)'
    BY <1>1 DEF GuardaOk
  <2>1. CASE \E x \in snd_buf[p] : x.sn = sn
    BY <1>1, <2>1 DEF Conserva
  <2>2. CASE \A x \in snd_buf[p] : x.sn # sn
    BY <1>1, <2>2 DEF GuardaOk, Conserva
  <2> QED  BY <2>1, <2>2
<1> QED  BY <1>2, <1>4, <1>5, <1>6

-----------------------------------------------------------------------------
(* One lemma per action: it preserves the invariant *)

\* The loss of a datagram.
LEMMA PierdePaso ==
  ASSUME IInv, NEW p \in Peers, Pierde(p)
  PROVE  IInv'
<1> USE DEF Pierde, sndVars, rcvVars, historia
<1>1. TypeOK'
  BY DEF IInv, TypeOK
<1>2. ASSUME NEW q \in Peers
      PROVE  /\ (EnvioOk(q) /\ ColaOk(q) /\ VueloOk(q) /\ GuardaOk(q))'
             /\ (RedOk(q) /\ AckOk(q) /\ ReciboOk(q) /\ EntregaOk(q))'
  <2>1. /\ Otro(q) \in Peers /\ Conserva(q) /\ Recuerda(q)
        /\ Conserva(Otro(q)) /\ Recuerda(Otro(q))
    BY OtroPeer, Quietos
  <2>2. red'[q] \subseteq red[q]
    BY DEF IInv, TypeOK
  <2>3. /\ snd_nxt[Otro(q)] \in Nat /\ rcv_nxt[Otro(q)] \in Nat
    BY <2>1 DEF IInv, TypeOK
  <2> QED  BY <2>1, <2>2, <2>3, Marco
<1> QED  BY <1>1, <1>2 DEF IInv

\* What the una of any segment covers, and what an acknowledgement names, was received.
LEMMA UnaRecibida ==
  ASSUME IInv, NEW p \in Peers, NEW s \in red[p]
  PROVE  /\ s.una \in Nat /\ s.wnd \in 0..RcvWnd
         /\ \A x \in snd_buf[p] :
              x \in TrasUna(snd_buf[p], s.una) \/ Recibido(Otro(p), x.sn)
<1>1. /\ s \in Push \cup Ack \cup Sonda /\ snd_buf[p] \subseteq Segmento
      /\ rcv_nxt[Otro(p)] \in Nat /\ RedOk(p)
  BY OtroPeer DEF IInv, TypeOK
<1>2. s.una \in Nat /\ s.wnd \in 0..RcvWnd
  BY <1>1 DEF Push, Ack, Sonda
<1>3. s.una <= rcv_nxt[Otro(p)]
  BY <1>1 DEF RedOk
<1>4. ASSUME NEW x \in snd_buf[p], x.sn < s.una PROVE Recibido(Otro(p), x.sn)
  BY <1>1, <1>2, <1>3, <1>4 DEF Recibido, Segmento
<1>5. ASSUME NEW x \in snd_buf[p], ~(x.sn < s.una)
      PROVE  x \in TrasUna(snd_buf[p], s.una)
  BY <1>1, <1>2, <1>5 DEF TrasUna, Segmento
<1> QED  BY <1>2, <1>4, <1>5

\* The sender's half of input, when the receiver's half keeps what is received.
LEMMA ConfirmaPaso ==
  ASSUME IInv, NEW p \in Peers, NEW s \in red[p], Confirma(p, s),
         UNCHANGED enviados, Conserva(Cliente), Conserva(Servidor)
  PROVE  /\ snd_buf' \in [Peers -> SUBSET Segmento]
         /\ snd_una' \in [Peers -> Nat] /\ rmt_wnd' \in [Peers -> 0..RcvWnd]
         /\ \A q \in Peers : /\ EnvioOk(q)' /\ ColaOk(q)'
                             /\ VueloOk(q)' /\ GuardaOk(q)'
                             /\ snd_una[q] <= snd_una'[q]
<1> USE DEF Confirma
<1>0. \A q \in Peers : Conserva(q) /\ Recuerda(q) /\ Otro(q) \in Peers
  BY Quietos, OtroPeer DEF Peers
<1>1. /\ s.una \in Nat /\ s.wnd \in 0..RcvWnd
      /\ \A x \in snd_buf[p] :
           x \in TrasUna(snd_buf[p], s.una) \/ Recibido(Otro(p), x.sn)
  BY UnaRecibida
<1>2. /\ snd_buf'[p] = TrasUna(snd_buf[p], s.una)
      /\ snd_buf'[p] \in SUBSET snd_buf[p]
      /\ snd_una'[p] = Cabeza(snd_buf'[p], snd_nxt[p])
  BY DEF IInv, TypeOK, TrasUna
<1>3. TypeOK /\ VueloOk(p) /\ GuardaOk(p)
  BY DEF IInv
<1>4. /\ VueloOk(p)' /\ GuardaOk(p)'
      /\ snd_una'[p] \in Nat /\ snd_una[p] <= snd_una'[p]
  BY <1>0, <1>1, <1>2, <1>3, ConfirmaEmisor
<1>5. /\ snd_buf' \in [Peers -> SUBSET Segmento]
      /\ snd_una' \in [Peers -> Nat] /\ rmt_wnd' \in [Peers -> 0..RcvWnd]
  BY <1>1, <1>2, <1>3, <1>4 DEF TypeOK
<1>6. ASSUME NEW q \in Peers
      PROVE  EnvioOk(q)' /\ ColaOk(q)'
  BY <1>6, Marco
<1>7. ASSUME NEW q \in Peers, q # p
      PROVE  VueloOk(q)' /\ GuardaOk(q)' /\ snd_una[q] <= snd_una'[q]
  <2>1. snd_una'[q] = snd_una[q] /\ snd_buf'[q] = snd_buf[q] /\ snd_una[q] \in Nat
    BY <1>3, <1>7 DEF TypeOK
  <2> QED  BY <1>0, <1>7, <2>1, Marco
<1> QED  BY <1>4, <1>5, <1>6, <1>7

\* A window probe, or its answer.
LEMMA InputSondaPaso ==
  ASSUME IInv, NEW p \in Peers, NEW s \in red[p], InputSonda(p, s)
  PROVE  IInv' /\ \A q \in Peers : snd_una[q] <= snd_una'[q]
<1> USE DEF InputSonda, historia
<1>0. \A q \in Peers : Conserva(q) /\ Recuerda(q) /\ Otro(q) \in Peers
  BY Quietos, OtroPeer
<1>1. /\ snd_buf' \in [Peers -> SUBSET Segmento]
      /\ snd_una' \in [Peers -> Nat] /\ rmt_wnd' \in [Peers -> 0..RcvWnd]
      /\ \A q \in Peers : /\ EnvioOk(q)' /\ ColaOk(q)'
                          /\ VueloOk(q)' /\ GuardaOk(q)'
                          /\ snd_una[q] <= snd_una'[q]
  BY <1>0, ConfirmaPaso DEF Peers
<1>2. TypeOK'
  BY <1>1 DEF IInv, TypeOK, Confirma
<1>3. ASSUME NEW q \in Peers
      PROVE  (RedOk(q) /\ AckOk(q) /\ ReciboOk(q) /\ EntregaOk(q))'
  <2>1. snd_nxt[Otro(q)] \in Nat /\ rcv_nxt[Otro(q)] \in Nat /\ snd_nxt' = snd_nxt
    BY <1>0 DEF IInv, TypeOK, Confirma
  <2> QED  BY <1>0, <2>1, Marco
<1> QED  BY <1>1, <1>2, <1>3 DEF IInv

\* An acknowledgement.
LEMMA InputAckPaso ==
  ASSUME IInv, NEW p \in Peers, NEW s \in red[p], InputAck(p, s)
  PROVE  IInv' /\ \A q \in Peers : snd_una[q] <= snd_una'[q]
<1> USE DEF InputAck, rcvVars, historia
<1>0. \A q \in Peers : Conserva(q) /\ Recuerda(q) /\ Otro(q) \in Peers
  BY Quietos, OtroPeer
<1>1. /\ s.una \in Nat /\ s.wnd \in 0..RcvWnd
      /\ \A x \in snd_buf[p] :
           x \in TrasUna(snd_buf[p], s.una) \/ Recibido(Otro(p), x.sn)
  BY UnaRecibida
<1>2. Recibido(Otro(p), s.sn)
  BY DEF IInv, RedOk
<1>3. /\ snd_buf'[p] \in SUBSET snd_buf[p]
      /\ \A x \in snd_buf[p] : x \in snd_buf'[p] \/ Recibido(Otro(p), x.sn)
      /\ snd_una'[p] = Cabeza(snd_buf'[p], snd_nxt[p])
  BY <1>1, <1>2 DEF IInv, TypeOK, TrasUna, TrasAck
<1>4. TypeOK /\ VueloOk(p) /\ GuardaOk(p)
  BY DEF IInv
<1>5. /\ VueloOk(p)' /\ GuardaOk(p)'
      /\ snd_una'[p] \in Nat /\ snd_una[p] <= snd_una'[p]
  BY <1>0, <1>3, <1>4, ConfirmaEmisor
<1>6. TypeOK'
  <2>1. snd_buf'[p] \in SUBSET Segmento
    BY <1>3, <1>4 DEF TypeOK
  <2>2. /\ snd_buf' = [snd_buf EXCEPT ![p] = snd_buf'[p]]
        /\ snd_una' = [snd_una EXCEPT ![p] = snd_una'[p]]
    BY <1>4 DEF TypeOK
  <2>3. /\ snd_buf' \in [Peers -> SUBSET Segmento]
        /\ snd_una' \in [Peers -> Nat] /\ rmt_wnd' \in [Peers -> 0..RcvWnd]
    BY <1>1, <1>4, <1>5, <2>1, <2>2 DEF TypeOK
  <2> QED  BY <1>4, <2>3 DEF TypeOK
<1>7. ASSUME NEW q \in Peers
      PROVE  /\ (EnvioOk(q) /\ ColaOk(q) /\ RedOk(q) /\ AckOk(q))'
             /\ (ReciboOk(q) /\ EntregaOk(q))'
  <2>1. snd_nxt[Otro(q)] \in Nat /\ rcv_nxt[Otro(q)] \in Nat /\ snd_nxt' = snd_nxt
    BY <1>0, <1>4 DEF TypeOK
  <2> QED  BY <1>0, <2>1, Marco
<1>8. ASSUME NEW q \in Peers, q # p
      PROVE  VueloOk(q)' /\ GuardaOk(q)' /\ snd_una[q] <= snd_una'[q]
  <2>1. snd_una'[q] = snd_una[q] /\ snd_buf'[q] = snd_buf[q] /\ snd_una[q] \in Nat
    BY <1>4, <1>8 DEF TypeOK
  <2> QED  BY <1>0, <1>8, <2>1, Marco
<1> QED  BY <1>5, <1>6, <1>7, <1>8 DEF IInv


\* The receiver's half of input: a data segment.
LEMMA RecibePush ==
  ASSUME IInv, NEW p \in Peers, NEW s \in red[p], InputPush(p, s)
  PROVE  /\ ReciboOk(p)' /\ EntregaOk(p)' /\ Conserva(p)
         /\ rcv_nxt'[p] \in Nat /\ rcv_nxt[p] <= rcv_nxt'[p]
         /\ rcv_queue'[p] \in Seq(Segmento) /\ rcv_buf'[p] \in SUBSET Segmento
         /\ s.sn \in Nat /\ (EnVentana(p, s.sn) => Recibido(p, s.sn)')
<1> DEFINE seg == [sn |-> s.sn, frg |-> s.frg, dato |-> s.dato]
           buf == Inserta(rcv_buf[p], seg)
<1>0. /\ TypeOK /\ RedOk(p) /\ ReciboOk(p) /\ EntregaOk(p) /\ Otro(p) \in Peers
      /\ rcv_buf[p] \subseteq Segmento /\ rcv_queue[p] \in Seq(Segmento)
      /\ rcv_nxt[p] \in Nat /\ snd_nxt[Otro(p)] \in Nat /\ RcvWnd \in Nat
      /\ Len(rcv_queue[p]) \in Nat
  BY OtroPeer, KcpAssumption DEF IInv, TypeOK
<1>1. s \in Push /\ seg \in Segmento
  <2>1. s \in Push \cup Ack \cup Sonda /\ s.cmd = "PUSH"
    BY <1>0 DEF TypeOK, InputPush
  <2>2. s \in Push
    BY <2>1 DEF Ack, Sonda
  <2> QED  BY <2>2 DEF Push, Segmento
<1>2. s.sn \in Nat /\ LlegoOk(p, seg)
  BY <1>0, <1>1 DEF RedOk, LlegoOk, Push, InputPush
<1>3. UNCHANGED <<enviados, entregados, snd_nxt>>
  BY DEF InputPush, Confirma, historia
<1>4. CASE EnVentana(p, s.sn) /\ Aceptable(p, s.sn)
  <2>1. PICK n \in rcv_nxt[p]..(rcv_nxt[p] + RcvWnd) :
          /\ ParaEn(buf, rcv_nxt[p], VentanaLibre(p), n)
          /\ rcv_queue' = [rcv_queue EXCEPT ![p] =
               @ \o Tramo(buf, rcv_nxt[p], n)]
          /\ rcv_buf' = [rcv_buf EXCEPT ![p] = {x \in buf : x.sn >= n}]
          /\ rcv_nxt' = [rcv_nxt EXCEPT ![p] = n]
    BY <1>4 DEF InputPush
  <2>2. /\ n \in Int
        /\ rcv_queue'[p] = rcv_queue[p] \o Tramo(buf, rcv_nxt[p], n)
        /\ rcv_buf'[p] = {x \in buf : x.sn >= n}
        /\ rcv_nxt'[p] = n
    <3>1. /\ rcv_queue = [q \in Peers |-> rcv_queue[q]]
          /\ rcv_buf = [q \in Peers |-> rcv_buf[q]]
          /\ rcv_nxt = [q \in Peers |-> rcv_nxt[q]]
      BY <1>0 DEF TypeOK
    <3> HIDE DEF buf
    <3> QED  BY <2>1, <3>1
  <2>3. Len(rcv_queue[p]) <= RcvWnd /\ rcv_nxt[p] <= snd_nxt[Otro(p)]
    BY <1>0 DEF ReciboOk
  <2>4. ParaEn(buf, rcv_nxt[p], RcvWnd - Len(rcv_queue[p]), n)
    <3>0. PICK l : l = Len(rcv_queue[p])
      OBVIOUS
    <3>1. l \in Nat /\ l <= RcvWnd /\ RcvWnd \in Nat
      BY <1>0, <2>3, <3>0
    <3>2. (IF l < RcvWnd THEN RcvWnd - l ELSE 0) = RcvWnd - l
      BY <3>1
    <3>3. VentanaLibre(p) = RcvWnd - Len(rcv_queue[p])
      BY <3>0, <3>2 DEF VentanaLibre
    <3> QED  BY <2>1, <3>3
  <2>5. /\ buf \in SUBSET Segmento /\ rcv_buf[p] \subseteq buf
        /\ \E x \in buf : x.sn = s.sn
    BY <1>0, <1>1 DEF Inserta
  <2>6. \A x \in buf : /\ x.sn >= rcv_nxt[p] /\ x.sn < rcv_nxt[p] + RcvWnd
                       /\ LlegoOk(p, x)
    BY <1>0, <1>2, <1>4 DEF ReciboOk, Inserta, Aceptable
  <2>7. \A i \in 1..Len(rcv_queue[p]) :
          /\ rcv_queue[p][i].sn = rcv_nxt[p] - Len(rcv_queue[p]) + i - 1
          /\ LlegoOk(p, rcv_queue[p][i])
    BY <1>0 DEF ReciboOk
  <2> HIDE DEF buf, seg
  <2>8. /\ ReciboOk(p)'
        /\ rcv_nxt'[p] - Len(rcv_queue'[p]) = rcv_nxt[p] - Len(rcv_queue[p])
        /\ rcv_nxt'[p] \in Nat /\ rcv_nxt[p] <= rcv_nxt'[p]
        /\ rcv_queue'[p] \in Seq(Segmento)
        /\ rcv_buf'[p] \in SUBSET Segmento
    BY <1>0, <1>3, <2>2, <2>3, <2>4, <2>5, <2>6, <2>7, AvanzaRecibo
  <2>9. EntregaOk(p)'
    BY <1>0, <1>3, <2>8 DEF EntregaOk, Fin
  <2>10. Conserva(p)
    <3>1. \A x \in rcv_buf[p] : x.sn >= rcv_nxt'[p] => x \in rcv_buf'[p]
      BY <2>2, <2>5
    <3> QED  BY <1>0, <2>8, <3>1, RecibidoQueda DEF Conserva
  <2>11. Recibido(p, s.sn)'
    <3>1. PICK x \in buf : x.sn = s.sn
      BY <2>5
    <3> QED  BY <1>2, <2>2, <2>8, <3>1 DEF Recibido
  <2> QED  BY <1>2, <2>8, <2>9, <2>10, <2>11
<1>5. CASE ~(EnVentana(p, s.sn) /\ Aceptable(p, s.sn))
  <2>1. UNCHANGED <<rcv_queue, rcv_buf, rcv_nxt>>
    BY <1>5 DEF InputPush
  <2>2. Conserva(p) /\ Recuerda(Otro(p))
    BY <1>0, <1>3, <2>1, Quietos
  <2>3. ReciboOk(p)' /\ EntregaOk(p)'
    BY <1>0, <1>3, <2>1, <2>2, Marco
  <2>4. EnVentana(p, s.sn) => Recibido(p, s.sn)'
    BY <1>0, <1>2, <1>5, <2>1 DEF EnVentana, Aceptable, Recibido
  <2> QED  BY <1>0, <1>2, <2>1, <2>2, <2>3, <2>4
<1> QED  BY <1>4, <1>5

\* A data segment: both halves.
LEMMA InputPushPaso ==
  ASSUME IInv, NEW p \in Peers, NEW s \in red[p], InputPush(p, s)
  PROVE  /\ IInv'
         /\ \A q \in Peers : snd_una[q] <= snd_una'[q] /\ rcv_nxt[q] <= rcv_nxt'[q]
<1>1. /\ ReciboOk(p)' /\ EntregaOk(p)' /\ Conserva(p)
      /\ rcv_nxt'[p] \in Nat /\ rcv_nxt[p] <= rcv_nxt'[p]
      /\ rcv_queue'[p] \in Seq(Segmento) /\ rcv_buf'[p] \in SUBSET Segmento
      /\ s.sn \in Nat /\ (EnVentana(p, s.sn) => Recibido(p, s.sn)')
  BY RecibePush
<1>2. /\ UNCHANGED <<snd_queue, snd_nxt, probe, red, enviados, entregados>>
      /\ Confirma(p, s)
  BY DEF InputPush, Confirma, historia
<1>3. /\ rcv_queue' = [rcv_queue EXCEPT ![p] = rcv_queue'[p]]
      /\ rcv_buf' = [rcv_buf EXCEPT ![p] = rcv_buf'[p]]
      /\ rcv_nxt' = [rcv_nxt EXCEPT ![p] = rcv_nxt'[p]]
  BY DEF IInv, TypeOK, InputPush
<1>4. ASSUME NEW q \in Peers, q # p
      PROVE  /\ rcv_queue'[q] = rcv_queue[q] /\ rcv_buf'[q] = rcv_buf[q]
             /\ rcv_nxt'[q] = rcv_nxt[q] /\ acklist'[q] = acklist[q]
             /\ Conserva(q)
  <2>1. /\ rcv_queue'[q] = rcv_queue[q] /\ rcv_buf'[q] = rcv_buf[q]
        /\ rcv_nxt'[q] = rcv_nxt[q] /\ acklist'[q] = acklist[q]
    BY <1>3, <1>4 DEF IInv, TypeOK, InputPush
  <2> QED  BY <2>1 DEF Conserva, Recibido
<1>5. \A q \in Peers : /\ Conserva(q) /\ Recuerda(q) /\ Otro(q) \in Peers
                       /\ rcv_nxt[q] \in Nat /\ rcv_nxt'[q] \in Nat
                       /\ rcv_nxt[q] <= rcv_nxt'[q] /\ snd_nxt[q] \in Nat
  <2>1. \A q \in Peers : Recuerda(q) /\ Otro(q) \in Peers
    BY <1>2, Quietos, OtroPeer
  <2>2. \A q \in Peers : rcv_nxt[q] \in Nat /\ snd_nxt[q] \in Nat
    BY DEF IInv, TypeOK
  <2> QED  BY <1>1, <1>4, <2>1, <2>2
<1>6. /\ snd_buf' \in [Peers -> SUBSET Segmento]
      /\ snd_una' \in [Peers -> Nat] /\ rmt_wnd' \in [Peers -> 0..RcvWnd]
      /\ \A q \in Peers : /\ EnvioOk(q)' /\ ColaOk(q)'
                          /\ VueloOk(q)' /\ GuardaOk(q)'
                          /\ snd_una[q] <= snd_una'[q]
  BY <1>2, <1>5, ConfirmaPaso DEF Peers
<1>7. TypeOK'
  <2>1. /\ rcv_queue' \in [Peers -> Seq(Segmento)]
        /\ rcv_buf' \in [Peers -> SUBSET Segmento] /\ rcv_nxt' \in [Peers -> Nat]
    BY <1>1, <1>3 DEF IInv, TypeOK
  <2>2. acklist' \in [Peers -> SUBSET Nat]
    <3>1. acklist \in [Peers -> SUBSET Nat]
      BY DEF IInv, TypeOK
    <3>2. \/ acklist' = [acklist EXCEPT ![p] = @ \cup {s.sn}]
          \/ acklist' = acklist
      BY DEF InputPush
    <3> QED  BY <1>1, <3>1, <3>2
  <2> QED  BY <1>2, <1>6, <2>1, <2>2 DEF IInv, TypeOK
<1>8. AckOk(p)'
  <2>1. \A sn \in acklist'[p] :
          sn \in acklist[p] \/ (sn = s.sn /\ EnVentana(p, s.sn))
    BY DEF IInv, TypeOK, InputPush
  <2>2. acklist[p] \subseteq Nat /\ AckOk(p)
    BY DEF IInv, TypeOK
  <2> QED  BY <1>1, <2>1, <2>2 DEF AckOk, Conserva
<1>9. ASSUME NEW q \in Peers PROVE RedOk(q)'
  BY <1>2, <1>5, <1>9, Marco
<1>10. ASSUME NEW q \in Peers, q # p PROVE AckOk(q)' /\ ReciboOk(q)' /\ EntregaOk(q)'
  BY <1>2, <1>4, <1>5, <1>10, Marco
<1> QED  BY <1>1, <1>5, <1>6, <1>7, <1>8, <1>9, <1>10 DEF IInv


\* send adds to the L messages of p one of the n pieces from T on.
Crece(p, n, L, T) ==
  /\ L \in Nat /\ T \in Nat
  /\ Len(enviados'[p]) = L + 1 /\ enviados'[p] \in Seq(Seq(Nat))
  /\ \A m \in 1..L : /\ enviados'[p][m] = enviados[p][m]
                     /\ Ini(p, m)' = Ini(p, m) /\ Fin(p, m)' = Fin(p, m)
  /\ Len(enviados'[p][L + 1]) = n
  /\ \A i \in 1..n : enviados'[p][L + 1][i] = T + i - 1
  /\ Ini(p, L + 1)' = T /\ Fin(p, L + 1)' = T + n
  /\ Total(p)' = T + n

\* send adds one message, and only that, at the end of the stream.
LEMMA EnvioCrece ==
  ASSUME IInv, NEW p \in Peers, NEW n \in 1..MaxFrag, Send(p, n),
         NEW L, L = Len(enviados[p]), NEW T, T = Total(p)
  PROVE  Crece(p, n, L, T)
<1> DEFINE msg == [i \in 1..n |-> T + i - 1]
<1>1. n \in Nat /\ n >= 1
  BY KcpAssumption
<1>2. T \in Nat /\ enviados[p] \in Seq(Seq(Nat)) /\ L \in Nat
  BY KcpAssumption DEF IInv, TypeOK, EnvioOk
<1>3. msg \in Seq(Nat) /\ Len(msg) = n /\ \A i \in 1..n : msg[i] = T + i - 1
  BY <1>1, <1>2
<1>4. msg[1] = T
  BY <1>1, <1>2, <1>3
<1>5. enviados'[p] = Append(enviados[p], msg)
  BY DEF IInv, TypeOK, Send
<1> HIDE DEF msg
<1>6. /\ enviados'[p] \in Seq(Seq(Nat))
      /\ enviados'[p] # <<>>
      /\ Len(enviados'[p]) = L + 1
      /\ \A m \in 1..L : enviados'[p][m] = enviados[p][m]
      /\ enviados'[p][L + 1] = msg
  <2>1. /\ Append(enviados[p], msg) \in Seq(Seq(Nat))
        /\ Append(enviados[p], msg) # <<>>
        /\ Len(Append(enviados[p], msg)) = Len(enviados[p]) + 1
        /\ \A m \in 1..Len(enviados[p]) :
             Append(enviados[p], msg)[m] = enviados[p][m]
        /\ Append(enviados[p], msg)[Len(enviados[p]) + 1] = msg
    BY ZenonT(40), <1>2, <1>3, AppendProperties
  <2> QED  BY <1>5, <2>1
<1>7. \A m \in 1..L : Ini(p, m)' = Ini(p, m) /\ Fin(p, m)' = Fin(p, m)
  BY <1>6 DEF Ini, Fin
<1>8. Ini(p, L + 1)' = T /\ Fin(p, L + 1)' = T + n
  BY <1>3, <1>4, <1>6 DEF Ini, Fin
<1>9. Total(p)' = T + n
  <2>1. Total(p)' = enviados'[p][Len(enviados'[p])][1]
                      + Len(enviados'[p][Len(enviados'[p])])
    BY <1>6 DEF Total
  <2> QED  BY <2>1, <1>3, <1>4, <1>6
<1> QED  BY <1>2, <1>3, <1>6, <1>7, <1>8, <1>9 DEF Crece

\* The message just sent leaves the stream well formed, and the old pieces known.
LEMMA EnvioBien ==
  ASSUME IInv, NEW p \in Peers, NEW n \in 1..MaxFrag, Send(p, n)
  PROVE  EnvioOk(p)' /\ Recuerda(p)
<1>0. PICK L, T : L = Len(enviados[p]) /\ T = Total(p)
  OBVIOUS
<1>1. /\ L \in Nat /\ T \in Nat
      /\ Len(enviados'[p]) = L + 1
      /\ \A m \in 1..L : /\ enviados'[p][m] = enviados[p][m]
                         /\ Ini(p, m)' = Ini(p, m) /\ Fin(p, m)' = Fin(p, m)
      /\ Len(enviados'[p][L + 1]) = n
      /\ \A i \in 1..n : enviados'[p][L + 1][i] = T + i - 1
      /\ Ini(p, L + 1)' = T /\ Fin(p, L + 1)' = T + n
      /\ Total(p)' = T + n
  <2>1. Crece(p, n, L, T)
    BY <1>0, EnvioCrece
  <2> QED  BY <2>1 DEF Crece
<1>2. EnvioOk(p) /\ enviados[p] \in Seq(Seq(Nat)) /\ n \in Nat /\ MaxTrozos[p] \in Nat
  BY KcpAssumption DEF IInv, TypeOK
<1>3. Total(p)' \in 0..MaxTrozos[p]
  BY <1>0, <1>1, <1>2 DEF Send
<1>4. ASSUME NEW m \in 1..L PROVE Fin(p, m) \in Nat /\ Ini(p, m) <= Fin(p, m) /\ Fin(p, m) <= T
  <2>0. L \in 1..L
    BY <1>1
  <2>1. /\ Ini(p, m) \in Nat /\ Len(enviados[p][m]) \in 1..MaxFrag
        /\ Ini(p, L) \in Nat /\ Len(enviados[p][L]) \in 1..MaxFrag /\ Fin(p, L) = T
    BY <1>0, <1>2, <2>0 DEF EnvioOk
  <2>4. m < L => Fin(p, m) <= Ini(p, L)
    BY <1>0, <1>2, <2>0 DEF EnvioOk
  <2>2. MaxFrag \in Nat
    BY KcpAssumption
  <2>3. Fin(p, m) = Ini(p, m) + Len(enviados[p][m])
        /\ Fin(p, L) = Ini(p, L) + Len(enviados[p][L])
    BY DEF Fin, Ini
  <2>5. Len(enviados[p][m]) \in Nat /\ Len(enviados[p][L]) \in Nat
    BY <2>1, <2>2
  <2>6. CASE m = L
    <3>1. PICK a, b, e : a = Ini(p, L) /\ b = Len(enviados[p][L]) /\ e = Fin(p, L)
      OBVIOUS
    <3>2. a \in Nat /\ b \in Nat /\ e = a + b /\ e = T
      BY <2>1, <2>3, <2>5, <3>1
    <3>3. e \in Nat /\ a <= e /\ e <= T
      BY <3>2
    <3> QED  BY <2>6, <3>1, <3>3
  <2>7. CASE m < L
    <3>1. Fin(p, m) \in Nat /\ Ini(p, m) <= Fin(p, m)
      <4>1. PICK a, b : a = Ini(p, m) /\ b = Len(enviados[p][m])
        OBVIOUS
      <4>2. a \in Nat /\ b \in Nat /\ Fin(p, m) = a + b
        BY <2>1, <2>3, <2>5, <4>1
      <4> QED  BY <4>1, <4>2
    <3>2. Ini(p, L) <= T /\ T \in Nat
      <4>1. PICK a, b : a = Ini(p, L) /\ b = Len(enviados[p][L])
        OBVIOUS
      <4>2. a \in Nat /\ b \in Nat /\ T = a + b /\ T \in Nat
        BY <1>1, <2>1, <2>3, <2>5, <4>1
      <4> QED  BY <4>1, <4>2
    <3>3. Fin(p, m) <= Ini(p, L) /\ Ini(p, L) \in Nat
      BY <2>1, <2>4, <2>7
    <3>4. PICK a, b : a = Fin(p, m) /\ b = Ini(p, L)
      OBVIOUS
    <3>5. a <= T
      <4>1. a \in Nat /\ b \in Nat /\ T \in Nat /\ a <= b /\ b <= T
        BY <3>1, <3>2, <3>3, <3>4
      <4> QED  BY <4>1
    <3> QED  BY <3>1, <3>4, <3>5
  <2>8. m = L \/ m < L
    BY <1>1
  <2> QED  BY <2>6, <2>7, <2>8
<1>5. ASSUME NEW m \in 1..(L + 1)
      PROVE  /\ Len(enviados'[p][m]) \in 1..MaxFrag
             /\ \A i \in 1..Len(enviados'[p][m]) :
                  enviados'[p][m][i] = Ini(p, m)' + i - 1
             /\ Ini(p, m)' \in Nat
             /\ m = 1 => Ini(p, m)' = 0
             /\ m > 1 => Ini(p, m)' = Fin(p, m - 1)'
             /\ m = L + 1 => Fin(p, m)' = Total(p)'
  <2>1. CASE m <= L
    <3>1. m \in 1..L /\ (m > 1 => m - 1 \in 1..L)
      BY <1>1, <2>1
    <3> QED  BY ZenonT(40), <1>0, <1>1, <1>2, <2>1, <3>1 DEF EnvioOk
  <2>2. CASE m = L + 1
    <3>1. m = 1 => T = 0
      BY <1>0, <1>1, <1>2, <2>2 DEF EnvioOk
    <3>2. m > 1 => T = Fin(p, m - 1)'
      <4>1. m > 1 => m - 1 = L /\ L \in 1..L
        BY <1>1, <2>2
      <4> QED  BY <1>0, <1>1, <1>2, <4>1 DEF EnvioOk
    <3> QED  BY <1>1, <2>2, <3>1, <3>2
  <2> QED  BY <1>1, <2>1, <2>2
<1>6. ASSUME NEW m \in 1..(L + 1), NEW k \in 1..(L + 1), m < k
      PROVE  Fin(p, m)' <= Ini(p, k)'
  <2>1. m \in 1..L
    BY <1>1, <1>6
  <2>2. CASE k = L + 1
    BY <1>1, <1>4, <2>1, <2>2
  <2>3. CASE k \in 1..L
    BY <1>0, <1>1, <1>2, <1>6, <2>1, <2>3 DEF EnvioOk
  <2> QED  BY <1>1, <2>2, <2>3
<1>7. enviados'[p] # <<>>
  BY <1>1
<1>8. EnvioOk(p)'
  BY <1>1, <1>3, <1>5, <1>6, <1>7 DEF EnvioOk
<1>9. Recuerda(p)
  <2> SUFFICES ASSUME NEW d, NEW f, EsTrozo(p, d, f) PROVE EsTrozo(p, d, f)'
    BY DEF Recuerda
  <2>1. PICK m \in 1..L : Ini(p, m) <= d /\ d + f + 1 = Fin(p, m)
    BY <1>0 DEF EsTrozo
  <2>2. m \in 1..(L + 1) /\ Ini(p, m)' <= d /\ d + f + 1 = Fin(p, m)'
    BY <1>1, <2>1
  <2> QED  BY <1>1, <2>2 DEF EsTrozo
<1> QED  BY <1>8, <1>9


\* send cuts a message of n pieces into n fragments numbered backwards.
CorteBien(fr, T, n) ==
  /\ fr \in Seq(Trozo) /\ Len(fr) = n
  /\ \A i \in 1..n : fr[i].frg = n - i /\ fr[i].dato = T + i - 1

LEMMA FragmentosBien ==
  ASSUME NEW T \in Nat, NEW n \in 1..MaxFrag
  PROVE  CorteBien(Fragmentos(T, n), T, n)
<1> DEFINE fr == Fragmentos(T, n)
<1>1. n \in Nat /\ n <= MaxFrag /\ MaxFrag \in Nat
  BY KcpAssumption
<1>2. \A i \in 1..n : fr[i] = [frg |-> n - i, dato |-> T + i - 1]
  BY DEF Fragmentos
<1>3. \A i \in 1..n : n - i \in 0..(MaxFrag - 1) /\ T + i - 1 \in Nat
  BY <1>1
<1>4. \A i \in 1..n : [frg |-> n - i, dato |-> T + i - 1] \in Trozo
  BY <1>3 DEF Trozo
<1>5. fr = [i \in 1..n |-> fr[i]]
  BY DEF Fragmentos
<1> HIDE DEF fr
<1>6. fr \in Seq(Trozo) /\ Len(fr) = n
  BY <1>1, <1>2, <1>4, <1>5, FuncionSeq
<1>7. CorteBien(fr, T, n)
  BY <1>2, <1>6 DEF CorteBien
<1> QED  BY <1>7 DEF fr

\* The fragments go to the end of snd_queue, numbered after those before.
LEMMA SendCola ==
  ASSUME IInv, NEW p \in Peers, NEW n \in 1..MaxFrag, Send(p, n)
  PROVE  ColaOk(p)' /\ snd_queue'[p] \in Seq(Trozo)
<1>0. PICK L, T, x, q, r, fr :
        /\ L = Len(enviados[p]) /\ T = Total(p) /\ x = snd_nxt[p]
        /\ q = snd_queue[p] /\ r = snd_queue'[p] /\ fr = Fragmentos(T, n)
  OBVIOUS
<1>1. Crece(p, n, L, T) /\ Recuerda(p)
  BY <1>0, EnvioCrece, EnvioBien
<1>2. /\ L \in Nat /\ T \in Nat /\ Total(p)' = T + n
      /\ Len(enviados'[p]) = L + 1
      /\ Ini(p, L + 1)' = T /\ Fin(p, L + 1)' = T + n
  BY <1>1 DEF Crece
<1>3. n \in Nat
  BY KcpAssumption
<1>4. /\ q \in Seq(Trozo) /\ Len(q) \in Nat /\ x \in Nat
      /\ ColaOk(p) /\ snd_nxt'[p] = x
      /\ r = q \o fr
  BY <1>0 DEF IInv, TypeOK, Send
<1>5. /\ fr \in Seq(Trozo) /\ Len(fr) = n
      /\ \A i \in 1..n : fr[i].frg = n - i /\ fr[i].dato = T + i - 1
  <2>1. CorteBien(fr, T, n)
    BY <1>0, <1>2, FragmentosBien
  <2> QED  BY <2>1 DEF CorteBien
<1>6. /\ r \in Seq(Trozo)
      /\ Len(r) = Len(q) + n
      /\ \A i \in 1..(Len(q) + n) : r[i] = IF i <= Len(q) THEN q[i] ELSE fr[i - Len(q)]
  BY <1>4, <1>5, ConcatProperties
<1>7. /\ Len(q) = T - x
      /\ \A i \in 1..Len(q) : /\ q[i].dato = x + i - 1
                              /\ EsTrozo(p, q[i].dato, q[i].frg)
  BY <1>0, <1>4 DEF ColaOk
<1>8. ASSUME NEW i \in 1..Len(r)
      PROVE  r[i].dato = x + i - 1 /\ EsTrozo(p, r[i].dato, r[i].frg)'
  <2>0. i \in Nat /\ i >= 1 /\ i <= Len(q) + n
    BY <1>3, <1>4, <1>6
  <2>1. CASE i <= Len(q)
    <3>1. i \in 1..Len(q) /\ r[i] = q[i]
      BY <1>3, <1>4, <1>6, <2>0, <2>1
    <3> QED  BY <1>1, <1>7, <3>1 DEF Recuerda
  <2>2. CASE i > Len(q)
    <3>1. PICK j \in 1..n : j = i - Len(q) /\ r[i] = fr[j]
      BY <1>3, <1>4, <1>6, <2>0, <2>2
    <3>2. r[i].dato = T + j - 1 /\ r[i].frg = n - j
      BY <1>5, <3>1
    <3>3. T + j - 1 = x + i - 1
      BY <1>2, <1>4, <1>7, <2>0, <3>1
    <3>4. T <= T + j - 1 /\ (T + j - 1) + (n - j) + 1 = T + n
      BY <1>2, <1>3, <3>1
    <3>5. L + 1 \in 1..Len(enviados'[p])
      BY <1>2
    <3>6. EsTrozo(p, T + j - 1, n - j)'
      BY <1>2, <3>4, <3>5 DEF EsTrozo
    <3> QED  BY <3>2, <3>3, <3>6
  <2> QED  BY <1>4, <2>0, <2>1, <2>2
<1>9. Len(r) = Total(p)' - x
  BY <1>2, <1>3, <1>4, <1>6, <1>7
<1>10. ColaOk(p)'
  BY <1>0, <1>4, <1>8, <1>9 DEF ColaOk
<1> QED  BY <1>0, <1>6, <1>10

\* A message handed to send.
LEMMA SendPaso ==
  ASSUME IInv, NEW p \in Peers, NEW n \in 1..MaxFrag, Send(p, n)
  PROVE  IInv'
<1>0. PICK L, T : L = Len(enviados[p]) /\ T = Total(p)
  OBVIOUS
<1>1. Crece(p, n, L, T) /\ EnvioOk(p)' /\ Recuerda(p)
  BY <1>0, EnvioCrece, EnvioBien
<1>2. ColaOk(p)' /\ snd_queue'[p] \in Seq(Trozo)
  BY SendCola
<1>3. /\ UNCHANGED <<snd_buf, snd_una, snd_nxt, rmt_wnd, rcv_nxt, rcv_buf>>
      /\ UNCHANGED <<rcv_queue, acklist, probe, red, entregados>>
  BY DEF Send, rcvVars
<1>4. /\ snd_queue' = [snd_queue EXCEPT ![p] = snd_queue'[p]]
      /\ enviados' = [enviados EXCEPT ![p] = enviados'[p]]
  BY DEF IInv, TypeOK, Send
<1>5. TypeOK'
  <2>1. enviados'[p] \in Seq(Seq(Nat))
    BY <1>1 DEF Crece
  <2>2. snd_queue \in [Peers -> Seq(Trozo)] /\ enviados \in [Peers -> Seq(Seq(Nat))]
    BY DEF IInv, TypeOK
  <2>3. snd_queue' \in [Peers -> Seq(Trozo)] /\ enviados' \in [Peers -> Seq(Seq(Nat))]
    BY <1>2, <1>4, <2>1, <2>2
  <2> QED  BY <1>3, <2>3 DEF IInv, TypeOK
<1>6. ASSUME NEW q \in Peers, q # p
      PROVE  /\ snd_queue'[q] = snd_queue[q] /\ enviados'[q] = enviados[q]
             /\ Recuerda(q)
  <2>1. snd_queue'[q] = snd_queue[q] /\ enviados'[q] = enviados[q]
    BY <1>4, <1>6 DEF IInv, TypeOK
  <2> QED  BY <2>1 DEF Recuerda, EsTrozo, Ini, Fin
<1>7. \A q \in Peers : /\ Conserva(q) /\ Recuerda(q) /\ Otro(q) \in Peers
                       /\ snd_nxt[q] \in Nat /\ rcv_nxt[q] \in Nat
  BY <1>1, <1>3, <1>6, Quietos, OtroPeer DEF IInv, TypeOK
<1>8. ASSUME NEW q \in Peers
      PROVE  /\ VueloOk(q)' /\ GuardaOk(q)'
             /\ RedOk(q)' /\ AckOk(q)' /\ ReciboOk(q)'
  BY <1>3, <1>7, <1>8, Marco
<1>9. ASSUME NEW q \in Peers, q # p PROVE EnvioOk(q)' /\ ColaOk(q)'
  BY <1>3, <1>6, <1>9, Marco
<1>10. ASSUME NEW q \in Peers PROVE EntregaOk(q)'
  <2>1. CASE Otro(q) # p
    BY <1>3, <1>6, <1>7, <2>1, Marco
  <2>2. CASE Otro(q) = p
    <3>1. EntregaOk(q) /\ Len(entregados[q]) \in Nat
      BY DEF IInv, TypeOK
    <3>2. /\ Len(entregados[q]) <= L
          /\ \A j \in 1..Len(entregados[q]) : entregados[q][j] = enviados[p][j]
      BY <1>0, <2>2, <3>1 DEF EntregaOk
    <3>3. L \in Nat /\ Len(enviados'[p]) = L + 1
      BY <1>1 DEF Crece
    <3>4. \A m \in 1..Len(entregados[q]) :
            enviados'[p][m] = enviados[p][m] /\ Fin(p, m)' = Fin(p, m)
      BY <1>1, <3>1, <3>2, <3>3 DEF Crece
    <3>5. Len(entregados[q]) # 0 => Len(entregados[q]) \in 1..Len(entregados[q])
      BY <3>1
    <3>6. Len(entregados[q]) # 0 =>
            Fin(p, Len(entregados[q]))' = Fin(p, Len(entregados[q]))
      BY <1>3, <3>4, <3>5 DEF Fin
    <3>7. Len(entregados[q]) <= Len(enviados'[p])
      BY <3>1, <3>2, <3>3
    <3> QED  BY <1>3, <2>2, <3>1, <3>2, <3>4, <3>6, <3>7 DEF EntregaOk
  <2> QED  BY <2>1, <2>2
<1> QED  BY <1>1, <1>2, <1>5, <1>8, <1>9, <1>10 DEF IInv


\* The messages of a stream are not empty and do not overlap.
LEMMA MensajesSeguidos ==
  ASSUME NEW o \in Peers, EnvioOk(o), NEW N, N = Len(enviados[o]), N \in Nat
  PROVE  /\ \A m \in 1..N : /\ Ini(o, m) \in Nat /\ Fin(o, m) \in Nat
                            /\ Ini(o, m) < Fin(o, m)
                            /\ Len(enviados[o][m]) = Fin(o, m) - Ini(o, m)
         /\ \A m, k \in 1..N : m < k => Fin(o, m) <= Ini(o, k)
         /\ 1 \in 1..N => Ini(o, 1) = 0
         /\ \A m \in 1..N : m + 1 \in 1..N => Ini(o, m + 1) = Fin(o, m)
<1>1. ASSUME NEW m \in 1..N
      PROVE  /\ Ini(o, m) \in Nat /\ Fin(o, m) \in Nat /\ Ini(o, m) < Fin(o, m)
             /\ Len(enviados[o][m]) = Fin(o, m) - Ini(o, m)
  <2>1. PICK i, l : i = Ini(o, m) /\ l = Len(enviados[o][m])
    OBVIOUS
  <2>2. i \in Nat /\ l \in 1..MaxFrag
    BY <2>1 DEF EnvioOk
  <2>3. l \in Nat /\ l >= 1
    BY <2>2, KcpAssumption
  <2>4. Fin(o, m) = i + l
    BY <2>1 DEF Fin, Ini
  <2> QED  BY <2>1, <2>2, <2>3, <2>4
<1>2. \A m, k \in 1..N : m < k => Fin(o, m) <= Ini(o, k)
  BY DEF EnvioOk
<1>3. 1 \in 1..N => Ini(o, 1) = 0
  BY DEF EnvioOk
<1>4. ASSUME NEW m \in 1..N, m + 1 \in 1..N PROVE Ini(o, m + 1) = Fin(o, m)
  <2>1. PICK k \in 1..N : k = m + 1 /\ k > 1 /\ k - 1 = m
    BY <1>4
  <2>2. Ini(o, k) = Fin(o, k - 1)
    BY <2>1 DEF EnvioOk
  <2> QED  BY <2>1, <2>2
<1> QED  BY <1>1, <1>2, <1>3, <1>4

\* b is where the first e messages of o end; d is there, or after it and inside the
\* next message; d, with f pieces after it, is of the message after those e.
FinDe(o, e, b) ==
  e \in 0..Len(enviados[o]) /\ b = IF e = 0 THEN 0 ELSE Fin(o, e)
Siguiente(o, e, b, d) ==
  b <= d /\ (d = b \/ (e + 1 \in 1..Len(enviados[o]) /\ d < Fin(o, e + 1)))
DelMensaje(o, e, b, d, f) ==
  /\ e + 1 \in 1..Len(enviados[o]) /\ Ini(o, e + 1) = b
  /\ d + f + 1 = Fin(o, e + 1)

\* A piece is of the message where its position falls.
LEMMA Localiza ==
  ASSUME NEW o \in Peers, EnvioOk(o), Len(enviados[o]) \in Nat,
         NEW e, NEW b, FinDe(o, e, b), NEW d \in Nat, NEW f \in Nat,
         EsTrozo(o, d, f), Siguiente(o, e, b, d)
  PROVE  DelMensaje(o, e, b, d, f)
<1>0. PICK N \in Nat : N = Len(enviados[o])
  OBVIOUS
<1>a. /\ e \in 0..N /\ b = IF e = 0 THEN 0 ELSE Fin(o, e)
      /\ b <= d /\ (d = b \/ (e + 1 \in 1..N /\ d < Fin(o, e + 1)))
  BY <1>0 DEF FinDe, Siguiente
<1>1. /\ \A m \in 1..N : /\ Ini(o, m) \in Nat /\ Fin(o, m) \in Nat
                         /\ Ini(o, m) < Fin(o, m)
      /\ \A m, k \in 1..N : m < k => Fin(o, m) <= Ini(o, k)
      /\ 1 \in 1..N => Ini(o, 1) = 0
      /\ \A m \in 1..N : m + 1 \in 1..N => Ini(o, m + 1) = Fin(o, m)
  BY <1>0, MensajesSeguidos
<1>2. PICK m \in 1..N : Ini(o, m) <= d /\ d + f + 1 = Fin(o, m)
  BY <1>0 DEF EsTrozo
<1>3. b \in Nat
  BY <1>1, <1>a
<1>4. e + 1 \in 1..N => Ini(o, e + 1) = b
  BY <1>1, <1>a
<1>5. ~(m <= e)
  <2> SUFFICES ASSUME m <= e PROVE FALSE
    OBVIOUS
  <2>1. e \in 1..N /\ b = Fin(o, e)
    BY <1>a
  <2>2. Fin(o, m) <= Fin(o, e)
    <3>1. m = e \/ m < e
      BY <1>a
    <3>2. CASE m = e
      BY <1>1, <2>1, <3>2
    <3>3. CASE m < e
      <4>1. /\ Fin(o, m) <= Ini(o, e) /\ Ini(o, e) < Fin(o, e)
            /\ Fin(o, m) \in Nat /\ Ini(o, e) \in Nat /\ Fin(o, e) \in Nat
        BY <1>1, <2>1, <3>3
      <4> QED  BY <4>1
    <3> QED  BY <3>1, <3>2, <3>3
  <2> QED  BY <1>a, <1>1, <1>2, <1>3, <2>1, <2>2
<1>6. e + 1 \in 1..N
  BY <1>5, <1>a
<1>7. ~(m > e + 1)
  <2> SUFFICES ASSUME m > e + 1 PROVE FALSE
    OBVIOUS
  <2>1. PICK k \in 1..N : k = e + 1
    BY <1>6
  <2>2. Fin(o, k) <= Ini(o, m) /\ Ini(o, k) < Fin(o, k) /\ Ini(o, k) = b
    BY <1>1, <1>4, <1>6, <2>1
  <2>3. Fin(o, k) \in Nat /\ Ini(o, m) \in Nat
    BY <1>1, <2>1
  <2> QED  BY <1>a, <1>2, <1>3, <2>1, <2>2, <2>3
<1>8. m = e + 1
  BY <1>5, <1>7, <1>a
<1> QED  BY <1>0, <1>2, <1>4, <1>6, <1>8 DEF DelMensaje

\* A complete message at the head of rcv_queue is the next one that was sent.
SiguienteBien(o, e, b, cola) ==
  /\ e + 1 \in 1..Len(enviados[o]) /\ b \in Nat
  /\ Ini(o, e + 1) = b
  /\ Len(enviados[o][e + 1]) = cola[1].frg + 1
  /\ Fin(o, e + 1) = b + cola[1].frg + 1
  /\ \A i \in 1..Len(cola) :
       /\ cola[i].dato = b + i - 1
       /\ i <= cola[1].frg + 1 => cola[i].frg = cola[1].frg + 1 - i

LEMMA MensajeSiguiente ==
  ASSUME IInv, NEW p \in Peers, NEW o, o = Otro(p), NEW cola, cola = rcv_queue[p],
         cola # <<>>, NEW e, e = Len(entregados[p]),
         NEW b, b = rcv_nxt[p] - Len(cola)
  PROVE  SiguienteBien(o, e, b, cola)
<1>0. PICK N : N = Len(enviados[o])
  OBVIOUS
<1>1. /\ o \in Peers /\ EnvioOk(o) /\ ReciboOk(p) /\ EntregaOk(p)
      /\ cola \in Seq(Segmento) /\ Len(cola) \in Nat /\ Len(cola) >= 1
      /\ N \in Nat /\ e \in Nat /\ rcv_nxt[p] \in Nat
  BY SMTT(30), <1>0, OtroPeer DEF IInv, TypeOK
<1>2. FinDe(o, e, b)
  BY <1>0, <1>1 DEF EntregaOk, FinDe
<1>3. b \in Nat
  <2>1. e \in 0..N /\ b = IF e = 0 THEN 0 ELSE Fin(o, e)
    BY <1>0, <1>2 DEF FinDe
  <2>2. \A m \in 1..N : Fin(o, m) \in Nat
    BY <1>0, <1>1, MensajesSeguidos
  <2> QED  BY <2>1, <2>2
<1>4. ASSUME NEW i \in 1..Len(cola)
      PROVE  /\ cola[i].dato = b + i - 1 /\ cola[i].frg \in Nat
             /\ EsTrozo(o, b + i - 1, cola[i].frg)
  <2>1. cola[i] \in Segmento
    BY <1>1
  <2>2. cola[i].sn = b + i - 1 /\ LlegoOk(p, cola[i])
    BY <1>1 DEF ReciboOk
  <2> QED  BY <2>1, <2>2, KcpAssumption DEF LlegoOk, Segmento
<1>a. 1 \in 1..Len(cola)
  BY <1>1
<1>5. PICK f \in Nat : f = cola[1].frg
  BY <1>4, <1>a
<1>6. e + 1 \in 1..N /\ Ini(o, e + 1) = b /\ b + f + 1 = Fin(o, e + 1)
  <2>1. b + 1 - 1 = b
    BY <1>3
  <2>2. EsTrozo(o, b, f)
    BY <1>4, <1>5, <1>a, <2>1
  <2>3. Siguiente(o, e, b, b)
    BY <1>3 DEF Siguiente
  <2>4. DelMensaje(o, e, b, b, f)
    BY <1>0, <1>1, <1>2, <1>3, <2>2, <2>3, Localiza
  <2> QED  BY <1>0, <2>4 DEF DelMensaje
<1>7. Len(enviados[o][e + 1]) = f + 1
  <2>1. Len(enviados[o][e + 1]) = Fin(o, e + 1) - Ini(o, e + 1)
    BY <1>0, <1>1, <1>6, MensajesSeguidos
  <2> QED  BY <1>3, <1>6, <2>1
<1>8. ASSUME NEW i \in 1..Len(cola), i <= f + 1
      PROVE  cola[i].frg = f + 1 - i
  <2>0. i \in Nat /\ i >= 1
    BY <1>1
  <2>1. PICK d \in Nat : d = b + i - 1
    BY <1>3, <2>0
  <2>2. PICK g \in Nat : g = cola[i].frg
    BY <1>4
  <2>3. EsTrozo(o, d, g)
    BY <1>4, <2>1, <2>2
  <2>4. b <= d /\ d < Fin(o, e + 1)
    BY <1>3, <1>6, <1>8, <2>0, <2>1
  <2>5. Siguiente(o, e, b, d)
    BY <1>0, <1>6, <2>4 DEF Siguiente
  <2>6. DelMensaje(o, e, b, d, g)
    BY <1>0, <1>1, <1>2, <2>3, <2>5, Localiza
  <2>7. d + g + 1 = b + f + 1
    BY <1>6, <2>6 DEF DelMensaje
  <2>8. g = f + 1 - i
    BY SMTT(30), <1>3, <2>0, <2>1, <2>7
  <2> QED  BY <2>2, <2>8
<1> QED  BY <1>0, <1>3, <1>4, <1>5, <1>6, <1>7, <1>8 DEF SiguienteBien


\* A sequence is a function on 1 .. its length.
LEMMA SeqFuncion ==
  ASSUME NEW S, NEW m \in Seq(S), NEW k, k = Len(m)
  PROVE  m = [i \in 1..k |-> m[i]]
OBVIOUS

\* recv returns the next message that was sent and leaves the receiver in order.
LEMMA RecvMensaje ==
  ASSUME IInv, NEW p \in Peers, Recv(p)
  PROVE  /\ ReciboOk(p)' /\ EntregaOk(p)' /\ Conserva(p)
         /\ rcv_nxt'[p] \in Nat /\ rcv_nxt[p] <= rcv_nxt'[p]
         /\ rcv_queue'[p] \in Seq(Segmento) /\ rcv_buf'[p] \in SUBSET Segmento
         /\ entregados'[p] \in Seq(Seq(Nat))
         /\ Len(entregados'[p]) = Len(entregados[p]) + 1
         /\ Len(entregados[p]) + 1 \in 1..Len(enviados[Otro(p)])
         /\ entregados'[p] = Append(entregados[p],
                                    enviados[Otro(p)][Len(entregados[p]) + 1])
<1>0. PICK o, cola, e, b, x, N : /\ o = Otro(p) /\ cola = rcv_queue[p]
                                 /\ e = Len(entregados[p]) /\ x = rcv_nxt[p]
                                 /\ b = x - Len(cola) /\ N = Len(enviados[o])
  OBVIOUS
<1>1. /\ TypeOK /\ ReciboOk(p) /\ EntregaOk(p) /\ o \in Peers
      /\ rcv_buf[p] \in SUBSET Segmento /\ cola \in Seq(Segmento)
      /\ x \in Nat /\ snd_nxt[o] \in Nat /\ RcvWnd \in Nat
      /\ Len(cola) \in Nat /\ e \in Nat /\ N \in Nat
      /\ enviados[o] \in Seq(Seq(Nat)) /\ entregados[p] \in Seq(Seq(Nat))
  <2>1. TypeOK /\ ReciboOk(p) /\ EntregaOk(p) /\ o \in Peers /\ RcvWnd \in Nat
    BY <1>0, OtroPeer, KcpAssumption DEF IInv
  <2>2. /\ rcv_buf[p] \in SUBSET Segmento /\ cola \in Seq(Segmento)
        /\ x \in Nat /\ snd_nxt[o] \in Nat
        /\ enviados[o] \in Seq(Seq(Nat)) /\ entregados[p] \in Seq(Seq(Nat))
    BY <1>0, <2>1 DEF TypeOK
  <2>3. Len(cola) \in Nat /\ e \in Nat /\ N \in Nat
    BY <1>0, <2>2
  <2> QED  BY <2>1, <2>2, <2>3
<1>2. UNCHANGED <<enviados, snd_nxt>>
  BY DEF Recv, sndVars
<1>3. cola # <<>> /\ Len(cola) >= cola[1].frg + 1
  <2>1. cola # <<>> /\ Len(cola) >= Head(cola).frg + 1
    BY <1>0 DEF Recv, HayMensaje
  <2>2. Head(cola) = cola[1]
    BY <1>1, <2>1
  <2> QED  BY <2>1, <2>2
<1>4. SiguienteBien(o, e, b, cola)
  BY <1>0, <1>3, MensajeSiguiente
<1>5. PICK k \in 1..Len(rcv_queue[p]), n \in rcv_nxt[p]..(rcv_nxt[p] + RcvWnd) :
        LET resto == SubSeq(rcv_queue[p], k + 1, Len(rcv_queue[p])) IN
        /\ \A j \in 1..(k - 1) : rcv_queue[p][j].frg # 0
        /\ rcv_queue[p][k].frg = 0 \/ k = Len(rcv_queue[p])
        /\ ParaEn(rcv_buf[p], rcv_nxt[p], RcvWnd - Len(resto), n)
        /\ entregados' = [entregados EXCEPT ![p] =
             Append(@, [i \in 1..k |-> rcv_queue[p][i].dato])]
        /\ rcv_queue' = [rcv_queue EXCEPT ![p] =
             resto \o Tramo(rcv_buf[p], rcv_nxt[p], n)]
        /\ rcv_buf' = [rcv_buf EXCEPT ![p] = {y \in @ : y.sn >= n}]
        /\ rcv_nxt' = [rcv_nxt EXCEPT ![p] = n]
  BY DEF Recv
<1>6. PICK resto : resto = SubSeq(rcv_queue[p], k + 1, Len(rcv_queue[p]))
  OBVIOUS
<1>b. k \in 1..Len(cola) /\ k \in Nat /\ n \in Int
  BY <1>0, <1>1
<1>7. /\ \A j \in 1..(k - 1) : cola[j].frg # 0
      /\ cola[k].frg = 0 \/ k = Len(cola)
      /\ ParaEn(rcv_buf[p], rcv_nxt[p], RcvWnd - Len(resto), n)
      /\ entregados'[p] = Append(entregados[p], [i \in 1..k |-> cola[i].dato])
      /\ rcv_queue'[p] = resto \o Tramo(rcv_buf[p], rcv_nxt[p], n)
      /\ rcv_buf'[p] = {y \in rcv_buf[p] : y.sn >= n}
      /\ rcv_nxt'[p] = n
  <2>1. /\ entregados = [q \in Peers |-> entregados[q]]
        /\ rcv_queue = [q \in Peers |-> rcv_queue[q]]
        /\ rcv_buf = [q \in Peers |-> rcv_buf[q]]
        /\ rcv_nxt = [q \in Peers |-> rcv_nxt[q]]
    BY <1>1 DEF TypeOK
  <2>2. entregados'[p] = Append(entregados[p], [i \in 1..k |-> rcv_queue[p][i].dato])
    BY <1>5, <2>1
  <2>3. /\ rcv_queue'[p] = resto \o Tramo(rcv_buf[p], rcv_nxt[p], n)
        /\ rcv_buf'[p] = {y \in rcv_buf[p] : y.sn >= n}
        /\ rcv_nxt'[p] = n
    BY <1>5, <1>6, <2>1
  <2>4. ParaEn(rcv_buf[p], rcv_nxt[p], RcvWnd - Len(resto), n)
    BY <1>5, <1>6
  <2> QED  BY <1>0, <1>5, <2>2, <2>3, <2>4
<1>8. k = cola[1].frg + 1
  <2>1. PICK f : f = cola[1].frg
    OBVIOUS
  <2>2. f \in Nat
    <3>1. cola[1] \in Segmento
      BY <1>1, <1>3
    <3> QED  BY <2>1, <3>1, KcpAssumption DEF Segmento
  <2>3. \A i \in 1..Len(cola) : i <= f + 1 => cola[i].frg = f + 1 - i
    BY <1>4, <2>1 DEF SiguienteBien
  <2>4. f + 1 \in 1..Len(cola) /\ cola[f + 1].frg = 0
    <3>1. f + 1 \in 1..Len(cola) /\ f + 1 <= f + 1 /\ f + 1 - (f + 1) = 0
      BY SMTT(30), <1>1, <1>3, <2>1, <2>2
    <3> QED  BY <2>3, <3>1
  <2>5. k <= f + 1
    BY <1>1, <1>b, <1>7, <2>2, <2>4
  <2>6. k >= f + 1
    <3>1. CASE cola[k].frg = 0
      BY <1>1, <1>b, <2>2, <2>3, <2>5, <3>1
    <3>2. CASE k = Len(cola)
      BY <2>4, <3>2, <1>1, <2>2
    <3> QED  BY <1>7, <3>1, <3>2
  <2> QED  BY <2>1, <2>2, <2>5, <2>6, <1>1, <1>b
<1>9. /\ e + 1 \in 1..N /\ b \in Nat
      /\ enviados[o][e + 1] \in Seq(Nat)
      /\ Len(enviados[o][e + 1]) = k
      /\ Ini(o, e + 1) = b
      /\ Fin(o, e + 1) = b + k
      /\ \A i \in 1..Len(cola) : cola[i].dato = b + i - 1
  <2>1. PICK f : f = cola[1].frg
    OBVIOUS
  <2>2. /\ e + 1 \in 1..N /\ b \in Nat /\ Ini(o, e + 1) = b
        /\ Len(enviados[o][e + 1]) = f + 1 /\ Fin(o, e + 1) = b + f + 1
        /\ \A i \in 1..Len(cola) : cola[i].dato = b + i - 1
    BY <1>0, <1>4, <2>1 DEF SiguienteBien
  <2>3. f \in Nat
    <3>1. cola[1] \in Segmento
      BY <1>1, <1>b
    <3> QED  BY <2>1, <3>1, KcpAssumption DEF Segmento
  <2>4. b + f + 1 = b + k
    BY <1>8, <2>1, <2>2, <2>3
  <2>5. enviados[o][e + 1] \in Seq(Nat)
    <3>1. PICK E, i : E = enviados[o] /\ i = e + 1
      OBVIOUS
    <3>2. E \in Seq(Seq(Nat)) /\ i \in 1..Len(E)
      BY <1>0, <1>1, <2>2, <3>1
    <3>3. E[i] \in Seq(Nat)
      BY <3>2
    <3> QED  BY <3>1, <3>3
  <2> QED  BY <1>8, <2>1, <2>2, <2>4, <2>5
<1>10. enviados[o][e + 1] = [i \in 1..k |-> cola[i].dato]
  <2>1. PICK m : m = enviados[o][e + 1]
    OBVIOUS
  <2>2. \A i \in 1..k : m[i] = b + i - 1
    BY ZenonT(40), <1>0, <1>1, <1>9, <2>1 DEF IInv, EnvioOk
  <2>3. \A i \in 1..k : i \in 1..Len(cola)
    BY <1>1, <1>b
  <2>4. m = [i \in 1..k |-> m[i]]
    BY <1>9, <2>1, SeqFuncion
  <2>5. \A i \in 1..k : m[i] = cola[i].dato
    BY <1>9, <2>2, <2>3
  <2> QED  BY <2>1, <2>4, <2>5
<1>11. /\ resto \in Seq(Segmento) /\ Len(resto) = Len(cola) - k
       /\ \A i \in 1..(Len(cola) - k) : resto[i] = cola[k + i]
  <2>1. \A i \in (k + 1)..Len(cola) : cola[i] \in Segmento
    BY <1>1, <1>b
  <2>2. k + 1 \in Int /\ Len(cola) \in Int
    BY <1>1, <1>b
  <2>3. /\ SubSeq(cola, k + 1, Len(cola)) \in Seq(Segmento)
        /\ Len(SubSeq(cola, k + 1, Len(cola))) =
             IF k + 1 <= Len(cola) THEN Len(cola) - (k + 1) + 1 ELSE 0
        /\ \A i \in 1..(Len(cola) - (k + 1) + 1) :
             SubSeq(cola, k + 1, Len(cola))[i] = cola[(k + 1) + i - 1]
    BY <2>1, <2>2, SubSeqProperties
  <2> QED  BY SMTT(30), <1>0, <1>1, <1>b, <1>6, <2>3
<1>12. /\ Len(resto) <= RcvWnd /\ n \in Int
       /\ rcv_nxt[p] <= snd_nxt[Otro(p)]
       /\ \A y \in rcv_buf[p] : /\ y.sn >= rcv_nxt[p] /\ y.sn < rcv_nxt[p] + RcvWnd
                                /\ LlegoOk(p, y)
  <2>1. Len(cola) <= RcvWnd
    BY <1>0, <1>1 DEF ReciboOk
  <2>2. Len(resto) <= RcvWnd
    BY <1>1, <1>b, <1>11, <2>1
  <2> QED  BY <1>1, <1>b, <2>2 DEF ReciboOk
<1>13. \A i \in 1..Len(resto) : /\ resto[i].sn = rcv_nxt[p] - Len(resto) + i - 1
                                /\ LlegoOk(p, resto[i])
  <2> SUFFICES ASSUME NEW i \in 1..Len(resto)
               PROVE  resto[i].sn = rcv_nxt[p] - Len(resto) + i - 1 /\ LlegoOk(p, resto[i])
    OBVIOUS
  <2>1. PICK j \in 1..Len(cola) : j = k + i /\ resto[i] = cola[j]
    BY <1>1, <1>b, <1>11
  <2>2. cola[j].sn = x - Len(cola) + j - 1 /\ LlegoOk(p, cola[j])
    BY <1>0, <1>1 DEF ReciboOk
  <2>3. x - Len(cola) + j - 1 = x - Len(resto) + i - 1
    BY <1>1, <1>b, <1>11, <2>1
  <2> QED  BY <1>0, <2>1, <2>2, <2>3
<1>14. /\ ReciboOk(p)'
       /\ rcv_nxt'[p] - Len(rcv_queue'[p]) = rcv_nxt[p] - Len(resto)
       /\ rcv_nxt'[p] \in Nat /\ rcv_nxt[p] <= rcv_nxt'[p]
       /\ rcv_queue'[p] \in Seq(Segmento)
       /\ rcv_buf'[p] \in SUBSET Segmento
  <2>1. /\ TypeOK /\ UNCHANGED <<enviados, snd_nxt>>
        /\ rcv_buf[p] \in SUBSET Segmento /\ resto \in Seq(Segmento)
    BY <1>1, <1>2, <1>11
  <2> QED  BY <1>7, <1>12, <1>13, <2>1, AvanzaRecibo
<1>15. /\ entregados'[p] = Append(entregados[p], enviados[o][e + 1])
       /\ entregados'[p] \in Seq(Seq(Nat))
       /\ Len(entregados'[p]) = e + 1
       /\ \A j \in 1..e : entregados'[p][j] = entregados[p][j]
       /\ entregados'[p][e + 1] = enviados[o][e + 1]
  <2>1. entregados'[p] = Append(entregados[p], enviados[o][e + 1])
    BY <1>7, <1>10
  <2>2. PICK g, m : g = entregados[p] /\ m = enviados[o][e + 1]
    OBVIOUS
  <2>3. g \in Seq(Seq(Nat)) /\ m \in Seq(Nat) /\ Len(g) = e
    BY <1>0, <1>1, <1>9, <2>2
  <2>4. /\ Append(g, m) \in Seq(Seq(Nat)) /\ Len(Append(g, m)) = e + 1
        /\ \A j \in 1..e : Append(g, m)[j] = g[j]
        /\ Append(g, m)[e + 1] = m
    BY <2>3, AppendProperties
  <2> QED  BY <2>1, <2>2, <2>4
<1>16. EntregaOk(p)'
  <2>1. rcv_nxt'[p] - Len(rcv_queue'[p]) = Fin(o, e + 1)
    <3>1. PICK u, v : u = Len(cola) /\ v = Len(resto)
      OBVIOUS
    <3>2. /\ u \in Nat /\ v \in Nat /\ k \in Nat /\ x \in Nat
          /\ v = u - k /\ b = x - u
      BY <1>0, <1>1, <1>b, <1>11, <3>1
    <3>3. x - v = b + k
      BY <3>2
    <3>4. rcv_nxt'[p] - Len(rcv_queue'[p]) = x - v
      BY <1>0, <1>14, <3>1
    <3> QED  BY <1>9, <3>3, <3>4
  <2>2. \A j \in 1..(e + 1) : entregados'[p][j] = enviados[o][j]
    <3>1. \A j \in 1..e : entregados[p][j] = enviados[o][j]
      BY <1>0, <1>1 DEF EntregaOk
    <3> QED  BY SMTT(30), <1>1, <1>15, <3>1
  <2>3. Len(entregados'[p]) = e + 1 /\ e + 1 # 0 /\ e + 1 <= N
    BY <1>1, <1>9, <1>15
  <2>4. Fin(o, Len(entregados'[p])) = Fin(o, e + 1)
    BY <2>3
  <2> QED  BY <1>0, <1>2, <2>1, <2>2, <2>3 DEF EntregaOk, Fin
<1>17. Conserva(p)
  <2>1. \A y \in rcv_buf[p] : y.sn >= rcv_nxt'[p] => y \in rcv_buf'[p]
    BY <1>7
  <2> QED  BY <1>0, <1>1, <1>14, <2>1, RecibidoQueda DEF Conserva
<1> QED  BY <1>0, <1>9, <1>14, <1>15, <1>16, <1>17

\* A message returned by recv.
LEMMA RecvPaso ==
  ASSUME IInv, NEW p \in Peers, Recv(p)
  PROVE  IInv' /\ \A q \in Peers : rcv_nxt[q] <= rcv_nxt'[q]
<1>1. /\ ReciboOk(p)' /\ EntregaOk(p)' /\ Conserva(p)
      /\ rcv_nxt'[p] \in Nat /\ rcv_nxt[p] <= rcv_nxt'[p]
      /\ rcv_queue'[p] \in Seq(Segmento) /\ rcv_buf'[p] \in SUBSET Segmento
      /\ entregados'[p] \in Seq(Seq(Nat))
  BY RecvMensaje
<1>2. /\ UNCHANGED <<snd_queue, snd_buf, snd_una, snd_nxt, rmt_wnd, acklist>>
      /\ UNCHANGED <<red, enviados>>
  BY DEF Recv, sndVars
<1>3. /\ rcv_queue' = [rcv_queue EXCEPT ![p] = rcv_queue'[p]]
      /\ rcv_buf' = [rcv_buf EXCEPT ![p] = rcv_buf'[p]]
      /\ rcv_nxt' = [rcv_nxt EXCEPT ![p] = rcv_nxt'[p]]
      /\ entregados' = [entregados EXCEPT ![p] = entregados'[p]]
      /\ probe' = [probe EXCEPT ![p] = probe'[p]]
  BY DEF IInv, TypeOK, Recv
<1>4. probe'[p] \in BOOLEAN
  BY DEF IInv, TypeOK, Recv
<1>5. TypeOK'
  <2>1. /\ rcv_queue' \in [Peers -> Seq(Segmento)]
        /\ rcv_buf' \in [Peers -> SUBSET Segmento] /\ rcv_nxt' \in [Peers -> Nat]
        /\ entregados' \in [Peers -> Seq(Seq(Nat))] /\ probe' \in [Peers -> BOOLEAN]
    BY <1>1, <1>3, <1>4 DEF IInv, TypeOK
  <2> QED  BY <1>2, <2>1 DEF IInv, TypeOK
<1>6. ASSUME NEW q \in Peers, q # p
      PROVE  /\ rcv_queue'[q] = rcv_queue[q] /\ rcv_buf'[q] = rcv_buf[q]
             /\ rcv_nxt'[q] = rcv_nxt[q] /\ entregados'[q] = entregados[q]
             /\ Conserva(q)
  <2>1. /\ rcv_queue'[q] = rcv_queue[q] /\ rcv_buf'[q] = rcv_buf[q]
        /\ rcv_nxt'[q] = rcv_nxt[q] /\ entregados'[q] = entregados[q]
    BY <1>3, <1>6 DEF IInv, TypeOK
  <2> QED  BY <2>1 DEF Conserva, Recibido
<1>7. \A q \in Peers : /\ Conserva(q) /\ Recuerda(q) /\ Otro(q) \in Peers
                       /\ rcv_nxt[q] \in Nat /\ rcv_nxt'[q] \in Nat
                       /\ rcv_nxt[q] <= rcv_nxt'[q] /\ snd_nxt[q] \in Nat
  <2>1. \A q \in Peers : Recuerda(q) /\ Otro(q) \in Peers
    BY <1>2, Quietos, OtroPeer
  <2>2. \A q \in Peers : rcv_nxt[q] \in Nat /\ snd_nxt[q] \in Nat
    BY DEF IInv, TypeOK
  <2> QED  BY <1>1, <1>6, <2>1, <2>2
<1>8. ASSUME NEW q \in Peers
      PROVE  /\ EnvioOk(q)' /\ ColaOk(q)' /\ VueloOk(q)' /\ GuardaOk(q)'
             /\ RedOk(q)' /\ AckOk(q)'
  BY <1>2, <1>7, <1>8, Marco
<1>9. ASSUME NEW q \in Peers, q # p PROVE ReciboOk(q)' /\ EntregaOk(q)'
  BY <1>2, <1>6, <1>7, <1>9, Marco
<1> QED  BY <1>1, <1>5, <1>7, <1>8, <1>9 DEF IInv


\* flush stays below snd_una + snd_wnd and takes no more than there is.
LEMMA CuantosBien ==
  ASSUME IInv, NEW p \in Peers
  PROVE  /\ Cuantos(p) \in Nat /\ Cuantos(p) <= Len(snd_queue[p])
         /\ snd_nxt[p] + Cuantos(p) <= snd_una[p] + SndWnd
<1>1. /\ snd_nxt[p] \in Nat /\ snd_una[p] \in Nat /\ rmt_wnd[p] \in Nat
      /\ SndWnd \in Nat /\ Len(snd_queue[p]) \in Nat
      /\ snd_nxt[p] <= snd_una[p] + SndWnd
  BY KcpAssumption DEF IInv, TypeOK, VueloOk
<1>2. Tope(p) \in Nat /\ Tope(p) <= snd_una[p] + SndWnd
  BY <1>1 DEF Tope, Minimo
<1> QED  BY <1>1, <1>2 DEF Cuantos, Minimo

\* The new segments take the numbers snd_nxt .. snd_nxt + Cuantos(p) - 1, one each.
LEMMA NuevosBien ==
  ASSUME IInv, NEW p \in Peers
  PROVE  /\ \A x \in Nuevos(p) :
              /\ x \in Segmento
              /\ x.sn >= snd_nxt[p] /\ x.sn < snd_nxt[p] + Cuantos(p)
              /\ x.dato = x.sn /\ EsTrozo(p, x.dato, x.frg)
         /\ \A sn \in snd_nxt[p]..(snd_nxt[p] + Cuantos(p) - 1) :
              \E x \in Nuevos(p) : x.sn = sn
<1>1. /\ snd_nxt[p] \in Nat /\ snd_queue[p] \in Seq(Trozo) /\ ColaOk(p)
      /\ Len(snd_queue[p]) \in Nat
  BY DEF IInv, TypeOK
<1>2. Cuantos(p) \in Nat /\ Cuantos(p) <= Len(snd_queue[p])
  BY CuantosBien
<1>3. ASSUME NEW i \in 1..Cuantos(p)
      PROVE  /\ snd_queue[p][i] \in Trozo
             /\ snd_queue[p][i].dato = snd_nxt[p] + i - 1
             /\ EsTrozo(p, snd_queue[p][i].dato, snd_queue[p][i].frg)
  <2>1. i \in 1..Len(snd_queue[p])
    BY <1>1, <1>2
  <2> QED  BY <1>1, <2>1 DEF ColaOk
<1>4. ASSUME NEW x \in Nuevos(p)
      PROVE  /\ x \in Segmento
             /\ x.sn >= snd_nxt[p] /\ x.sn < snd_nxt[p] + Cuantos(p)
             /\ x.dato = x.sn /\ EsTrozo(p, x.dato, x.frg)
  <2>1. PICK i \in 1..Cuantos(p) :
          x = [sn |-> snd_nxt[p] + i - 1, frg |-> snd_queue[p][i].frg,
               dato |-> snd_queue[p][i].dato]
    BY DEF Nuevos
  <2>2. snd_nxt[p] + i - 1 \in Nat
    BY <1>1
  <2>3. x \in Segmento
    BY <1>3, <2>1, <2>2 DEF Trozo, Segmento
  <2>4. x.sn = snd_nxt[p] + i - 1
    BY <2>1
  <2>5. x.sn >= snd_nxt[p] /\ x.sn < snd_nxt[p] + Cuantos(p)
    BY <1>1, <1>2, <2>4
  <2> QED  BY <1>3, <2>1, <2>3, <2>5
<1>5. ASSUME NEW sn \in snd_nxt[p]..(snd_nxt[p] + Cuantos(p) - 1)
      PROVE  \E x \in Nuevos(p) : x.sn = sn
  <2>1. PICK i : i = sn - snd_nxt[p] + 1
    OBVIOUS
  <2>2. i \in 1..Cuantos(p) /\ sn = snd_nxt[p] + i - 1
    BY <1>1, <1>2, <2>1
  <2>3. PICK x : x = [sn |-> snd_nxt[p] + i - 1, frg |-> snd_queue[p][i].frg,
                      dato |-> snd_queue[p][i].dato]
    OBVIOUS
  <2>4. x \in Nuevos(p)
    BY <2>2, <2>3 DEF Nuevos
  <2>5. x.sn = sn
    BY <2>2, <2>3
  <2> QED  BY <2>4, <2>5
<1> QED  BY <1>4, <1>5

\* What flush sends acknowledges acklist, says rcv_nxt, and carries the data given.
LEMMA SalidaBien ==
  ASSUME TypeOK, NEW p \in Peers, NEW datos \in SUBSET Segmento,
         NEW pregunta \in BOOLEAN, NEW s \in Salida(p, datos, pregunta)
  PROVE  /\ s \in Push \cup Ack \cup Sonda
         /\ s.una = rcv_nxt[p]
         /\ s.cmd = "ACK" => s.sn \in acklist[p]
         /\ s.cmd = "PUSH" =>
              \E x \in datos : s.sn = x.sn /\ s.dato = x.dato /\ s.frg = x.frg
<1>1. /\ rcv_nxt[p] \in Nat /\ acklist[p] \subseteq Nat
      /\ VentanaLibre(p) \in 0..RcvWnd
  BY KcpAssumption DEF TypeOK, VentanaLibre
<1>2. CASE s \in {[cmd |-> "ACK", sn |-> k, una |-> rcv_nxt[p],
                   wnd |-> VentanaLibre(p)] : k \in acklist[p]}
  BY <1>1, <1>2 DEF Ack
<1>3. CASE s \in {[cmd |-> c, una |-> rcv_nxt[p], wnd |-> VentanaLibre(p)] :
                  c \in {"WASK", "WINS"}}
  BY <1>1, <1>3 DEF Sonda
<1>4. CASE s \in {[cmd |-> "PUSH", sn |-> x.sn, frg |-> x.frg, dato |-> x.dato,
                   una |-> rcv_nxt[p], wnd |-> VentanaLibre(p)] : x \in datos}
  BY <1>1, <1>4 DEF Push, Segmento
<1> QED  BY <1>2, <1>3, <1>4 DEF Salida

\* A flush moves pieces from snd_queue to snd_buf,
LEMMA FlushEmisor ==
  ASSUME IInv, NEW p \in Peers, NEW reenvio \in SUBSET snd_buf[p],
         NEW pregunta \in BOOLEAN, Flush(p, reenvio, pregunta)
  PROVE  /\ ColaOk(p)' /\ VueloOk(p)' /\ GuardaOk(p)'
         /\ snd_queue'[p] \in Seq(Trozo) /\ snd_buf'[p] \in SUBSET Segmento
         /\ snd_nxt'[p] \in Nat /\ snd_nxt[p] <= snd_nxt'[p]
         /\ \A x \in Nuevos(p) \cup reenvio :
              /\ x \in Segmento /\ x.sn < snd_nxt'[p]
              /\ x.dato = x.sn /\ EsTrozo(p, x.dato, x.frg)
<1>0. PICK c, cola : c = Cuantos(p) /\ cola = snd_queue[p]
  OBVIOUS
<1>1. /\ c \in Nat /\ c <= Len(cola) /\ snd_nxt[p] + c <= snd_una[p] + SndWnd
      /\ snd_nxt[p] \in Nat /\ snd_una[p] \in Nat /\ SndWnd \in Nat
      /\ cola \in Seq(Trozo) /\ Len(cola) \in Nat /\ snd_buf[p] \subseteq Segmento
      /\ Total(p) \in Nat
  <2>1. /\ c \in Nat /\ c <= Len(cola) /\ snd_nxt[p] + c <= snd_una[p] + SndWnd
    BY <1>0, CuantosBien
  <2>2. /\ snd_nxt[p] \in Nat /\ snd_una[p] \in Nat /\ SndWnd \in Nat
        /\ cola \in Seq(Trozo) /\ Len(cola) \in Nat /\ snd_buf[p] \subseteq Segmento
    BY <1>0, KcpAssumption DEF IInv, TypeOK
  <2>3. Total(p) \in 0..MaxTrozos[p] /\ MaxTrozos[p] \in Nat
    BY KcpAssumption DEF IInv, EnvioOk
  <2> QED  BY <2>1, <2>2, <2>3
<1>2. /\ ColaOk(p) /\ VueloOk(p) /\ GuardaOk(p)
  BY DEF IInv
<1>3. /\ snd_queue'[p] = SubSeq(cola, c + 1, Len(cola))
      /\ snd_buf'[p] = snd_buf[p] \cup Nuevos(p)
      /\ snd_nxt'[p] = snd_nxt[p] + c
      /\ snd_una'[p] = snd_una[p]
      /\ UNCHANGED <<rcv_nxt, rcv_buf, enviados>>
  <2>1. /\ snd_queue = [q \in Peers |-> snd_queue[q]]
        /\ snd_buf = [q \in Peers |-> snd_buf[q]]
        /\ snd_nxt = [q \in Peers |-> snd_nxt[q]]
    BY DEF IInv, TypeOK
  <2> QED  BY <1>0, <2>1 DEF Flush, historia
<1>4. /\ \A x \in Nuevos(p) :
           /\ x \in Segmento
           /\ x.sn >= snd_nxt[p] /\ x.sn < snd_nxt[p] + c
           /\ x.dato = x.sn /\ EsTrozo(p, x.dato, x.frg)
      /\ \A sn \in snd_nxt[p]..(snd_nxt[p] + c - 1) : \E x \in Nuevos(p) : x.sn = sn
  BY <1>0, NuevosBien
<1>5. Recuerda(p) /\ Conserva(Otro(p)) /\ Otro(p) \in Peers
  BY <1>3, OtroPeer, Quietos
<1>6. /\ snd_queue'[p] \in Seq(Trozo)
      /\ Len(snd_queue'[p]) = Len(cola) - c
      /\ \A i \in 1..(Len(cola) - c) : snd_queue'[p][i] = cola[c + i]
  <2>1. \A i \in (c + 1)..Len(cola) : cola[i] \in Trozo
    BY <1>1
  <2>2. c + 1 \in Int /\ Len(cola) \in Int
    BY <1>1
  <2>3. /\ SubSeq(cola, c + 1, Len(cola)) \in Seq(Trozo)
        /\ Len(SubSeq(cola, c + 1, Len(cola))) =
             IF c + 1 <= Len(cola) THEN Len(cola) - (c + 1) + 1 ELSE 0
        /\ \A i \in 1..(Len(cola) - (c + 1) + 1) :
             SubSeq(cola, c + 1, Len(cola))[i] = cola[(c + 1) + i - 1]
    BY <2>1, <2>2, SubSeqProperties
  <2>4. \A i \in 1..(Len(cola) - c) :
          SubSeq(cola, c + 1, Len(cola))[i] = cola[c + i]
    BY <1>1, <2>3
  <2>5. Len(SubSeq(cola, c + 1, Len(cola))) = Len(cola) - c
    BY <1>1, <2>3
  <2> QED  BY <1>3, <2>3, <2>4, <2>5
<1>7. ColaOk(p)'
  <2>1. Len(cola) = Total(p) - snd_nxt[p]
    BY <1>0, <1>2 DEF ColaOk
  <2>2. Len(snd_queue'[p]) = Total(p)' - snd_nxt'[p]
    <3>1. Total(p)' = Total(p)
      BY <1>3 DEF Total
    <3>2. snd_nxt'[p] = snd_nxt[p] + c /\ Len(snd_queue'[p]) = Len(cola) - c
      BY <1>3, <1>6
    <3>3. PICK t, a : t = Total(p) /\ a = snd_nxt[p]
      OBVIOUS
    <3>4. t \in Nat /\ a \in Nat /\ c \in Nat /\ Len(cola) = t - a
      BY <1>1, <2>1, <3>3
    <3>5. Len(cola) - c = t - (a + c)
      BY <3>4
    <3> QED  BY <3>1, <3>2, <3>3, <3>5
  <2>3. ASSUME NEW i \in 1..Len(snd_queue'[p])
        PROVE  /\ snd_queue'[p][i].dato = snd_nxt'[p] + i - 1
               /\ EsTrozo(p, snd_queue[p][i].dato, snd_queue[p][i].frg)'
    <3>0. /\ c \in Nat /\ Len(cola) \in Nat /\ c <= Len(cola)
          /\ i \in 1..(Len(cola) - c)
      BY <1>1, <1>6
    <3>1. PICK j \in 1..Len(cola) : j = c + i /\ snd_queue'[p][i] = cola[j]
      <4>1. c + i \in 1..Len(cola)
        BY <3>0
      <4>2. snd_queue'[p][i] = cola[c + i]
        BY <1>6, <3>0
      <4> QED  BY <4>1, <4>2
    <3>2. cola[j].dato = snd_nxt[p] + j - 1 /\ EsTrozo(p, cola[j].dato, cola[j].frg)
      BY <1>0, <1>2, <3>1 DEF ColaOk
    <3>3. snd_nxt[p] + j - 1 = snd_nxt'[p] + i - 1
      <4>1. PICK a, b : a = snd_nxt[p] /\ b = snd_nxt'[p]
        OBVIOUS
      <4>2. a \in Nat /\ b = a + c /\ j = c + i /\ i \in Int /\ c \in Nat
        BY <1>1, <1>3, <3>1, <4>1
      <4>3. a + j - 1 = b + i - 1
        BY <4>2
      <4> QED  BY <4>1, <4>3
    <3>4. EsTrozo(p, cola[j].dato, cola[j].frg)'
      BY <1>5, <3>2 DEF Recuerda
    <3>5. snd_queue'[p][i].dato = snd_nxt'[p] + i - 1
      BY <3>1, <3>2, <3>3
    <3>6. EsTrozo(p, snd_queue[p][i].dato, snd_queue[p][i].frg)'
      BY <3>1, <3>4
    <3> QED  BY <3>5, <3>6
  <2> QED  BY <2>2, <2>3 DEF ColaOk
<1>8. \A x \in snd_buf[p] : /\ x \in Segmento /\ x.sn \in Nat
                            /\ x.sn >= snd_una[p] /\ x.sn < snd_nxt[p]
                            /\ x.dato = x.sn /\ EsTrozo(p, x.dato, x.frg)
  BY <1>1, <1>2 DEF VueloOk, Segmento
<1>9. \A x \in Nuevos(p) : x.sn \in Nat
  BY <1>4 DEF Segmento
<1>10. snd_una[p] <= snd_nxt[p]
  BY <1>2 DEF VueloOk
<1>11. VueloOk(p)'
  <2>1. ASSUME NEW x \in snd_buf'[p]
        PROVE  /\ x.sn >= snd_una[p] /\ x.sn < snd_nxt[p] + c
               /\ x.dato = x.sn /\ EsTrozo(p, x.dato, x.frg)
    <3>1. CASE x \in snd_buf[p]
      BY <1>1, <1>8, <3>1
    <3>2. CASE x \in Nuevos(p)
      BY <1>1, <1>4, <1>9, <1>10, <3>2
    <3> QED  BY <1>3, <3>1, <3>2
  <2>2. \A x \in snd_buf'[p] : EsTrozo(p, x.dato, x.frg)'
    BY <2>1, <1>5 DEF Recuerda
  <2>3. snd_una[p] <= snd_nxt[p] + c
    BY <1>1, <1>10
  <2> QED  BY <1>1, <1>3, <2>1, <2>2, <2>3 DEF VueloOk
<1>12. GuardaOk(p)'
  <2> SUFFICES ASSUME NEW sn \in 0..(snd_nxt'[p] - 1),
                      \A x \in snd_buf'[p] : x.sn # sn
               PROVE  Recibido(Otro(p), sn)'
    BY DEF GuardaOk
  <2>0. /\ snd_nxt[p] + c - 1 \in Int /\ sn \in Nat
        /\ sn \in 0..(snd_nxt[p] + c - 1)
    BY <1>1, <1>3
  <2>1. ASSUME sn >= snd_nxt[p] PROVE FALSE
    <3>1. sn \in snd_nxt[p]..(snd_nxt[p] + c - 1)
      BY <1>1, <2>0, <2>1
    <3> QED  BY <1>3, <1>4, <3>1
  <2>2. sn \in 0..(snd_nxt[p] - 1) /\ \A x \in snd_buf[p] : x.sn # sn
    BY SMTT(30), <1>1, <1>3, <2>0, <2>1
  <2> QED  BY <1>2, <1>5, <2>0, <2>2 DEF GuardaOk, Conserva
<1>13. snd_buf'[p] \in SUBSET Segmento
  BY <1>1, <1>3, <1>4
<1>14. ASSUME NEW x \in Nuevos(p) \cup reenvio
       PROVE  /\ x \in Segmento /\ x.sn < snd_nxt'[p]
              /\ x.dato = x.sn /\ EsTrozo(p, x.dato, x.frg)
  <2>1. CASE x \in Nuevos(p)
    BY <1>3, <1>4, <2>1
  <2>2. CASE x \in snd_buf[p]
    BY <1>1, <1>3, <1>8, <2>2
  <2> QED  BY <2>1, <2>2
<1>15. snd_nxt'[p] \in Nat /\ snd_nxt[p] <= snd_nxt'[p]
  BY <1>1, <1>3
<1> QED  BY <1>6, <1>7, <1>11, <1>12, <1>13, <1>14, <1>15

\* and puts on the wire acknowledgements and segments that are in it.
LEMMA FlushPaso ==
  ASSUME IInv, NEW p \in Peers, NEW reenvio \in SUBSET snd_buf[p],
         NEW pregunta \in BOOLEAN, Flush(p, reenvio, pregunta)
  PROVE  IInv' /\ \A q \in Peers : snd_nxt[q] <= snd_nxt'[q]
<1>1. /\ ColaOk(p)' /\ VueloOk(p)' /\ GuardaOk(p)'
      /\ snd_queue'[p] \in Seq(Trozo) /\ snd_buf'[p] \in SUBSET Segmento
      /\ snd_nxt'[p] \in Nat /\ snd_nxt[p] <= snd_nxt'[p]
      /\ \A x \in Nuevos(p) \cup reenvio :
           /\ x \in Segmento /\ x.sn < snd_nxt'[p]
           /\ x.dato = x.sn /\ EsTrozo(p, x.dato, x.frg)
  BY FlushEmisor
<1>2. UNCHANGED <<snd_una, rmt_wnd, rcv_nxt, rcv_buf, rcv_queue, enviados, entregados>>
  BY DEF Flush, historia
<1>3. PICK o \in Peers : o = Otro(p) /\ Otro(o) = p /\ o # p
  BY OtroPeer
<1>4. PICK sal : sal = Salida(p, Nuevos(p) \cup reenvio, pregunta)
  OBVIOUS
<1>5. /\ snd_queue' = [snd_queue EXCEPT ![p] = snd_queue'[p]]
      /\ snd_buf' = [snd_buf EXCEPT ![p] = snd_buf'[p]]
      /\ snd_nxt' = [snd_nxt EXCEPT ![p] = snd_nxt'[p]]
      /\ acklist' = [acklist EXCEPT ![p] = {}]
      /\ probe' = [probe EXCEPT ![p] = FALSE]
      /\ red' = [red EXCEPT ![o] = red[o] \cup sal]
  BY <1>3, <1>4 DEF IInv, TypeOK, Flush
<1>6. ASSUME NEW s \in sal
      PROVE  /\ s \in Push \cup Ack \cup Sonda
             /\ s.una = rcv_nxt[p]
             /\ s.cmd = "ACK" => s.sn \in acklist[p]
             /\ s.cmd = "PUSH" => /\ s.sn < snd_nxt'[p] /\ s.dato = s.sn
                                  /\ EsTrozo(p, s.dato, s.frg)
  <2>1. Nuevos(p) \cup reenvio \in SUBSET Segmento /\ TypeOK
    BY <1>1 DEF IInv
  <2>2. /\ s \in Push \cup Ack \cup Sonda
        /\ s.una = rcv_nxt[p]
        /\ s.cmd = "ACK" => s.sn \in acklist[p]
        /\ s.cmd = "PUSH" =>
             \E x \in Nuevos(p) \cup reenvio :
               s.sn = x.sn /\ s.dato = x.dato /\ s.frg = x.frg
    BY <1>4, <2>1, SalidaBien
  <2> QED  BY <1>1, <2>2
<1>7. TypeOK'
  <2>1. /\ snd_queue' \in [Peers -> Seq(Trozo)]
        /\ snd_buf' \in [Peers -> SUBSET Segmento] /\ snd_nxt' \in [Peers -> Nat]
        /\ acklist' \in [Peers -> SUBSET Nat] /\ probe' \in [Peers -> BOOLEAN]
    BY <1>1, <1>5 DEF IInv, TypeOK
  <2>2. red' \in [Peers -> SUBSET (Push \cup Ack \cup Sonda)]
    <3>1. sal \subseteq Push \cup Ack \cup Sonda
      BY <1>6
    <3> QED  BY <1>5, <3>1 DEF IInv, TypeOK
  <2> QED  BY <1>2, <2>1, <2>2 DEF IInv, TypeOK
<1>8. ASSUME NEW q \in Peers
      PROVE  /\ Conserva(q) /\ Recuerda(q) /\ Otro(q) \in Peers
             /\ rcv_nxt[q] \in Nat /\ rcv_nxt'[q] = rcv_nxt[q]
             /\ snd_nxt[q] \in Nat /\ snd_nxt'[q] \in Nat
             /\ snd_nxt[q] <= snd_nxt'[q]
  <2>1. Conserva(q) /\ Recuerda(q) /\ Otro(q) \in Peers
    BY <1>2, OtroPeer, Quietos
  <2>2. rcv_nxt[q] \in Nat /\ snd_nxt[q] \in Nat
    BY DEF IInv, TypeOK
  <2>3. snd_nxt'[q] \in Nat /\ snd_nxt[q] <= snd_nxt'[q]
    <3>1. q # p => snd_nxt'[q] = snd_nxt[q]
      BY <1>5 DEF IInv, TypeOK
    <3> QED  BY <1>1, <2>2, <3>1
  <2> QED  BY <1>2, <2>1, <2>2, <2>3
<1>9. RedOk(o)'
  <2> SUFFICES ASSUME NEW s \in red'[o]
               PROVE  /\ s.una <= rcv_nxt'[p]
                      /\ s.cmd = "ACK" => Recibido(p, s.sn)'
                      /\ s.cmd = "PUSH" => /\ s.sn < snd_nxt'[p]
                                           /\ s.dato = s.sn
                                           /\ EsTrozo(p, s.dato, s.frg)'
    BY <1>3 DEF RedOk
  <2>0. /\ AckOk(p) /\ RedOk(o) /\ acklist[p] \subseteq Nat
        /\ red[o] \subseteq Push \cup Ack \cup Sonda
    BY DEF IInv, TypeOK
  <2>1. CASE s \in sal
    BY <1>6, <1>8, <2>0, <2>1 DEF AckOk, Conserva, Recuerda
  <2>2. CASE s \in red[o]
    <3>1. CASE s.cmd = "ACK"
      BY <1>3, <1>8, <2>0, <2>2, <3>1 DEF RedOk, Conserva, Push, Ack, Sonda
    <3>2. CASE s.cmd = "PUSH"
      BY <1>3, <1>8, <2>0, <2>2, <3>2 DEF RedOk, Recuerda, Push, Ack, Sonda
    <3>3. s.una <= rcv_nxt'[p]
      BY <1>2, <1>3, <2>0, <2>2 DEF RedOk
    <3> QED  BY <3>1, <3>2, <3>3
  <2>3. s \in red[o] \/ s \in sal
    BY <1>5 DEF IInv, TypeOK
  <2> QED  BY <2>1, <2>2, <2>3
<1>10. RedOk(p)'
  <2>1. red'[p] \subseteq red[p]
    BY <1>3, <1>5 DEF IInv, TypeOK
  <2> QED  BY <1>8, <2>1, OtroPeer, Marco
<1>11. AckOk(p)'
  BY <1>5 DEF AckOk, IInv, TypeOK
<1>12. ASSUME NEW q \in Peers
       PROVE  EnvioOk(q)' /\ ReciboOk(q)' /\ EntregaOk(q)'
  BY <1>2, <1>8, Marco
<1>13. ASSUME NEW q \in Peers, q # p
       PROVE  ColaOk(q)' /\ VueloOk(q)' /\ GuardaOk(q)' /\ AckOk(q)'
  <2>1. /\ snd_queue'[q] = snd_queue[q] /\ snd_nxt'[q] = snd_nxt[q]
        /\ snd_buf'[q] = snd_buf[q] /\ acklist'[q] = acklist[q]
    BY <1>5, <1>13 DEF IInv, TypeOK
  <2> QED  BY <1>2, <1>8, <2>1, Marco
<1>14. \A q \in Peers : q = p \/ q = o
  BY <1>3, KcpAssumption DEF Peers, Otro
<1> QED  BY <1>1, <1>7, <1>8, <1>9, <1>10, <1>11, <1>12, <1>13, <1>14 DEF IInv

-----------------------------------------------------------------------------
(* The theorems *)

Avanza(q) ==
  /\ snd_una'[q] >= snd_una[q] /\ snd_nxt'[q] >= snd_nxt[q]
  /\ rcv_nxt'[q] >= rcv_nxt[q]

\* Every step preserves the invariant, and moves no cursor back.
LEMMA PasoIInv ==
  ASSUME IInv, [Next]_vars
  PROVE  IInv' /\ \A q \in Peers : Avanza(q)
<1>0. \A q \in Peers : /\ snd_una[q] \in Nat /\ snd_nxt[q] \in Nat
                       /\ rcv_nxt[q] \in Nat
  BY DEF IInv, TypeOK
<1>1. ASSUME NEW p \in Peers, NEW n \in 1..MaxFrag, Send(p, n)
      PROVE  IInv' /\ \A q \in Peers : Avanza(q)
  <2>1. IInv'
    BY <1>1, SendPaso
  <2>2. UNCHANGED <<snd_una, snd_nxt, rcv_nxt>>
    BY <1>1 DEF Send, rcvVars
  <2> QED  BY <1>0, <2>1, <2>2 DEF Avanza
<1>2. ASSUME NEW p \in Peers, Recv(p)
      PROVE  IInv' /\ \A q \in Peers : Avanza(q)
  <2>1. IInv' /\ \A q \in Peers : rcv_nxt[q] <= rcv_nxt'[q]
    BY <1>2, RecvPaso
  <2>2. UNCHANGED <<snd_una, snd_nxt>>
    BY <1>2 DEF Recv, sndVars
  <2> QED  BY <1>0, <2>1, <2>2 DEF Avanza
<1>3. ASSUME NEW p \in Peers, NEW s \in red[p], InputAck(p, s)
      PROVE  IInv' /\ \A q \in Peers : Avanza(q)
  <2>1. IInv' /\ \A q \in Peers : snd_una[q] <= snd_una'[q]
    BY <1>3, InputAckPaso
  <2>2. UNCHANGED <<snd_nxt, rcv_nxt>>
    BY <1>3 DEF InputAck, rcvVars
  <2> QED  BY <1>0, <2>1, <2>2 DEF Avanza
<1>4. ASSUME NEW p \in Peers, NEW s \in red[p], InputPush(p, s)
      PROVE  IInv' /\ \A q \in Peers : Avanza(q)
  <2>1. /\ IInv'
        /\ \A q \in Peers : snd_una[q] <= snd_una'[q] /\ rcv_nxt[q] <= rcv_nxt'[q]
    BY <1>4, InputPushPaso
  <2>2. UNCHANGED snd_nxt
    BY <1>4 DEF InputPush, Confirma
  <2> QED  BY <1>0, <2>1, <2>2 DEF Avanza
<1>5. ASSUME NEW p \in Peers, NEW s \in red[p], InputSonda(p, s)
      PROVE  IInv' /\ \A q \in Peers : Avanza(q)
  <2>1. IInv' /\ \A q \in Peers : snd_una[q] <= snd_una'[q]
    BY <1>5, InputSondaPaso
  <2>2. UNCHANGED <<snd_nxt, rcv_nxt>>
    BY <1>5 DEF InputSonda, Confirma
  <2> QED  BY <1>0, <2>1, <2>2 DEF Avanza
<1>6. ASSUME NEW p \in Peers, Pierde(p)
      PROVE  IInv' /\ \A q \in Peers : Avanza(q)
  <2>1. IInv'
    BY <1>6, PierdePaso
  <2>2. UNCHANGED <<snd_una, snd_nxt, rcv_nxt>>
    BY <1>6 DEF Pierde, sndVars, rcvVars
  <2> QED  BY <1>0, <2>1, <2>2 DEF Avanza
<1>7. ASSUME NEW p \in Peers, NEW reenvio \in SUBSET snd_buf[p],
             NEW pregunta \in BOOLEAN, Flush(p, reenvio, pregunta)
      PROVE  IInv' /\ \A q \in Peers : Avanza(q)
  <2>1. IInv' /\ \A q \in Peers : snd_nxt[q] <= snd_nxt'[q]
    BY <1>7, FlushPaso
  <2>2. UNCHANGED <<snd_una, rcv_nxt>>
    BY <1>7 DEF Flush
  <2> QED  BY <1>0, <2>1, <2>2 DEF Avanza
<1>8. ASSUME UNCHANGED vars
      PROVE  IInv' /\ \A q \in Peers : Avanza(q)
  <2> USE DEF vars, sndVars, rcvVars, historia
  <2>1. TypeOK'
    BY <1>8 DEF IInv, TypeOK
  <2>2. ASSUME NEW q \in Peers
        PROVE  /\ (EnvioOk(q) /\ ColaOk(q) /\ VueloOk(q) /\ GuardaOk(q))'
               /\ (RedOk(q) /\ AckOk(q) /\ ReciboOk(q) /\ EntregaOk(q))'
    <3>1. /\ Otro(q) \in Peers /\ Conserva(q) /\ Recuerda(q)
          /\ Conserva(Otro(q)) /\ Recuerda(Otro(q))
      BY <1>8, OtroPeer, Quietos
    <3>2. snd_nxt[Otro(q)] \in Nat /\ rcv_nxt[Otro(q)] \in Nat
      BY <1>0, <3>1
    <3> QED  BY <1>8, <3>1, <3>2, Marco
  <2> QED  BY <1>0, <1>8, <2>1, <2>2 DEF IInv, Avanza
<1>9. PICK p \in Peers :
        \/ \E n \in 1..MaxFrag : Send(p, n)
        \/ Recv(p) \/ Input(p) \/ Pierde(p)
        \/ \E reenvio \in SUBSET snd_buf[p], pregunta \in BOOLEAN :
             Flush(p, reenvio, pregunta)
        \/ UNCHANGED vars
  <2>1. CASE Next
    BY <2>1 DEF Next
  <2>2. Cliente \in Peers
    BY DEF Peers
  <2> QED  BY <2>1, <2>2
<1>10. Input(p) => \E s \in red[p] : InputAck(p, s) \/ InputPush(p, s) \/ InputSonda(p, s)
  BY DEF Input
<1> QED  BY <1>1, <1>2, <1>3, <1>4, <1>5, <1>6, <1>7, <1>8, <1>9, <1>10

\* The invariant holds in every reachable state.
THEOREM InvarianteInductivo == Spec => []IInv
<1>1. IInv /\ [Next]_vars => IInv'
  BY PasoIInv
<1> QED  BY <1>1, InitIInv, PTL DEF Spec

\* Every variable keeps its type: sequence numbers, windows and queues.
THEOREM Tipos == Spec => []TypeOK
<1>1. IInv => TypeOK
  BY DEF IInv
<1> QED  BY <1>1, InvarianteInductivo, PTL

\* recv returns the messages the other side sent, whole, in order and once
\* (Kcp.java: parseData and recv), over a network that loses, repeats and reorders.
THEOREM EntregaEnOrdenSiempre == Spec => []EntregaEnOrden
<1>1. IInv => EntregaEnOrden
  BY DEF IInv, EntregaOk, EntregaEnOrden
<1> QED  BY <1>1, InvarianteInductivo, PTL

\* What parseUna and parseAck drop from snd_buf the other side has.
THEOREM NadaSePierdeNunca == Spec => []NadaSePierde
<1>1. IInv => NadaSePierde
  BY DEF IInv, GuardaOk, NadaSePierde
<1> QED  BY <1>1, InvarianteInductivo, PTL

\* rcv_queue and rcv_buf stay within rcv_wnd segments each.
THEOREM MemoriaSiempreAcotada == Spec => []MemoriaAcotada
<1>1. IInv => MemoriaAcotada
  BY DEF IInv, ReciboOk, MemoriaAcotada
<1> QED  BY <1>1, InvarianteInductivo, PTL

\* flush keeps at most snd_wnd sequence numbers in flight.
THEOREM VueloSiempreAcotado == Spec => []VueloAcotado
<1>1. IInv => VueloAcotado
  BY DEF IInv, VueloOk, VueloAcotado
<1> QED  BY <1>1, InvarianteInductivo, PTL

\* A full rcv_queue starts with a complete message, because send refuses messages
\* of more fragments than the window of the other side has room for.
THEOREM ColaLlenaSiempreSeVacia == Spec => []ColaLlenaSeVacia
<1>1. IInv => ColaLlenaSeVacia
  <2> SUFFICES ASSUME IInv, NEW p \in Peers, Len(rcv_queue[p]) >= RcvWnd
               PROVE  /\ HayMensaje(rcv_queue[p])
                      /\ rcv_queue[p][Head(rcv_queue[p]).frg + 1].frg = 0
    BY DEF ColaLlenaSeVacia
  <2>1. PICK cola, f, e, b, o : /\ cola = rcv_queue[p] /\ f = cola[1].frg
                                /\ e = Len(entregados[p]) /\ o = Otro(p)
                                /\ b = rcv_nxt[p] - Len(cola)
    OBVIOUS
  <2>2. /\ cola \in Seq(Segmento) /\ Len(cola) \in Nat
        /\ RcvWnd \in Nat /\ RcvWnd >= 1 /\ MaxFrag <= RcvWnd /\ MaxFrag \in Nat
        /\ Len(cola) >= RcvWnd
    BY <2>1, KcpAssumption DEF IInv, TypeOK
  <2>3. cola # <<>> /\ Head(cola) = cola[1] /\ cola[1] \in Segmento
    BY <2>2
  <2>4. f \in 0..(MaxFrag - 1)
    BY <2>1, <2>3 DEF Segmento
  <2>5. SiguienteBien(o, e, b, cola)
    BY <2>1, <2>3, MensajeSiguiente
  <2>6. f + 1 \in 1..Len(cola) /\ f + 1 <= f + 1 /\ f + 1 - (f + 1) = 0
    BY <2>2, <2>4
  <2>7. cola[f + 1].frg = 0
    BY <2>1, <2>5, <2>6 DEF SiguienteBien
  <2> QED  BY <2>1, <2>2, <2>3, <2>6, <2>7 DEF HayMensaje
<1> QED  BY <1>1, InvarianteInductivo, PTL

\* snd_una, snd_nxt and rcv_nxt only grow, whatever arrives late or twice.
THEOREM CursoresSiempreAvanzan == Spec => CursoresAvanzan
<1>1. IInv /\ [Next]_vars => \A q \in Peers : Avanza(q)
  BY PasoIInv
<1>2. IInv /\ [Next]_vars =>
        [\A p \in Peers : /\ snd_una'[p] >= snd_una[p]
                          /\ snd_nxt'[p] >= snd_nxt[p]
                          /\ rcv_nxt'[p] >= rcv_nxt[p]]_vars
  BY <1>1 DEF Avanza
<1> QED  BY <1>2, InvarianteInductivo, PTL DEF Spec, CursoresAvanzan

-----------------------------------------------------------------------------
(* The engine implements the reliable channel, in both directions *)

\* What a step does to the messages of p: nothing, one more sent, or one delivered.
PasoCanal(p) ==
  \/ enviados'[p] = enviados[p] /\ entregados'[Otro(p)] = entregados[Otro(p)]
  \/ /\ \E m \in MensajesDe(p) : enviados'[p] = Append(enviados[p], m)
     /\ entregados'[Otro(p)] = entregados[Otro(p)]
  \/ /\ Len(entregados[Otro(p)]) < Len(enviados[p])
     /\ entregados'[Otro(p)] =
          Append(entregados[Otro(p)], enviados[p][Len(entregados[Otro(p)]) + 1])
     /\ enviados'[p] = enviados[p]

LEMMA PasosDelCanal ==
  ASSUME IInv, [Next]_vars, NEW p \in Peers
  PROVE  PasoCanal(p)
<1>0. PICK o \in Peers : o = Otro(p) /\ Otro(o) = p /\ o # p
  BY OtroPeer
<1>1. ASSUME NEW q \in Peers, NEW n \in 1..MaxFrag, Send(q, n)
      PROVE  PasoCanal(p)
  <2>1. UNCHANGED entregados
    BY <1>1 DEF Send
  <2>2. CASE q # p
    <3>1. enviados'[p] = enviados[p]
      BY <1>1, <2>2 DEF Send, IInv, TypeOK
    <3> QED  BY <2>1, <3>1 DEF PasoCanal
  <2>3. CASE q = p
    <3>1. enviados'[p] = Append(enviados[p], [i \in 1..n |-> Total(p) + i - 1])
      BY <1>1, <2>3 DEF Send, IInv, TypeOK
    <3>2. Total(p) \in 0..MaxTrozos[p]
      BY DEF IInv, EnvioOk
    <3>3. [i \in 1..n |-> Total(p) + i - 1] \in MensajesDe(p)
      BY <3>2 DEF MensajesDe
    <3> QED  BY <2>1, <3>1, <3>3 DEF PasoCanal
  <2> QED  BY <2>2, <2>3
<1>2. ASSUME NEW q \in Peers, Recv(q)
      PROVE  PasoCanal(p)
  <2>1. UNCHANGED enviados
    BY <1>2 DEF Recv
  <2>2. CASE q # o
    <3>1. entregados'[o] = entregados[o]
      BY <1>2, <2>2 DEF Recv, IInv, TypeOK
    <3> QED  BY <1>0, <2>1, <3>1 DEF PasoCanal
  <2>3. CASE q = o
    <3>1. PICK e, N : e = Len(entregados[o]) /\ N = Len(enviados[p])
      OBVIOUS
    <3>2. /\ e + 1 \in 1..N /\ e \in Nat /\ N \in Nat
          /\ entregados'[o] = Append(entregados[o], enviados[p][e + 1])
      <4>1. Recv(o)
        BY <1>2, <2>3
      <4>2. /\ Len(entregados[o]) + 1 \in 1..Len(enviados[Otro(o)])
            /\ entregados'[o] = Append(entregados[o],
                                       enviados[Otro(o)][Len(entregados[o]) + 1])
        BY <4>1, RecvMensaje
      <4>3. e \in Nat /\ N \in Nat
        <5>1. entregados[o] \in Seq(Seq(Nat)) /\ enviados[p] \in Seq(Seq(Nat))
          BY DEF IInv, TypeOK
        <5> QED  BY <3>1, <5>1
      <4> QED  BY <1>0, <3>1, <4>2, <4>3
    <3>3. e < N
      BY <3>2
    <3> QED  BY <1>0, <2>1, <3>1, <3>2, <3>3 DEF PasoCanal
  <2> QED  BY <2>2, <2>3
<1>3. ASSUME NEW q \in Peers, Input(q)
      PROVE  UNCHANGED <<enviados, entregados>>
  BY <1>3 DEF Input, InputAck, InputPush, InputSonda, historia
<1>4. ASSUME NEW q \in Peers, Pierde(q)
      PROVE  UNCHANGED <<enviados, entregados>>
  BY <1>4 DEF Pierde, historia
<1>5. ASSUME NEW q \in Peers, NEW reenvio, NEW pregunta, Flush(q, reenvio, pregunta)
      PROVE  UNCHANGED <<enviados, entregados>>
  BY <1>5 DEF Flush, historia
<1>6. UNCHANGED vars => UNCHANGED <<enviados, entregados>>
  BY DEF vars, historia
<1>7. UNCHANGED <<enviados, entregados>> => PasoCanal(p)
  BY DEF PasoCanal
<1> QED  BY <1>1, <1>2, <1>3, <1>4, <1>5, <1>6, <1>7 DEF Next

\* What the client hands to send is what the server's recv returns: Kcp implements
\* CanalFiable from the client to the server,
THEOREM KcpImplementaIda == Spec => IdaFiable
<1>1. Init => Ida!Init
  BY KcpAssumption DEF Init, Ida!Init, Peers
<1>2. IInv /\ [Next]_vars => [Ida!Next]_(Ida!vars)
  <2> SUFFICES ASSUME IInv, [Next]_vars PROVE [Ida!Next]_(Ida!vars)
    OBVIOUS
  <2>1. PasoCanal(Cliente) /\ Otro(Cliente) = Servidor
    BY PasosDelCanal DEF Peers, Otro
  <2> QED  BY <2>1 DEF PasoCanal, Ida!Next, Ida!Enviar, Ida!Entregar, Ida!vars
<1> QED  BY <1>1, <1>2, InvarianteInductivo, PTL DEF Spec, IdaFiable, Ida!Spec

\* and from the server to the client.
THEOREM KcpImplementaVuelta == Spec => VueltaFiable
<1>1. Init => Vuelta!Init
  BY KcpAssumption DEF Init, Vuelta!Init, Peers
<1>2. IInv /\ [Next]_vars => [Vuelta!Next]_(Vuelta!vars)
  <2> SUFFICES ASSUME IInv, [Next]_vars PROVE [Vuelta!Next]_(Vuelta!vars)
    OBVIOUS
  <2>1. PasoCanal(Servidor) /\ Otro(Servidor) = Cliente
    BY PasosDelCanal, KcpAssumption DEF Peers, Otro
  <2> QED  BY <2>1 DEF PasoCanal, Vuelta!Next, Vuelta!Enviar, Vuelta!Entregar, Vuelta!vars
<1> QED  BY <1>1, <1>2, InvarianteInductivo, PTL DEF Spec, VueltaFiable, Vuelta!Spec

=============================================================================
