--------------------------- MODULE SesionKcpProofs ---------------------------
(***************************************************************************)
(* Proofs about SesionKcp: a session handles one conversation, and a         *)
(* conversation that was acknowledged is never handled again, for any        *)
(* number of ports, connections, messages, timeouts and restarts.            *)
(*                                                                          *)
(* The argument: everything the server holds or may still receive from a     *)
(* port comes from one connection, the one that uses the port if one does    *)
(* (UnOrigen); and what a client may still receive from a port that          *)
(* acknowledges a message comes from the session that is there               *)
(* (AcusesDeAhora).                                                          *)
(***************************************************************************)
EXTENDS SesionKcp, FiniteSetTheorems, WellFoundedInduction, TLAPS

-----------------------------------------------------------------------------
(* The invariant *)

\* An engine, also between input and the move,
Sano(e) ==
  /\ e \in Motor
  /\ e.snd_buf \subseteq 0..(e.snd_nxt - 1)
  /\ IsFiniteSet(e.rcv_buf)
  /\ \A x, y \in e.rcv_buf : x.sn = y.sn => x = y

\* and after it: the first message is not acknowledged before it is received,
Valido(e) == Sano(e) /\ (0 \in e.acklist => e.rcv_nxt >= 1)

\* and what is in order has been moved.
Movido(e) == \A x \in e.rcv_buf : x.sn > e.rcv_nxt

Tipos ==
  /\ TypeOK
  /\ Valido(cliente) /\ Movido(cliente)
  /\ \A p \in Puertos : Valido(motores[p]) /\ Movido(motores[p])

\* The messages a session has handled.
DeSesion(s) == {i \in 1..Len(manejados) : manejados[i].ses = s}

\* A session has one port, and has handled what its engine has received.
Atendidas ==
  /\ \A p \in Puertos : sesiones[p] = Nada => motores[p] = Nuevo
  /\ \A p, q \in Puertos : sesiones[p] = sesiones[q] /\ sesiones[p] # Nada => p = q
  /\ \A i \in 1..Len(manejados) : manejados[i].ses <= numeradas.ses
  /\ \A p \in Puertos : sesiones[p] # Nada =>
       {manejados[i].sn : i \in DeSesion(sesiones[p])} = 0..(motores[p].rcv_nxt - 1)

\* In order and without gaps.
EnOrden ==
  \A i \in 1..Len(manejados) :
    {manejados[j].sn : j \in Antes(i, manejados[i].ses)} = 0..(manejados[i].sn - 1)

\* Segments that may reach the server from a port.
HaciaServidor(p) == {s \in red : s.hacia = "servidor" /\ s.puerto = p}

\* The connections whose messages the session of a port has, or may get.
Origenes(p) ==
  {s.origen : s \in HaciaServidor(p)} \cup {x.origen : x \in motores[p].rcv_buf}
  \cup {manejados[i].con : i \in {j \in DeSesion(sesiones[p]) : sesiones[p] # Nada}}

\* They are past ones, or the present one at its port.
Procedencia ==
  /\ conexion <= numeradas.con
  /\ \A p \in Puertos : \A c \in Origenes(p) :
       /\ c \in 1..numeradas.con
       /\ c = conexion => p = puerto

\* If the system gives no port the server has a session for, there is one.
UnOrigen ==
  \A p \in Puertos : \A c \in Origenes(p) :
    /\ \A d \in Origenes(p) : c = d
    /\ EnUso(p) => c = conexion

DeUna ==
  \A i \in 1..Len(manejados) :
    \A j \in Antes(i, manejados[i].ses) : manejados[j].con = manejados[i].con

\* The first message is acknowledged by a segment.
AcusaElPrimero(s) == s.una >= 1 \/ (s.cmd = "ACK" /\ s.sn = 0)

\* Who acknowledges to a port the first message is the session that is there.
AcusesDeAhora ==
  \A s \in red : s.hacia = "cliente" /\ AcusaElPrimero(s) => motores[s.puerto].rcv_nxt >= 1

\* Once the first message of the client has been acknowledged, either the session that
\* handled it is there or no copy of it is left.
Empezada ==
  conexion # Nada /\ cliente.snd_nxt > 0 /\ 0 \notin cliente.snd_buf =>
    \/ motores[puerto].rcv_nxt >= 1
    \/ \A s \in HaciaServidor(puerto) : s.cmd = "PUSH" => s.sn # 0

\* What holds whatever ports are given and whatever is under way, what needs that no
\* port is given while the server has a session for it, and what needs that no datagram
\* outlives its session.
Propios == Tipos /\ Atendidas /\ EnOrden /\ Procedencia

Unicos == ~Reutiliza => UnOrigen /\ DeUna

SinRestos == ~EnCamino => AcusesDeAhora /\ Empezada

\* TLC checks it on the instance of sesion_kcp.
IInv == Propios /\ Unicos /\ SinRestos
-----------------------------------------------------------------------------
(* The engine *)

\* A set of numbers that is not empty has a least one.
LEMMA MinimoNat ==
  ASSUME NEW S \in SUBSET Nat, S # {}
  PROVE  \E n \in S : \A m \in S : n <= m
<1>1. PICK n \in S : \A m \in S : <<m, n>> \notin OpToRel(<, Nat)
  BY NatLessThanWellFounded, WFMin
<1>2. ASSUME NEW m \in S, m < n PROVE FALSE
  <2>1. <<m, n>> \in OpToRel(<, Nat)
    BY <1>2 DEF OpToRel
  <2>. QED
    BY <2>1, <1>1
<1>. QED
  BY <1>2

\* Of k + 1 numbers one is not that of a segment of k.
LEMMA HayHueco ==
  ASSUME NEW B, IsFiniteSet(B), NEW m \in Nat
  PROVE  \E n \in m..(m + Cardinality(B)) : \A x \in B : x.sn # n
<1>. DEFINE k == Cardinality(B)
            D == m..(m + k)
<1>1. k \in Nat
  BY FS_CardinalityType
<1>. SUFFICES ASSUME \A n \in D : \E x \in B : x.sn = n
              PROVE  FALSE
  OBVIOUS
<1>. DEFINE f == [n \in D |-> CHOOSE x \in B : x.sn = n]
<1>2. \A n \in D : f[n] \in B /\ f[n].sn = n
  OBVIOUS
<1>3. f \in [D -> B]
  BY <1>2
<1>4. IsFiniteSet(D) /\ Cardinality(D) = k + 1
  <2>1. m \in Int /\ m + k \in Int
    BY <1>1
  <2>2. IsFiniteSet(D) /\ Cardinality(D) = IF m > m + k THEN 0 ELSE (m + k) - m + 1
    BY <2>1, FS_Interval
  <2>. QED
    BY <1>1, <2>2
<1>. HIDE DEF f, D
<1>5. Cardinality(B) < Cardinality(D)
  BY <1>1, <1>4
<1>6. \E a, b \in D : a # b /\ f[a] = f[b]
  BY <1>3, <1>4, <1>5, FS_PigeonHole
<1>. QED
  BY <1>2, <1>6

\* rcv_nxt after the move is the first number that is missing.
LEMMA SiguienteFalta ==
  ASSUME NEW e, Sano(e)
  PROVE  /\ Siguiente(e) \in Nat /\ Siguiente(e) >= e.rcv_nxt
         /\ \A k \in e.rcv_nxt..(Siguiente(e) - 1) : \E x \in e.rcv_buf : x.sn = k
         /\ \A x \in e.rcv_buf : x.sn # Siguiente(e)
<1>. DEFINE D == e.rcv_nxt..(e.rcv_nxt + Cardinality(e.rcv_buf))
            H == {n \in D : \A x \in e.rcv_buf : x.sn # n}
<1>1. e.rcv_nxt \in Nat /\ Cardinality(e.rcv_buf) \in Nat
  <2>1. e.rcv_nxt \in Nat /\ IsFiniteSet(e.rcv_buf)
    BY DEF Sano, Motor
  <2>. QED
    BY <2>1, FS_CardinalityType
<1>2. H # {} /\ H \in SUBSET Nat
  <2>1. IsFiniteSet(e.rcv_buf)
    BY DEF Sano
  <2>2. \E n \in D : \A x \in e.rcv_buf : x.sn # n
    BY <1>1, <2>1, HayHueco
  <2>. QED
    BY <1>1, <2>2
<1>3. PICK n \in H : \A m \in H : n <= m
  BY <1>2, MinimoNat
<1>4. \A k \in e.rcv_nxt..(n - 1) : \E x \in e.rcv_buf : x.sn = k
  <2>. SUFFICES ASSUME NEW k \in e.rcv_nxt..(n - 1) PROVE k \notin H /\ k \in D
    OBVIOUS
  <2>. QED
    BY <1>1, <1>3
<1>5. /\ Siguiente(e) \in D
      /\ \A k \in e.rcv_nxt..(Siguiente(e) - 1) : \E x \in e.rcv_buf : x.sn = k
      /\ \A x \in e.rcv_buf : x.sn # Siguiente(e)
  BY <1>3, <1>4 DEF Siguiente
<1>. QED
  BY <1>1, <1>5

\* The move.
LEMMA MueveValido ==
  ASSUME NEW e, Sano(e), \A x \in e.rcv_buf : x.sn >= e.rcv_nxt,
         0 \in e.acklist => e.rcv_nxt >= 1 \/ \E x \in e.rcv_buf : x.sn = 0
  PROVE  /\ Valido(Mueve(e)) /\ Movido(Mueve(e))
         /\ Mueve(e).rcv_nxt = Siguiente(e)
         /\ Mueve(e).rcv_buf \subseteq e.rcv_buf
         /\ Mueve(e).snd_nxt = e.snd_nxt /\ Mueve(e).snd_buf = e.snd_buf
         /\ (\E x \in e.rcv_buf : x.sn = 0) => Siguiente(e) >= 1
<1>. DEFINE n == Siguiente(e)
            B == {x \in e.rcv_buf : x.sn >= n}
<1>1. /\ n \in Nat /\ n >= e.rcv_nxt
      /\ \A x \in e.rcv_buf : x.sn # n
  BY SiguienteFalta
<1>2. /\ e \in Motor /\ e.rcv_nxt \in Nat
      /\ \A x \in e.rcv_buf : x.sn \in Nat
  BY DEF Sano, Motor
<1>3. IsFiniteSet(B)
  BY FS_Subset DEF Sano
<1>4. /\ Mueve(e) \in Motor /\ Mueve(e).rcv_nxt = n /\ Mueve(e).rcv_buf = B
      /\ Mueve(e).snd_nxt = e.snd_nxt /\ Mueve(e).snd_buf = e.snd_buf
      /\ Mueve(e).acklist = e.acklist
  BY <1>1, <1>2 DEF Mueve, Motor
<1>. HIDE DEF n
<1>5. Valido(Mueve(e))
  BY <1>1, <1>2, <1>3, <1>4 DEF Valido, Sano
<1>6. Movido(Mueve(e))
  BY <1>1, <1>2, <1>4 DEF Movido
<1>. QED
  BY <1>1, <1>2, <1>4, <1>5, <1>6 DEF n
\* What it hands over: one message for each number up to rcv_nxt.
LEMMA EntregaValida ==
  ASSUME NEW e, Sano(e)
  PROVE  /\ Entregables(e) \in Seq(Nat \ {0})
         /\ Len(Entregables(e)) = Siguiente(e) - e.rcv_nxt
         /\ \A i \in 1..Len(Entregables(e)) :
              \E x \in e.rcv_buf : /\ x.sn = e.rcv_nxt + i - 1
                                   /\ x.origen = Entregables(e)[i]
<1>. DEFINE m == Siguiente(e) - e.rcv_nxt
            f == Entregables(e)
<1>1. /\ Siguiente(e) \in Nat /\ Siguiente(e) >= e.rcv_nxt /\ e.rcv_nxt \in Nat
      /\ \A k \in e.rcv_nxt..(Siguiente(e) - 1) : \E x \in e.rcv_buf : x.sn = k
      /\ \A x \in e.rcv_buf : x.origen \in Nat \ {0}
  BY SiguienteFalta DEF Sano, Motor
<1>2. m \in Nat
  BY <1>1
<1>3. \A i \in 1..m : \E x \in e.rcv_buf : x.sn = e.rcv_nxt + i - 1 /\ x.origen = f[i]
  <2>. SUFFICES ASSUME NEW i \in 1..m
                PROVE  \E x \in e.rcv_buf : x.sn = e.rcv_nxt + i - 1 /\ x.origen = f[i]
    OBVIOUS
  <2>1. e.rcv_nxt + i - 1 \in e.rcv_nxt..(Siguiente(e) - 1)
    BY <1>1
  <2>2. \E x \in e.rcv_buf : x.sn = e.rcv_nxt + i - 1
    BY <1>1, <2>1
  <2>3. f[i] = (CHOOSE x \in e.rcv_buf : x.sn = e.rcv_nxt + i - 1).origen
    BY DEF Entregables
  <2>. QED
    BY <2>2, <2>3
<1>4. f = [i \in 1..m |-> f[i]]
  BY DEF Entregables
<1>. HIDE DEF f, m
<1>5. \A i \in 1..m : f[i] \in Nat \ {0}
  BY <1>1, <1>3
<1>6. f \in Seq(Nat \ {0}) /\ Len(f) = m
  BY <1>2, <1>4, <1>5
<1>. QED
  BY <1>3, <1>6 DEF f, m

\* A segment.
LEMMA InputValido ==
  ASSUME NEW e, Valido(e), Movido(e), NEW s \in Segmento
  PROVE  LET u == TrasInput(e, s) IN
         /\ \A x \in u.rcv_buf : x.sn >= u.rcv_nxt
         /\ u.rcv_nxt = e.rcv_nxt /\ u.snd_nxt = e.snd_nxt
         /\ u.snd_buf \subseteq e.snd_buf
         /\ 0 \in e.snd_buf /\ 0 \notin u.snd_buf => AcusaElPrimero(s)
         /\ u.rcv_buf \subseteq e.rcv_buf \cup {[sn |-> s.sn, origen |-> s.origen]}
         /\ s.cmd = "ACK" => u.rcv_buf = e.rcv_buf
         /\ Sano(u)
         /\ 0 \in u.acklist => e.rcv_nxt >= 1 \/ (s.cmd = "PUSH" /\ s.sn = 0)
         /\ s.cmd = "PUSH" /\ s.sn = 0 /\ e.rcv_nxt = 0 => \E x \in u.rcv_buf : x.sn = 0
<1>. DEFINE u == TrasInput(e, s)
            t == TrasUna(e, s.una)
            x0 == [sn |-> s.sn, origen |-> s.origen]
<1>1. /\ s.sn \in Nat /\ s.una \in Nat /\ s.origen \in Nat \ {0}
      /\ s.cmd \in {"ACK", "PUSH"} /\ x0 \in [sn : Nat, origen : Nat \ {0}]
      /\ x0.sn = s.sn /\ x0.origen = s.origen
  BY DEF Segmento
<1>0. \A x \in e.rcv_buf : x.sn > e.rcv_nxt
  BY DEF Movido
<1>2. /\ e \in Motor /\ e.rcv_nxt \in Nat /\ e.snd_nxt \in Nat /\ e.snd_buf \subseteq Nat
      /\ e.rcv_buf \subseteq [sn : Nat, origen : Nat \ {0}] /\ e.acklist \subseteq Nat
      /\ e.snd_buf \subseteq 0..(e.snd_nxt - 1)
  BY DEF Valido, Sano, Motor
<1>3. /\ t \in Motor /\ t.rcv_nxt = e.rcv_nxt /\ t.snd_nxt = e.snd_nxt
      /\ t.snd_buf = {n \in e.snd_buf : n >= s.una} /\ t.rcv_buf = e.rcv_buf
      /\ t.acklist = e.acklist
  BY <1>1, <1>2 DEF TrasUna, Motor
<1>. HIDE DEF t, x0
<1>4. CASE s.cmd = "ACK"
  <2>1. /\ u \in Motor /\ u.rcv_nxt = e.rcv_nxt /\ u.snd_nxt = e.snd_nxt
        /\ u.snd_buf \in {t.snd_buf, t.snd_buf \ {s.sn}} /\ u.rcv_buf = e.rcv_buf
        /\ u.acklist = e.acklist
    BY <1>1, <1>2, <1>3, <1>4 DEF TrasInput, TrasAck, Motor, t
  <2>. HIDE DEF u
  <2>2. 0 \in e.snd_buf /\ 0 \notin u.snd_buf => AcusaElPrimero(s)
    BY <1>1, <1>3, <1>4, <2>1 DEF AcusaElPrimero
  <2>3. \A x \in u.rcv_buf : x.sn >= u.rcv_nxt
    BY <1>0, <1>2, <2>1
  <2>. QED
    BY <1>3, <1>4, <2>1, <2>2, <2>3 DEF Valido, Sano, u
<1>5. CASE s.cmd = "PUSH"
  <2>. DEFINE v == [t EXCEPT !.acklist = @ \cup {s.sn}]
              pasa == s.sn < e.rcv_nxt \/ \E x \in e.rcv_buf : x.sn = s.sn
  <2>1. /\ v \in Motor /\ v.rcv_nxt = e.rcv_nxt /\ v.snd_nxt = e.snd_nxt
        /\ v.snd_buf = t.snd_buf /\ v.rcv_buf = e.rcv_buf /\ v.acklist = e.acklist \cup {s.sn}
    BY <1>1, <1>2, <1>3 DEF Motor
  <2>2. u = Inserta(v, x0)
    BY <1>5 DEF TrasInput, t, x0
  <2>. HIDE DEF u, v
  <2>3. /\ u \in Motor /\ u.rcv_nxt = e.rcv_nxt /\ u.snd_nxt = e.snd_nxt
        /\ u.snd_buf = t.snd_buf /\ u.acklist = e.acklist \cup {s.sn}
        /\ u.rcv_buf = IF pasa THEN e.rcv_buf ELSE e.rcv_buf \cup {x0}
    BY <1>1, <1>2, <2>1, <2>2 DEF Inserta, Motor
  <2>4. IsFiniteSet(u.rcv_buf)
    BY SMTT(30), <2>3, FS_AddElement DEF Valido, Sano
  <2>5. \A x, y \in u.rcv_buf : x.sn = y.sn => x = y
    BY <1>1, <2>3 DEF Valido, Sano
  <2>6. \A x \in u.rcv_buf : x.sn >= u.rcv_nxt
    BY <1>0, <1>1, <1>2, <2>3
  <2>7. 0 \in e.snd_buf /\ 0 \notin u.snd_buf => AcusaElPrimero(s)
    BY <1>1, <1>3, <2>3 DEF AcusaElPrimero
  <2>8. s.sn = 0 /\ e.rcv_nxt = 0 => \E x \in u.rcv_buf : x.sn = 0
    BY <1>1, <2>3
  <2>9. 0 \in u.acklist => e.rcv_nxt >= 1 \/ s.sn = 0
    BY <2>3 DEF Valido, Sano
  <2>10. u.snd_buf \subseteq e.snd_buf /\ u.rcv_buf \subseteq e.rcv_buf \cup {x0}
    BY <1>3, <2>3
  <2>. QED
    BY <1>2, <1>3, <1>5, <2>3, <2>4, <2>5, <2>6, <2>7, <2>8, <2>9, <2>10 DEF u, x0, Sano
<1>. QED
  BY <1>1, <1>4, <1>5

-----------------------------------------------------------------------------
(* A datagram for the server *)

\* What it does: the session id of p, which had the engine of p before, has the engine m
\* after it and has handled the messages a.
Llega(p, s, id, m, a) ==
  LET e == motores[p] IN
  /\ s \in HaciaServidor(p)
  /\ \/ sesiones[p] # Nada /\ id = sesiones[p] /\ numeradas' = numeradas
     \/ /\ sesiones[p] = Nada /\ id = numeradas.ses + 1
        /\ numeradas' = [numeradas EXCEPT !.ses = id]
  /\ sesiones' = [sesiones EXCEPT ![p] = id]
  /\ motores' = [motores EXCEPT ![p] = m]
  /\ manejados' = manejados \o a
  /\ UNCHANGED <<cliVars, red, olvidos>>
  /\ Valido(m) /\ Movido(m) /\ m.rcv_nxt >= e.rcv_nxt
  /\ m.rcv_buf \subseteq e.rcv_buf \cup {[sn |-> s.sn, origen |-> s.origen]}
  /\ a \in Seq([ses : Nat \ {0}, con : Nat \ {0}, sn : Nat])
  /\ Len(a) = m.rcv_nxt - e.rcv_nxt
  /\ \A i \in 1..Len(a) :
       /\ a[i].ses = id /\ a[i].sn = e.rcv_nxt + i - 1
       /\ \/ \E x \in e.rcv_buf : x.sn = a[i].sn /\ x.origen = a[i].con
          \/ s.cmd = "PUSH" /\ s.sn = a[i].sn /\ s.origen = a[i].con

\* A new engine.
LEMMA NuevoValido == Valido(Nuevo) /\ Movido(Nuevo)
<1>1. IsFiniteSet({})
  BY FS_EmptySet
<1>. QED
  BY <1>1 DEF Valido, Sano, Movido, Nuevo, Motor

\* channelRead0 does what Llega says.
LEMMA LlegaPaso ==
  ASSUME Tipos, Atendidas, NEW p \in Puertos, ChannelRead0(p)
  PROVE  \E s, id, m, a : Llega(p, s, id, m, a)
<1>1. PICK s \in red :
        LET nueva == sesiones[p] = Nada
            u == TrasInput(IF nueva THEN NuevaSesion(s) ELSE motores[p], s)
            id == IF nueva THEN numeradas.ses + 1 ELSE sesiones[p]
        IN
        /\ s.hacia = "servidor" /\ s.puerto = p
        /\ numeradas' = IF nueva THEN [numeradas EXCEPT !.ses = id] ELSE numeradas
        /\ sesiones' = [sesiones EXCEPT ![p] = id]
        /\ motores' = [motores EXCEPT ![p] = Mueve(u)]
        /\ manejados' = manejados \o
             [i \in 1..Len(Entregables(u)) |->
                [ses |-> id, con |-> Entregables(u)[i], sn |-> u.rcv_nxt + i - 1]]
        /\ UNCHANGED <<cliVars, red, olvidos>>
  BY DEF ChannelRead0, Sesion
<1>. DEFINE e == motores[p]
            u == TrasInput(e, s)
            id == IF sesiones[p] = Nada THEN numeradas.ses + 1 ELSE sesiones[p]
            m == Mueve(u)
            a == [i \in 1..Len(Entregables(u)) |->
                    [ses |-> id, con |-> Entregables(u)[i], sn |-> u.rcv_nxt + i - 1]]
            x0 == [sn |-> s.sn, origen |-> s.origen]
<1>2. (IF sesiones[p] = Nada THEN NuevaSesion(s) ELSE motores[p]) = e
  BY DEF Atendidas, NuevaSesion
<1>3. /\ Valido(e) /\ Movido(e) /\ s \in Segmento /\ numeradas.ses \in Nat
      /\ sesiones[p] \in 0..numeradas.ses /\ e.rcv_nxt \in Nat
  BY DEF Tipos, TypeOK, Valido, Sano, Motor
<1>4. /\ \A x \in u.rcv_buf : x.sn >= u.rcv_nxt
      /\ u.rcv_nxt = e.rcv_nxt /\ Sano(u)
      /\ u.rcv_buf \subseteq e.rcv_buf \cup {x0}
      /\ s.cmd = "ACK" => u.rcv_buf = e.rcv_buf
      /\ 0 \in u.acklist => e.rcv_nxt >= 1 \/ (s.cmd = "PUSH" /\ s.sn = 0)
      /\ s.cmd = "PUSH" /\ s.sn = 0 /\ e.rcv_nxt = 0 => \E x \in u.rcv_buf : x.sn = 0
  BY <1>3, InputValido
<1>5. 0 \in u.acklist => u.rcv_nxt >= 1 \/ \E x \in u.rcv_buf : x.sn = 0
  BY <1>3, <1>4
<1>6. /\ Valido(m) /\ Movido(m) /\ m.rcv_nxt = Siguiente(u)
      /\ m.rcv_buf \subseteq u.rcv_buf
  BY <1>4, <1>5, MueveValido
<1>7. Siguiente(u) \in Nat /\ Siguiente(u) >= u.rcv_nxt
  BY <1>4, SiguienteFalta
<1>8. /\ Entregables(u) \in Seq(Nat \ {0})
      /\ Len(Entregables(u)) = Siguiente(u) - u.rcv_nxt
      /\ \A i \in 1..Len(Entregables(u)) :
           \E x \in u.rcv_buf : x.sn = u.rcv_nxt + i - 1 /\ x.origen = Entregables(u)[i]
  BY <1>4, EntregaValida
<1>9. id \in Nat \ {0}
  BY <1>3 DEF Nada
<1>. DEFINE l == Len(Entregables(u))
<1>10. l \in Nat /\ \A i \in 1..l : Entregables(u)[i] \in Nat \ {0} /\ u.rcv_nxt + i - 1 \in Nat
  BY <1>3, <1>4, <1>8
<1>11. /\ a \in Seq([ses : Nat \ {0}, con : Nat \ {0}, sn : Nat]) /\ Len(a) = l
       /\ \A i \in 1..l : /\ a[i].ses = id /\ a[i].sn = e.rcv_nxt + i - 1
                          /\ a[i].con = Entregables(u)[i]
  BY <1>4, <1>9, <1>10
<1>12. /\ sesiones' = [sesiones EXCEPT ![p] = id]
       /\ motores' = [motores EXCEPT ![p] = m]
       /\ manejados' = manejados \o a
       /\ numeradas' = IF sesiones[p] = Nada THEN [numeradas EXCEPT !.ses = id] ELSE numeradas
       /\ s \in HaciaServidor(p)
  BY <1>1, <1>2 DEF HaciaServidor
<1>. HIDE DEF u, m, a, id
<1>13. ASSUME NEW i \in 1..Len(a)
       PROVE  \/ \E x \in e.rcv_buf : x.sn = a[i].sn /\ x.origen = a[i].con
              \/ s.cmd = "PUSH" /\ s.sn = a[i].sn /\ s.origen = a[i].con
  <2>0. i \in 1..Len(Entregables(u)) /\ a[i].sn = u.rcv_nxt + i - 1 /\ a[i].con = Entregables(u)[i]
    BY <1>4, <1>11
  <2>1. PICK x \in u.rcv_buf : x.sn = a[i].sn /\ x.origen = a[i].con
    BY <1>8, <2>0
  <2>2. CASE x \in e.rcv_buf
    BY <2>1, <2>2
  <2>3. CASE x \notin e.rcv_buf
    <3>1. x = x0 /\ s.cmd # "ACK" /\ s.cmd \in {"ACK", "PUSH"}
      BY <1>3, <1>4, <2>3 DEF Segmento
    <3>. QED
      BY <2>1, <3>1
  <2>. QED
    BY <2>2, <2>3
<1>14. Llega(p, s, id, m, a)
  BY <1>1, <1>4, <1>6, <1>7, <1>8, <1>11, <1>12, <1>13 DEF Llega, id
<1>. QED
  BY <1>14

\* What a datagram completes is handled after all that was handled before.
LEMMA LlegaAlFinal ==
  ASSUME Tipos, NEW p \in Puertos, NEW s, NEW id, NEW m, NEW a, Llega(p, s, id, m, a)
  PROVE  /\ Len(manejados) \in Nat /\ Len(a) \in Nat /\ Len(manejados') = Len(manejados) + Len(a)
         /\ \A i \in 1..Len(manejados) : manejados'[i] = manejados[i]
         /\ \A i \in 1..Len(a) : manejados'[Len(manejados) + i] = a[i]
         /\ manejados' \in Seq([ses : Nat \ {0}, con : Nat \ {0}, sn : Nat])
<1>1. /\ manejados \in Seq([ses : Nat \ {0}, con : Nat \ {0}, sn : Nat])
      /\ a \in Seq([ses : Nat \ {0}, con : Nat \ {0}, sn : Nat])
      /\ manejados' = manejados \o a
  BY DEF Tipos, TypeOK, Llega
<1>. QED
  BY <1>1

\* The messages handled, with the new ones.
LEMMA LlegaHistoria ==
  ASSUME Tipos, Atendidas, NEW p \in Puertos, NEW s, NEW id, NEW m, NEW a, Llega(p, s, id, m, a)
  PROVE  /\ Len(manejados) \in Nat /\ Len(a) \in Nat /\ Len(manejados') = Len(manejados) + Len(a)
         /\ \A i \in 1..Len(manejados) : manejados'[i] = manejados[i]
         /\ \A i \in 1..Len(a) : manejados'[Len(manejados) + i] = a[i]
         /\ manejados' \in Seq([ses : Nat \ {0}, con : Nat \ {0}, sn : Nat])
         /\ id \in 1..numeradas'.ses /\ numeradas.ses <= numeradas'.ses
         /\ numeradas' \in [con : {numeradas.con}, ses : Nat]
         /\ motores[p].rcv_nxt \in Nat /\ m.rcv_nxt \in Nat
         /\ {manejados[i].sn : i \in DeSesion(id)} = 0..(motores[p].rcv_nxt - 1)
<1>2. /\ Len(manejados) \in Nat /\ Len(a) \in Nat /\ Len(manejados') = Len(manejados) + Len(a)
      /\ \A i \in 1..Len(manejados) : manejados'[i] = manejados[i]
      /\ \A i \in 1..Len(a) : manejados'[Len(manejados) + i] = a[i]
      /\ manejados' \in Seq([ses : Nat \ {0}, con : Nat \ {0}, sn : Nat])
  BY LlegaAlFinal
<1>3. /\ numeradas.ses \in Nat /\ numeradas \in [con : {numeradas.con}, ses : Nat]
      /\ sesiones[p] \in 0..numeradas.ses
      /\ motores[p].rcv_nxt \in Nat /\ m.rcv_nxt \in Nat
  BY DEF Tipos, TypeOK, Llega, Valido, Sano, Motor
<1>4. ASSUME sesiones[p] # Nada
      PROVE  /\ id \in 1..numeradas.ses /\ numeradas' = numeradas
             /\ {manejados[i].sn : i \in DeSesion(id)} = 0..(motores[p].rcv_nxt - 1)
  <2>1. id = sesiones[p] /\ numeradas' = numeradas
    BY <1>4 DEF Llega
  <2>2. {manejados[i].sn : i \in DeSesion(sesiones[p])} = 0..(motores[p].rcv_nxt - 1)
    BY <1>4 DEF Atendidas
  <2>. QED
    BY <1>3, <1>4, <2>1, <2>2 DEF Nada
<1>5. ASSUME sesiones[p] = Nada
      PROVE  /\ id = numeradas.ses + 1 /\ numeradas' = [numeradas EXCEPT !.ses = id]
             /\ {manejados[i].sn : i \in DeSesion(id)} = 0..(motores[p].rcv_nxt - 1)
  <2>1. id = numeradas.ses + 1 /\ numeradas' = [numeradas EXCEPT !.ses = id]
    BY <1>5 DEF Llega
  <2>2. motores[p].rcv_nxt = 0
    BY <1>5 DEF Atendidas, Nuevo
  <2>3. ASSUME NEW i \in DeSesion(id) PROVE FALSE
    <3>1. i \in 1..Len(manejados) /\ manejados[i].ses = numeradas.ses + 1
      BY <2>1 DEF DeSesion
    <3>2. manejados[i].ses <= numeradas.ses
      BY <3>1 DEF Atendidas
    <3>. QED
      BY <1>3, <3>1, <3>2
  <2>. QED
    BY <2>1, <2>2, <2>3
<1>6. \/ id \in 1..numeradas.ses /\ numeradas' = numeradas
      \/ id = numeradas.ses + 1 /\ numeradas' = [numeradas EXCEPT !.ses = id]
  BY <1>4, <1>5
<1>7. /\ id \in 1..numeradas'.ses /\ numeradas.ses <= numeradas'.ses
      /\ numeradas' \in [con : {numeradas.con}, ses : Nat]
  BY <1>3, <1>6
<1>. QED
  BY <1>2, <1>3, <1>4, <1>5, <1>7

\* The ones of another session, or of the same before.
LEMMA LlegaDeSesion ==
  ASSUME Tipos, Atendidas, NEW p \in Puertos, NEW s, NEW id, NEW m, NEW a, Llega(p, s, id, m, a)
  PROVE  /\ \A n : n # id => DeSesion(n)' = DeSesion(n)
         /\ DeSesion(id)' = DeSesion(id) \cup ((Len(manejados) + 1)..Len(manejados'))
         /\ \A i \in 1..Len(manejados) : \A n : Antes(i, n)' = Antes(i, n)
         /\ \A i \in (Len(manejados) + 1)..Len(manejados') :
              /\ Antes(i, id)' = DeSesion(id) \cup ((Len(manejados) + 1)..(i - 1))
              /\ i - Len(manejados) \in 1..Len(a) /\ manejados'[i] = a[i - Len(manejados)]
<1>. DEFINE l == Len(manejados)
            l1 == Len(manejados')
<1>1. /\ l \in Nat /\ Len(a) \in Nat /\ l1 = l + Len(a)
      /\ \A i \in 1..l : manejados'[i] = manejados[i]
      /\ \A i \in 1..Len(a) : manejados'[l + i] = a[i] /\ a[i].ses = id
  <2>1. \A i \in 1..Len(a) : a[i].ses = id
    BY DEF Llega
  <2>. QED
    BY <2>1, LlegaHistoria
<1>2. \A i \in (l + 1)..l1 : /\ i - l \in 1..Len(a) /\ manejados'[i] = a[i - l]
                             /\ manejados'[i].ses = id
  <2>. SUFFICES ASSUME NEW i \in (l + 1)..l1
                PROVE  i - l \in 1..Len(a) /\ manejados'[i] = a[i - l] /\ manejados'[i].ses = id
    OBVIOUS
  <2>1. i - l \in 1..Len(a) /\ l + (i - l) = i
    BY <1>1
  <2>. QED
    BY <1>1, <2>1
<1>3. \A n : DeSesion(n)' = {i \in 1..l1 : manejados'[i].ses = n}
  BY DEF DeSesion
<1>4. \A i, n : Antes(i, n)' = {j \in 1..(i - 1) : manejados'[j].ses = n}
  BY DEF Antes
<1>. HIDE DEF l, l1
<1>5. \A n : DeSesion(n) = {i \in 1..l : manejados[i].ses = n}
  BY DEF DeSesion, l
<1>6. ASSUME NEW n, n # id PROVE DeSesion(n)' = DeSesion(n)
  <2>1. \A i : i \in DeSesion(n)' <=> i \in DeSesion(n)
    BY <1>1, <1>2, <1>3, <1>5, <1>6
  <2>. QED
    BY <2>1
<1>7. DeSesion(id)' = DeSesion(id) \cup ((l + 1)..l1)
  <2>1. \A i : i \in DeSesion(id)' <=> i \in DeSesion(id) \cup ((l + 1)..l1)
    BY <1>1, <1>2, <1>3, <1>5
  <2>. QED
    BY <2>1
<1>8. ASSUME NEW i \in 1..l, NEW n PROVE Antes(i, n)' = Antes(i, n)
  <2>1. \A j : j \in Antes(i, n)' <=> j \in Antes(i, n)
    BY <1>1, <1>4 DEF Antes
  <2>. QED
    BY <2>1
<1>9. ASSUME NEW i \in (l + 1)..l1
      PROVE  Antes(i, id)' = DeSesion(id) \cup ((l + 1)..(i - 1))
  <2>1. i \in Nat /\ l < i /\ i <= l1
    BY <1>1, <1>9
  <2>2. \A j : j \in Antes(i, id)' <=> j \in 1..(i - 1) /\ manejados'[j].ses = id
    BY <1>4
  <2>3. \A j \in 1..l : manejados'[j].ses = id <=> j \in DeSesion(id)
    BY <1>1, <1>5
  <2>4. \A j \in (l + 1)..(i - 1) : manejados'[j].ses = id
    BY <1>1, <1>2, <2>1
  <2>5. \A j : j \in 1..(i - 1) <=> j \in 1..l \/ j \in (l + 1)..(i - 1)
    BY <1>1, <2>1
  <2>6. DeSesion(id) \subseteq 1..l
    BY <1>5
  <2>. QED
    BY <2>2, <2>3, <2>4, <2>5, <2>6
<1>. QED
  BY <1>2, <1>6, <1>7, <1>8, <1>9 DEF l, l1

\* The numbers of the first messages of a session, up to the k-th of all.
LEMMA LlegaNumeros ==
  ASSUME Tipos, Atendidas, NEW p \in Puertos, NEW s, NEW id, NEW m, NEW a, Llega(p, s, id, m, a),
         NEW k \in Nat, Len(manejados) <= k, k <= Len(manejados')
  PROVE  {manejados'[i].sn : i \in DeSesion(id) \cup ((Len(manejados) + 1)..k)}
           = 0..(motores[p].rcv_nxt + (k - Len(manejados)) - 1)
<1>. DEFINE l == Len(manejados)
            r == motores[p].rcv_nxt
<1>1. /\ l \in Nat /\ r \in Nat /\ Len(manejados') = l + Len(a) /\ Len(a) \in Nat
      /\ \A i \in 1..l : manejados'[i] = manejados[i]
      /\ {manejados[i].sn : i \in DeSesion(id)} = 0..(r - 1)
  BY LlegaHistoria
<1>2. \A i \in (l + 1)..Len(manejados') : i - l \in 1..Len(a) /\ manejados'[i] = a[i - l]
  BY LlegaDeSesion
<1>3. \A i \in 1..Len(a) : a[i].sn = r + i - 1
  BY DEF Llega
<1>. HIDE DEF l, r
<1>4. \A i \in (l + 1)..k : manejados'[i].sn = r + (i - l) - 1
  BY <1>1, <1>2, <1>3 DEF l
<1>5. {manejados'[i].sn : i \in DeSesion(id)} = 0..(r - 1)
  <2>1. \A i \in DeSesion(id) : manejados'[i] = manejados[i]
    BY <1>1 DEF DeSesion, l
  <2>. QED
    BY <1>1, <2>1
<1>6. {manejados'[i].sn : i \in (l + 1)..k} = r..(r + (k - l) - 1)
  <2>1. ASSUME NEW n \in r..(r + (k - l) - 1) PROVE \E i \in (l + 1)..k : manejados'[i].sn = n
    <3>1. PICK i : i = l + 1 + (n - r)
      OBVIOUS
    <3>2. i \in (l + 1)..k /\ r + (i - l) - 1 = n
      <4>1. l \in Nat /\ r \in Nat /\ n \in Nat /\ r <= n /\ n <= r + (k - l) - 1
        BY <1>1
      <4>. QED
        BY <3>1, <4>1
    <3>. QED
      BY <1>4, <3>2
  <2>2. \A i \in (l + 1)..k : r + (i - l) - 1 \in r..(r + (k - l) - 1)
    BY <1>1
  <2>3. \A n : n \in {manejados'[i].sn : i \in (l + 1)..k} <=> n \in r..(r + (k - l) - 1)
    BY SMTT(30), <1>4, <2>1, <2>2
  <2>. QED
    BY <2>3
<1>7. 0..(r + (k - l) - 1) = (0..(r - 1)) \cup (r..(r + (k - l) - 1))
  BY <1>1 DEF l
<1>. QED
  BY <1>5, <1>6, <1>7 DEF l, r

-----------------------------------------------------------------------------
(* Types *)

\* What a flush writes.
LEMMA LoEscrito ==
  ASSUME NEW e, Valido(e), NEW h \in {"cliente", "servidor"}, NEW p \in Puertos, NEW o \in Nat \ {0}
  PROVE  \A s \in Escrito(e, h, p, o) :
           /\ s \in Segmento /\ s.hacia = h /\ s.puerto = p /\ s.origen = o /\ s.una = e.rcv_nxt
           /\ s.cmd = "ACK" => s.sn \in e.acklist
           /\ s.cmd = "PUSH" => s.sn \in e.snd_buf
  BY DEF Valido, Sano, Motor, Escrito, Segmento

\* The engine after a flush and after a send.
LEMMA FlushSend ==
  ASSUME NEW e, Valido(e)
  PROVE  /\ Valido(TrasFlush(e)) /\ Valido(TrasSend(e))
         /\ TrasFlush(e).rcv_nxt = e.rcv_nxt /\ TrasFlush(e).rcv_buf = e.rcv_buf
         /\ TrasFlush(e).snd_nxt = e.snd_nxt /\ TrasFlush(e).snd_buf = e.snd_buf
         /\ TrasSend(e).rcv_nxt = e.rcv_nxt /\ TrasSend(e).rcv_buf = e.rcv_buf
         /\ TrasSend(e).snd_nxt = e.snd_nxt + 1 /\ TrasSend(e).snd_buf = e.snd_buf \cup {e.snd_nxt}
<1>1. e \in Motor /\ e.snd_nxt \in Nat /\ e.snd_buf \subseteq 0..(e.snd_nxt - 1)
  BY DEF Valido, Sano, Motor
<1>2. /\ TrasFlush(e) \in Motor /\ TrasFlush(e).rcv_nxt = e.rcv_nxt
      /\ TrasFlush(e).rcv_buf = e.rcv_buf
      /\ TrasFlush(e).snd_nxt = e.snd_nxt /\ TrasFlush(e).snd_buf = e.snd_buf
      /\ TrasFlush(e).acklist = {}
  BY <1>1 DEF TrasFlush, Motor
<1>3. /\ TrasSend(e) \in Motor /\ TrasSend(e).rcv_nxt = e.rcv_nxt /\ TrasSend(e).rcv_buf = e.rcv_buf
      /\ TrasSend(e).snd_nxt = e.snd_nxt + 1 /\ TrasSend(e).snd_buf = e.snd_buf \cup {e.snd_nxt}
      /\ TrasSend(e).acklist = e.acklist
  <2>. DEFINE b == e.snd_buf \cup {e.snd_nxt}
              n == e.snd_nxt + 1
  <2>1. b \in SUBSET Nat /\ n \in Nat
    BY <1>1
  <2>2. TrasSend(e) = [e EXCEPT !.snd_nxt = n, !.snd_buf = b]
    BY DEF TrasSend
  <2>. HIDE DEF b, n
  <2>3. /\ TrasSend(e) \in Motor /\ TrasSend(e).rcv_nxt = e.rcv_nxt
        /\ TrasSend(e).rcv_buf = e.rcv_buf /\ TrasSend(e).acklist = e.acklist
        /\ TrasSend(e).snd_nxt = n /\ TrasSend(e).snd_buf = b
    BY <1>1, <2>1, <2>2 DEF Motor
  <2>. QED
    BY <2>3 DEF b, n
<1>4. TrasSend(e).snd_buf \subseteq 0..(TrasSend(e).snd_nxt - 1)
  BY <1>1, <1>3
<1>5. Valido(TrasFlush(e))
  BY <1>1, <1>2 DEF Valido, Sano
<1>6. Valido(TrasSend(e))
  BY <1>1, <1>3, <1>4 DEF Valido, Sano
<1>. QED
  BY <1>2, <1>3, <1>5, <1>6

\* The client after a datagram.
LEMMA ClienteRecibe ==
  ASSUME Tipos, PollSocket
  PROVE  /\ Valido(cliente') /\ Movido(cliente') /\ cliente'.snd_nxt = cliente.snd_nxt
         /\ cliente'.snd_buf \subseteq cliente.snd_buf
         /\ 0 \in cliente.snd_buf /\ 0 \notin cliente'.snd_buf =>
              \E s \in red : s.hacia = "cliente" /\ s.puerto = puerto /\ AcusaElPrimero(s)
         /\ conexion # Nada
         /\ UNCHANGED <<conexion, puerto, srvVars, red, manejados, numeradas, olvidos>>
<1>1. PICK s \in red :
        /\ Conectado /\ s.hacia = "cliente" /\ s.puerto = puerto
        /\ cliente' = Mueve(TrasInput(cliente, s))
        /\ UNCHANGED <<conexion, puerto, srvVars, red, manejados, numeradas, olvidos>>
  BY DEF PollSocket
<1>. DEFINE u == TrasInput(cliente, s)
<1>2. Valido(cliente) /\ Movido(cliente) /\ s \in Segmento /\ cliente.rcv_nxt \in Nat
  BY DEF Tipos, TypeOK, Motor
<1>3. /\ \A x \in u.rcv_buf : x.sn >= u.rcv_nxt
      /\ u.rcv_nxt = cliente.rcv_nxt /\ u.snd_nxt = cliente.snd_nxt /\ Sano(u)
      /\ u.snd_buf \subseteq cliente.snd_buf
      /\ 0 \in cliente.snd_buf /\ 0 \notin u.snd_buf => AcusaElPrimero(s)
      /\ 0 \in u.acklist => cliente.rcv_nxt >= 1 \/ (s.cmd = "PUSH" /\ s.sn = 0)
      /\ s.cmd = "PUSH" /\ s.sn = 0 /\ cliente.rcv_nxt = 0 => \E x \in u.rcv_buf : x.sn = 0
  BY <1>2, InputValido
<1>4. 0 \in u.acklist => u.rcv_nxt >= 1 \/ \E x \in u.rcv_buf : x.sn = 0
  BY <1>2, <1>3
<1>5. /\ Valido(cliente') /\ Movido(cliente')
      /\ cliente'.snd_nxt = u.snd_nxt /\ cliente'.snd_buf = u.snd_buf
  BY <1>1, <1>3, <1>4, MueveValido
<1>. QED
  BY <1>1, <1>3, <1>5 DEF Conectado

\* The silence of a port is counted up to the timeout.
LEMMA PasoInact ==
  ASSUME inact \in [Puertos -> 0..Inactividad], [Next]_vars
  PROVE  inact' \in [Puertos -> 0..Inactividad]
<1>0. Inactividad \in Nat
  BY SesionKcpAssumption
<1>1. ASSUME NEW p \in Puertos, PasaTiempo(p) PROVE inact' \in [Puertos -> 0..Inactividad]
  <2>1. inact[p] + 1 \in 0..Inactividad /\ inact' = [inact EXCEPT ![p] = inact[p] + 1]
    BY <1>0, <1>1 DEF PasaTiempo
  <2>. QED
    BY <2>1
<1>2. ASSUME NEW p \in Puertos, ChannelRead0(p) \/ Libera(p)
      PROVE  inact' \in [Puertos -> 0..Inactividad]
  <2>1. inact' = [inact EXCEPT ![p] = 0]
    BY <1>2 DEF ChannelRead0, Feed, Libera
  <2>. QED
    BY <1>0, <2>1
<1>3. CASE Reinicia
  BY <1>0, <1>3 DEF Reinicia
<1>4. ASSUME \/ UNCHANGED vars \/ Desconecta \/ SendPacket \/ PollSocket \/ FlushCliente
             \/ \E p \in Puertos : Conecta(p) \/ Send(p) \/ Tick(p)
      PROVE  inact' = inact
  BY <1>4 DEF vars, Desconecta, SendPacket, PollSocket, FlushCliente, Conecta, Send, Tick, srvVars
<1>. QED
  BY <1>1, <1>2, <1>3, <1>4 DEF Next

\* Every step preserves the types and the soundness of the engines.
LEMMA PasoTipos ==
  ASSUME Tipos, Atendidas, Procedencia, [Next]_vars
  PROVE  Tipos'
<1>. USE DEF Tipos
<1>0. /\ conexion \in 0..MaxConexiones /\ puerto \in Puertos
      /\ cliente \in Motor /\ motores \in [Puertos -> Motor]
      /\ sesiones \in [Puertos -> 0..numeradas.ses]
      /\ red \subseteq Segmento
      /\ manejados \in Seq([ses : Nat \ {0}, con : Nat \ {0}, sn : Nat])
      /\ numeradas \in [con : 0..MaxConexiones, ses : Nat]
      /\ olvidos \in 0..MaxOlvidos /\ MaxConexiones \in Nat /\ MaxOlvidos \in Nat
  BY SesionKcpAssumption DEF TypeOK
<1>i. inact' \in [Puertos -> 0..Inactividad]
  BY PasoInact DEF TypeOK
<1>1. CASE UNCHANGED vars
  BY <1>1 DEF vars, cliVars, srvVars, TypeOK
<1>2. ASSUME NEW p \in Puertos, Conecta(p) PROVE Tipos'
  <2>1. /\ numeradas' \in [con : 0..MaxConexiones, ses : Nat] /\ numeradas'.ses = numeradas.ses
        /\ conexion' \in 0..MaxConexiones
    <3>1. numeradas.con < MaxConexiones /\ numeradas.con \in Nat /\ numeradas.ses \in Nat
      BY <1>0, <1>2 DEF Conecta
    <3>2. numeradas' = [numeradas EXCEPT !.con = numeradas.con + 1] /\ conexion' = numeradas'.con
      BY <1>2 DEF Conecta
    <3>3. numeradas.con + 1 \in 0..MaxConexiones
      BY <1>0, <3>1
    <3>. QED
      BY <1>0, <3>1, <3>2, <3>3
  <2>2. cliente' = Nuevo /\ puerto' = p /\ red' \subseteq red
        /\ UNCHANGED <<sesiones, motores, manejados, olvidos>>
    BY <1>2 DEF Conecta, srvVars
  <2>3. Valido(cliente') /\ Movido(cliente') /\ cliente' \in Motor
    BY <2>2, NuevoValido DEF Valido, Sano
  <2>. QED
    BY <1>0, <1>i, <2>1, <2>2, <2>3 DEF TypeOK
<1>3. CASE Desconecta
  <2>1. Valido(cliente') /\ Movido(cliente') /\ cliente' \in Motor
    BY <1>3, NuevoValido DEF Desconecta, Valido, Sano
  <2>. QED
    BY <1>0, <1>i, <1>3, <2>1 DEF TypeOK, Desconecta, srvVars, Nada
<1>4. CASE SendPacket
  <2>1. Valido(cliente') /\ Movido(cliente') /\ cliente' \in Motor
    BY <1>4, FlushSend DEF SendPacket, Valido, Sano, Movido
  <2>. QED
    BY <1>0, <1>i, <1>4, <2>1 DEF TypeOK, SendPacket, srvVars
<1>5. CASE PollSocket
  <2>1. Valido(cliente') /\ Movido(cliente') /\ cliente' \in Motor
    BY <1>5, ClienteRecibe DEF Valido, Sano
  <2>. QED
    BY <1>0, <1>i, <1>5, <2>1, ClienteRecibe DEF TypeOK, srvVars
<1>6. CASE FlushCliente
  <2>1. Valido(cliente') /\ Movido(cliente') /\ cliente' \in Motor
    BY <1>6, FlushSend DEF FlushCliente, Valido, Sano, Movido
  <2>2. conexion \in Nat \ {0}
    BY <1>0, <1>6 DEF FlushCliente, Conectado, Nada
  <2>3. red' \subseteq Segmento
    BY <1>0, <1>6, <2>2, LoEscrito DEF FlushCliente
  <2>. QED
    BY <1>0, <1>i, <1>6, <2>1, <2>3 DEF TypeOK, FlushCliente, srvVars
<1>7. ASSUME NEW p \in Puertos, ChannelRead0(p) PROVE Tipos'
  <2>1. PICK s, id, m, a : Llega(p, s, id, m, a)
    BY <1>7, LlegaPaso
  <2>2. /\ manejados' \in Seq([ses : Nat \ {0}, con : Nat \ {0}, sn : Nat])
        /\ id \in 1..numeradas'.ses /\ numeradas.ses <= numeradas'.ses
        /\ numeradas' \in [con : {numeradas.con}, ses : Nat]
    BY <2>1, LlegaHistoria
  <2>3. /\ sesiones' = [sesiones EXCEPT ![p] = id] /\ motores' = [motores EXCEPT ![p] = m]
        /\ UNCHANGED <<conexion, puerto, cliente, red, olvidos>>
        /\ Valido(m) /\ Movido(m) /\ m \in Motor
    BY <2>1 DEF Llega, cliVars, Valido, Sano
  <2>4. sesiones' \in [Puertos -> 0..numeradas'.ses]
    BY <1>0, <2>2, <2>3
  <2>5. \A q \in Puertos : Valido(motores'[q]) /\ Movido(motores'[q])
    BY <1>0, <2>3
  <2>. QED
    BY <1>0, <1>i, <2>2, <2>3, <2>4, <2>5 DEF TypeOK
<1>8. ASSUME NEW p \in Puertos, Send(p) PROVE Tipos'
  <2>1. \A q \in Puertos : Valido(motores'[q]) /\ Movido(motores'[q]) /\ motores'[q] \in Motor
    <3>1. motores' = [motores EXCEPT ![p] = TrasSend(motores[p])]
      BY <1>8 DEF Send
    <3>2. Valido(TrasSend(motores[p])) /\ Movido(TrasSend(motores[p]))
      BY FlushSend DEF Movido
    <3>3. \A q \in Puertos : Valido(motores'[q]) /\ Movido(motores'[q])
      BY <1>0, <3>1, <3>2
    <3>. QED
      BY <3>3 DEF Valido, Sano
  <2>. QED
    BY <1>0, <1>i, <1>8, <2>1 DEF TypeOK, Send, cliVars
<1>9. ASSUME NEW p \in Puertos, Tick(p) PROVE Tipos'
  <2>1. \A q \in Puertos : Valido(motores'[q]) /\ Movido(motores'[q]) /\ motores'[q] \in Motor
    <3>1. motores' = [motores EXCEPT ![p] = TrasFlush(motores[p])]
      BY <1>9 DEF Tick
    <3>2. Valido(TrasFlush(motores[p])) /\ Movido(TrasFlush(motores[p]))
      BY FlushSend DEF Movido
    <3>3. \A q \in Puertos : Valido(motores'[q]) /\ Movido(motores'[q])
      BY <1>0, <3>1, <3>2
    <3>. QED
      BY <3>3 DEF Valido, Sano
  <2>2. sesiones[p] \in Nat \ {0}
    BY <1>0, <1>9 DEF Tick, Nada
  <2>3. red' \subseteq Segmento
    BY <1>0, <1>9, <2>2, LoEscrito DEF Tick
  <2>. QED
    BY <1>0, <1>i, <1>9, <2>1, <2>3 DEF TypeOK, Tick, cliVars
<1>10. ASSUME NEW p \in Puertos, Libera(p) PROVE Tipos'
  <2>1. \A q \in Puertos : Valido(motores'[q]) /\ Movido(motores'[q]) /\ motores'[q] \in Motor
    BY <1>0, <1>10, NuevoValido DEF Libera, Valido, Sano
  <2>2. olvidos' \in 0..MaxOlvidos
    BY <1>0, <1>10 DEF Libera
  <2>3. red' \subseteq Segmento
    BY <1>0, <1>10 DEF Libera, Quedan
  <2>4. /\ motores' \in [Puertos -> Motor] /\ sesiones' \in [Puertos -> 0..numeradas.ses]
        /\ UNCHANGED <<conexion, puerto, cliente, manejados, numeradas>>
    BY <1>0, <1>10, <2>1 DEF Libera, cliVars, Nada
  <2>. QED
    BY <1>0, <1>i, <2>1, <2>2, <2>3, <2>4 DEF TypeOK
<1>11. CASE Reinicia
  <2>1. \A q \in Puertos : Valido(motores'[q]) /\ Movido(motores'[q]) /\ motores'[q] \in Motor
    BY <1>11, NuevoValido DEF Reinicia, Valido, Sano
  <2>2. red' \subseteq Segmento
    BY <1>0, <1>11 DEF Reinicia, Quedan
  <2>. QED
    BY <1>0, <1>i, <1>11, <2>1, <2>2 DEF TypeOK, Reinicia, cliVars, Nada
<1>12. ASSUME NEW p \in Puertos, PasaTiempo(p) PROVE Tipos'
  BY <1>0, <1>i, <1>12 DEF TypeOK, PasaTiempo, cliVars
<1>. QED
  BY <1>1, <1>2, <1>3, <1>4, <1>5, <1>6, <1>7, <1>8, <1>9, <1>10, <1>11, <1>12 DEF Next

-----------------------------------------------------------------------------
(* Sessions *)

\* A step that receives nothing at the server and forgets no session.
Sigue ==
  /\ UNCHANGED <<sesiones, manejados>> /\ numeradas'.ses = numeradas.ses
  /\ \A p \in Puertos :
       /\ motores'[p].rcv_nxt = motores[p].rcv_nxt /\ motores'[p].rcv_buf = motores[p].rcv_buf
       /\ sesiones[p] = Nada => motores'[p] = motores[p]

\* A step that forgets the sessions of the ports P, and loses datagrams: those on their
\* way there, unless EnCamino.
Olvida(P) ==
  /\ \A p \in P : sesiones'[p] = Nada /\ motores'[p] = Nuevo
  /\ \A p \in Puertos \ P : sesiones'[p] = sesiones[p] /\ motores'[p] = motores[p]
  /\ red' \subseteq red
  /\ ~EnCamino => \A s \in red' : s.puerto \notin P
  /\ UNCHANGED <<conexion, puerto, cliente, manejados, numeradas>>

\* A step leaves what the sessions have handled, is a datagram, or forgets sessions.
LEMMA Pasos ==
  ASSUME Tipos, Atendidas, [Next]_vars
  PROVE  \/ Sigue
         \/ \E p \in Puertos : ChannelRead0(p)
         \/ \E P \in SUBSET Puertos : Olvida(P)
<1>0. motores \in [Puertos -> Motor] /\ sesiones \in [Puertos -> 0..numeradas.ses]
      /\ \A p \in Puertos : Valido(motores[p])
      /\ numeradas \in [con : 0..MaxConexiones, ses : Nat]
  BY DEF Tipos, TypeOK
<1>1. CASE UNCHANGED vars
  BY <1>1 DEF vars, cliVars, srvVars, Sigue
<1>2. ASSUME NEW p \in Puertos, Conecta(p) PROVE Sigue
  BY <1>0, <1>2 DEF Conecta, srvVars, Sigue
<1>3. CASE Desconecta
  BY <1>3 DEF Desconecta, srvVars, Sigue
<1>4. CASE SendPacket
  BY <1>4 DEF SendPacket, srvVars, Sigue
<1>5. CASE PollSocket
  BY <1>5 DEF PollSocket, srvVars, Sigue
<1>6. CASE FlushCliente
  BY <1>6 DEF FlushCliente, srvVars, Sigue
<1>7. ASSUME NEW p \in Puertos, Send(p) PROVE Sigue
  <2>1. /\ motores' = [motores EXCEPT ![p] = TrasSend(motores[p])] /\ sesiones[p] # Nada
        /\ UNCHANGED <<sesiones, manejados, numeradas>>
    BY <1>7 DEF Send
  <2>2. /\ TrasSend(motores[p]).rcv_nxt = motores[p].rcv_nxt
        /\ TrasSend(motores[p]).rcv_buf = motores[p].rcv_buf
    BY <1>0, FlushSend
  <2>. QED
    BY <1>0, <2>1, <2>2 DEF Sigue
<1>8. ASSUME NEW p \in Puertos, Tick(p) PROVE Sigue
  <2>1. /\ motores' = [motores EXCEPT ![p] = TrasFlush(motores[p])] /\ sesiones[p] # Nada
        /\ UNCHANGED <<sesiones, manejados, numeradas>>
    BY <1>8 DEF Tick
  <2>2. /\ TrasFlush(motores[p]).rcv_nxt = motores[p].rcv_nxt
        /\ TrasFlush(motores[p]).rcv_buf = motores[p].rcv_buf
    BY <1>0, FlushSend
  <2>. QED
    BY <1>0, <2>1, <2>2 DEF Sigue
<1>9. ASSUME NEW p \in Puertos, Libera(p) PROVE Olvida({p})
  BY <1>0, <1>9 DEF Libera, Quedan, cliVars, Olvida
<1>10. CASE Reinicia
  <2>1. Olvida(Puertos)
    BY <1>0, <1>10 DEF Reinicia, Quedan, cliVars, Olvida
  <2>. QED
    BY <2>1
<1>11. ASSUME NEW p \in Puertos, PasaTiempo(p) PROVE Olvida({})
  BY <1>11 DEF PasaTiempo, cliVars, Olvida
<1>. QED
  BY <1>1, <1>2, <1>3, <1>4, <1>5, <1>6, <1>7, <1>8, <1>9, <1>10, <1>11 DEF Next

\* Every step preserves what sessions and engines say of each other.
LEMMA PasoAtendidas ==
  ASSUME Tipos, Atendidas, [Next]_vars
  PROVE  Atendidas'
<1>0. motores \in [Puertos -> Motor] /\ sesiones \in [Puertos -> 0..numeradas.ses]
      /\ numeradas.ses \in Nat
  BY DEF Tipos, TypeOK
<1>1. CASE Sigue
  <2>1. \A n : DeSesion(n)' = DeSesion(n)
    BY <1>1 DEF Sigue, DeSesion
  <2>. QED
    BY <1>1, <2>1 DEF Atendidas, Sigue
<1>2. ASSUME NEW P \in SUBSET Puertos, Olvida(P) PROVE Atendidas'
  <2>1. \A n : DeSesion(n)' = DeSesion(n)
    BY <1>2 DEF Olvida, DeSesion
  <2>2. \A p \in Puertos :
          sesiones'[p] # Nada => sesiones'[p] = sesiones[p] /\ motores'[p] = motores[p]
    BY <1>2 DEF Olvida
  <2>3. \A p \in Puertos : sesiones'[p] = Nada => motores'[p] = Nuevo
    BY <1>2 DEF Olvida, Atendidas
  <2>. QED
    BY <1>2, <2>1, <2>2, <2>3 DEF Atendidas, Olvida
<1>3. ASSUME NEW p \in Puertos, ChannelRead0(p) PROVE Atendidas'
  <2>1. PICK s, id, m, a : Llega(p, s, id, m, a)
    BY <1>3, LlegaPaso
  <2>. DEFINE l == Len(manejados)
              l1 == Len(manejados')
              r == motores[p].rcv_nxt
  <2>2. /\ l \in Nat /\ Len(a) \in Nat /\ l1 = l + Len(a)
        /\ \A i \in 1..l : manejados'[i] = manejados[i]
        /\ \A i \in 1..Len(a) : manejados'[l + i] = a[i]
        /\ id \in 1..numeradas'.ses /\ numeradas.ses <= numeradas'.ses
        /\ numeradas' \in [con : {numeradas.con}, ses : Nat]
        /\ r \in Nat /\ m.rcv_nxt \in Nat
        /\ {manejados[i].sn : i \in DeSesion(id)} = 0..(r - 1)
    <3>1. /\ Len(manejados) \in Nat /\ Len(a) \in Nat /\ Len(manejados') = Len(manejados) + Len(a)
          /\ \A i \in 1..Len(manejados) : manejados'[i] = manejados[i]
          /\ \A i \in 1..Len(a) : manejados'[Len(manejados) + i] = a[i]
          /\ manejados' \in Seq([ses : Nat \ {0}, con : Nat \ {0}, sn : Nat])
      BY <2>1, LlegaAlFinal
    <3>2. /\ id \in 1..numeradas'.ses /\ numeradas.ses <= numeradas'.ses
          /\ numeradas' \in [con : {numeradas.con}, ses : Nat]
          /\ motores[p].rcv_nxt \in Nat /\ m.rcv_nxt \in Nat
          /\ {manejados[i].sn : i \in DeSesion(id)} = 0..(motores[p].rcv_nxt - 1)
      BY <2>1, LlegaHistoria
    <3>. QED
      BY Zenon, <3>1, <3>2
  <2>3. /\ sesiones' = [sesiones EXCEPT ![p] = id] /\ motores' = [motores EXCEPT ![p] = m]
        /\ sesiones[p] # Nada => id = sesiones[p]
        /\ sesiones[p] = Nada => id = numeradas.ses + 1
        /\ Len(a) = m.rcv_nxt - r /\ m.rcv_nxt >= r
        /\ \A i \in 1..Len(a) : a[i].ses = id /\ a[i].sn = r + i - 1
    BY <2>1 DEF Llega
  <2>4. /\ \A n : n # id => DeSesion(n)' = DeSesion(n)
        /\ DeSesion(id)' = DeSesion(id) \cup ((l + 1)..l1)
        /\ \A i \in (l + 1)..l1 : i - l \in 1..Len(a) /\ manejados'[i] = a[i - l]
    BY <2>1, LlegaDeSesion
  <2>. HIDE DEF l, l1, r
  <2>5. \A q \in Puertos : sesiones'[q] = Nada => motores'[q] = Nuevo
    BY <1>0, <2>2, <2>3 DEF Atendidas, Nada
  <2>6. \A q \in Puertos \ {p} : sesiones[q] # id
    BY <1>0, <2>3 DEF Atendidas
  <2>7. \A q, q1 \in Puertos : sesiones'[q] = sesiones'[q1] /\ sesiones'[q] # Nada => q = q1
    BY <1>0, <2>3, <2>6 DEF Atendidas
  <2>8. /\ l \in Nat /\ l1 \in Nat /\ l <= l1 /\ l1 - l = m.rcv_nxt - r
        /\ r \in Nat /\ m.rcv_nxt \in Nat /\ r <= m.rcv_nxt
        /\ \A i \in 1..l1 : i \in 1..l \/ i \in (l + 1)..l1
        /\ \A i \in (l + 1)..l1 : manejados'[i].ses = id /\ manejados'[i].sn = r + (i - l) - 1
    <3>1. /\ l \in Nat /\ l1 = l + Len(a) /\ Len(a) = m.rcv_nxt - r /\ Len(a) \in Nat
          /\ r \in Nat /\ m.rcv_nxt \in Nat /\ r <= m.rcv_nxt
      BY <2>2, <2>3
    <3>2. \A i \in (l + 1)..l1 : manejados'[i].ses = id /\ manejados'[i].sn = r + (i - l) - 1
      BY <2>3, <2>4
    <3>3. l1 \in Nat /\ l <= l1 /\ l1 - l = m.rcv_nxt - r
      BY <3>1
    <3>4. \A i \in 1..l1 : i \in 1..l \/ i \in (l + 1)..l1
      BY <3>1
    <3>. QED
      BY <3>1, <3>2, <3>3, <3>4
  <2>9. ASSUME NEW i \in 1..l1 PROVE manejados'[i].ses <= numeradas'.ses
    <3>1. CASE i \in 1..l
      <4>1. manejados[i].ses <= numeradas.ses
        BY <3>1 DEF Atendidas, l
      <4>2. manejados[i] \in [ses : Nat \ {0}, con : Nat \ {0}, sn : Nat]
        <5>1. manejados \in Seq([ses : Nat \ {0}, con : Nat \ {0}, sn : Nat])
          BY DEF Tipos, TypeOK
        <5>2. \A S : \A q \in Seq(S) : \A k \in 1..Len(q) : q[k] \in S
          OBVIOUS
        <5>. QED
          BY <3>1, <5>1, <5>2 DEF l
      <4>3. /\ manejados[i].ses \in Nat /\ manejados'[i].ses = manejados[i].ses
            /\ numeradas'.ses \in Nat
        BY <2>2, <3>1, <4>2
      <4>. QED
        BY <1>0, <2>2, <4>1, <4>3
    <3>2. CASE i \in (l + 1)..l1
      BY <2>2, <2>8, <3>2
    <3>. QED
      BY <2>8, <3>1, <3>2
  <2>10. ASSUME NEW n, n # id
         PROVE  {manejados'[i].sn : i \in {j \in 1..l1 : manejados'[j].ses = n}}
                  = {manejados[i].sn : i \in DeSesion(n)}
    <3>1. {j \in 1..l1 : manejados'[j].ses = n} = DeSesion(n)
      BY <2>4, <2>10 DEF DeSesion, l1
    <3>2. \A i \in DeSesion(n) : manejados'[i] = manejados[i]
      BY <2>2 DEF DeSesion, l
    <3>. QED
      BY <3>1, <3>2
  <2>11. ASSUME NEW q \in Puertos, q # p, sesiones'[q] # Nada
         PROVE  {manejados'[i].sn : i \in DeSesion(sesiones[q])'} = 0..(motores'[q].rcv_nxt - 1)
    <3>1. sesiones'[q] = sesiones[q] /\ motores'[q] = motores[q] /\ sesiones[q] # id
      BY <1>0, <2>3, <2>6, <2>11
    <3>2. DeSesion(sesiones[q])' = {j \in 1..l1 : manejados'[j].ses = sesiones[q]}
      BY <3>1 DEF DeSesion, l1
    <3>3. {manejados[i].sn : i \in DeSesion(sesiones[q])} = 0..(motores[q].rcv_nxt - 1)
      BY <2>11, <3>1 DEF Atendidas
    <3>. QED
      BY <2>10, <3>1, <3>2, <3>3
  <2>12. {manejados'[i].sn : i \in {j \in 1..l1 : manejados'[j].ses = id}} = 0..(m.rcv_nxt - 1)
    <3>0. {j \in 1..l1 : manejados'[j].ses = id} = DeSesion(id) \cup ((l + 1)..l1)
      BY <2>4 DEF DeSesion, l1
    <3>1. {manejados'[i].sn : i \in DeSesion(id) \cup ((l + 1)..l1)} = 0..(r + (l1 - l) - 1)
      BY <2>1, <2>8, LlegaNumeros DEF l, l1, r
    <3>2. r + (l1 - l) - 1 = m.rcv_nxt - 1
      BY <2>8
    <3>. QED
      BY Zenon, <3>0, <3>1, <3>2
  <2>13. ASSUME NEW q \in Puertos, sesiones'[q] # Nada
         PROVE  {manejados'[i].sn : i \in DeSesion(sesiones[q])'} = 0..(motores'[q].rcv_nxt - 1)
    <3>1. CASE q # p
      BY <2>11, <2>13, <3>1
    <3>2. CASE q = p
      <4>1. sesiones'[q] = id /\ motores'[q] = m
        BY <1>0, <2>3, <3>2
      <4>2. DeSesion(sesiones[q])' = {j \in 1..l1 : manejados'[j].ses = id}
        BY <4>1 DEF DeSesion, l1
      <4>. QED
        BY <2>12, <4>1, <4>2
    <3>. QED
      BY <3>1, <3>2
  <2>. QED
    BY <2>5, <2>7, <2>9, <2>13 DEF Atendidas, l1
<1>. QED
  BY <1>1, <1>2, <1>3, Pasos
-----------------------------------------------------------------------------
(* Conversations *)

\* While nothing is handled, what has been handled stays in order and of one connection.
LEMMA HistoriaIgual ==
  ASSUME UNCHANGED manejados
  PROVE  /\ EnOrden => EnOrden'
         /\ DeUna => DeUna'
<1>1. \A i, n : Antes(i, n)' = Antes(i, n)
  BY DEF Antes
<1>. QED
  BY <1>1 DEF EnOrden, DeUna

\* Every step preserves the order of what a session has handled.
LEMMA PasoEnOrden ==
  ASSUME Tipos, Atendidas, EnOrden, [Next]_vars
  PROVE  EnOrden'
<1>1. CASE UNCHANGED manejados
  BY <1>1, HistoriaIgual
<1>2. ASSUME NEW p \in Puertos, ChannelRead0(p) PROVE EnOrden'
  <2>1. PICK s, id, m, a : Llega(p, s, id, m, a)
    BY <1>2, LlegaPaso
  <2>. DEFINE l == Len(manejados)
              l1 == Len(manejados')
              r == motores[p].rcv_nxt
  <2>2. /\ l \in Nat /\ Len(a) \in Nat /\ l1 = l + Len(a) /\ r \in Nat
        /\ \A i \in 1..l : manejados'[i] = manejados[i]
        /\ \A i \in 1..l : \A n : Antes(i, n)' = Antes(i, n)
        /\ \A i \in (l + 1)..l1 :
             /\ Antes(i, id)' = DeSesion(id) \cup ((l + 1)..(i - 1))
             /\ i - l \in 1..Len(a) /\ manejados'[i] = a[i - l]
    BY <2>1, LlegaHistoria, LlegaDeSesion
  <2>3. \A i \in 1..Len(a) : a[i].ses = id /\ a[i].sn = r + i - 1
    BY <2>1 DEF Llega
  <2>4. ASSUME NEW k \in Nat, l <= k, k <= l1
        PROVE  {manejados'[i].sn : i \in DeSesion(id) \cup ((l + 1)..k)} = 0..(r + (k - l) - 1)
    BY <2>1, <2>4, LlegaNumeros
  <2>. HIDE DEF l, l1, r
  <2>5. ASSUME NEW i \in 1..l
        PROVE  {manejados'[j].sn : j \in Antes(i, manejados[i].ses)'} = 0..(manejados'[i].sn - 1)
    <3>1. manejados'[i] = manejados[i] /\ Antes(i, manejados[i].ses)' = Antes(i, manejados[i].ses)
      BY <2>2 DEF Antes
    <3>2. \A j \in Antes(i, manejados[i].ses) : manejados'[j] = manejados[j]
      BY <2>2 DEF Antes
    <3>3. {manejados[j].sn : j \in Antes(i, manejados[i].ses)} = 0..(manejados[i].sn - 1)
      BY DEF EnOrden, l
    <3>. QED
      BY <3>1, <3>2, <3>3
  <2>6. ASSUME NEW i \in (l + 1)..l1
        PROVE  {manejados'[j].sn : j \in Antes(i, manejados[i].ses)'} = 0..(manejados'[i].sn - 1)
    <3>1. manejados'[i].ses = id /\ manejados'[i].sn = r + (i - l) - 1
      BY <2>2, <2>3
    <3>2. Antes(i, manejados[i].ses)' = DeSesion(id) \cup ((l + 1)..(i - 1))
      BY <2>2, <3>1 DEF Antes
    <3>3. /\ i - 1 \in Nat /\ l <= i - 1 /\ i - 1 <= l1
          /\ r + ((i - 1) - l) - 1 = (r + (i - l) - 1) - 1
      BY <2>2
    <3>4. {manejados'[j].sn : j \in DeSesion(id) \cup ((l + 1)..(i - 1))}
            = 0..(r + ((i - 1) - l) - 1)
      BY <2>4, <3>3
    <3>. QED
      BY <3>1, <3>2, <3>3, <3>4
  <2>7. \A i \in 1..l1 : i \in 1..l \/ i \in (l + 1)..l1
    BY <2>2
  <2>. QED
    BY <2>5, <2>6, <2>7 DEF EnOrden, l1
<1>. QED
  BY <1>1, <1>2, Pasos DEF Sigue, Olvida

\* After a datagram a port has the connections it had.
LEMMA LlegaOrigenes ==
  ASSUME Tipos, Atendidas, NEW p \in Puertos, ChannelRead0(p), NEW q \in Puertos
  PROVE  Origenes(q)' \subseteq Origenes(q)
<1>1. PICK s, id, m, a : Llega(p, s, id, m, a)
  BY LlegaPaso
<1>. DEFINE l == Len(manejados)
            l1 == Len(manejados')
            x0 == [sn |-> s.sn, origen |-> s.origen]
<1>2. /\ s \in HaciaServidor(p)
      /\ sesiones' = [sesiones EXCEPT ![p] = id] /\ motores' = [motores EXCEPT ![p] = m]
      /\ red' = red
      /\ m.rcv_buf \subseteq motores[p].rcv_buf \cup {x0}
      /\ sesiones[p] # Nada => id = sesiones[p]
      /\ \A i \in 1..Len(a) :
           /\ a[i].ses = id
           /\ \/ \E x \in motores[p].rcv_buf : x.origen = a[i].con
              \/ s.origen = a[i].con
  BY <1>1 DEF Llega
<1>3. /\ motores \in [Puertos -> Motor] /\ sesiones \in [Puertos -> 0..numeradas.ses]
      /\ numeradas.ses \in Nat
  BY DEF Tipos, TypeOK
<1>4. /\ HaciaServidor(q)' = HaciaServidor(q)
      /\ \A y \in motores'[q].rcv_buf : y \in motores[q].rcv_buf \/ (q = p /\ y = x0)
  <2>1. motores'[q] = IF q = p THEN m ELSE motores[q]
    BY <1>2, <1>3
  <2>2. HaciaServidor(q)' = HaciaServidor(q)
    BY <1>2 DEF HaciaServidor
  <2>. QED
    BY <1>2, <2>1, <2>2
<1>5. /\ l \in Nat /\ Len(a) \in Nat /\ l1 = l + Len(a)
      /\ \A i \in 1..l : manejados'[i] = manejados[i]
      /\ \A i \in (l + 1)..l1 : i - l \in 1..Len(a) /\ manejados'[i] = a[i - l]
      /\ \A i \in 1..Len(manejados) : manejados[i].ses <= numeradas.ses
  BY <1>1, LlegaHistoria, LlegaDeSesion DEF Atendidas
<1>6. sesiones[p] = Nada => id = numeradas.ses + 1
  BY <1>1 DEF Llega
<1>. SUFFICES ASSUME NEW c \in Origenes(q)' PROVE c \in Origenes(q)
  OBVIOUS
<1>7. \/ \E y \in HaciaServidor(q)' : c = y.origen
      \/ \E x \in motores'[q].rcv_buf : c = x.origen
      \/ /\ sesiones'[q] # Nada
         /\ \E i \in 1..l1 : manejados'[i].ses = sesiones'[q] /\ c = manejados'[i].con
  BY DEF Origenes, DeSesion
<1>8. s.origen \in Origenes(p)
  BY <1>2 DEF Origenes
<1>9. CASE \E y \in HaciaServidor(q)' : c = y.origen
  BY <1>4, <1>9 DEF Origenes
<1>10. CASE \E x \in motores'[q].rcv_buf : c = x.origen
  BY <1>4, <1>8, <1>10 DEF Origenes
<1>11. ASSUME sesiones'[q] # Nada,
              NEW i \in 1..l1, manejados'[i].ses = sesiones'[q], c = manejados'[i].con
       PROVE  c \in Origenes(q)
  <2>1. CASE i \in 1..l
    <3>1. /\ manejados[i].ses = sesiones'[q] /\ c = manejados[i].con
          /\ manejados[i].ses <= numeradas.ses
      BY <1>5, <1>11, <2>1
    <3>2. sesiones'[q] = sesiones[q]
      BY <1>2, <1>3, <1>6, <3>1
    <3>. QED
      BY <1>11, <2>1, <3>1, <3>2 DEF Origenes, DeSesion
  <2>2. CASE i \in (l + 1)..l1
    <3>1. i - l \in 1..Len(a) /\ manejados'[i] = a[i - l]
      BY <1>5, <2>2
    <3>2. sesiones'[q] = id
      BY <1>2, <1>11, <3>1
    <3>3. q = p
      BY <1>2, <1>3, <1>6, <3>2 DEF Atendidas
    <3>4. \/ \E x \in motores[p].rcv_buf : x.origen = c
          \/ s.origen = c
      BY <1>2, <1>11, <3>1
    <3>. QED
      BY <1>8, <3>3, <3>4 DEF Origenes
  <2>. QED
    BY <1>5, <2>1, <2>2
<1>. QED
  BY <1>7, <1>9, <1>10, <1>11

\* A step writes to the server from the present connection only.
LEMMA PasoOrigenes ==
  ASSUME Tipos, Atendidas, [Next]_vars, NEW q \in Puertos
  PROVE  \A c \in Origenes(q)' :
           c \in Origenes(q) \/ (c = conexion' /\ conexion' # Nada /\ q = puerto')
<1>1. ASSUME NEW p \in Puertos, ChannelRead0(p) PROVE Origenes(q)' \subseteq Origenes(q)
  BY <1>1, LlegaOrigenes
<1>2. ASSUME NEW P \in SUBSET Puertos, Olvida(P) PROVE Origenes(q)' \subseteq Origenes(q)
  <2>1. /\ HaciaServidor(q)' \subseteq HaciaServidor(q)
        /\ \A n : DeSesion(n)' = DeSesion(n) /\ manejados' = manejados
    BY <1>2 DEF Olvida, HaciaServidor, DeSesion
  <2>2. \/ sesiones'[q] = sesiones[q] /\ motores'[q] = motores[q]
        \/ sesiones'[q] = Nada /\ motores'[q].rcv_buf = {}
    BY <1>2 DEF Olvida, Nuevo
  <2>3. sesiones'[q] = sesiones[q] => DeSesion(sesiones[q])' = DeSesion(sesiones[q])
    BY <2>1 DEF DeSesion
  <2>. QED
    BY <2>1, <2>2, <2>3 DEF Origenes
<1>3. ASSUME Sigue, NEW c \in Origenes(q)'
      PROVE c \in Origenes(q) \/ \E s \in HaciaServidor(q)' : c = s.origen
  <2>1. sesiones' = sesiones /\ manejados' = manejados /\ motores'[q].rcv_buf = motores[q].rcv_buf
    BY <1>3 DEF Sigue
  <2>2. DeSesion(sesiones[q])' = DeSesion(sesiones[q])
    BY <2>1 DEF DeSesion
  <2>. QED
    BY <1>3, <2>1, <2>2 DEF Origenes
<1>4. ASSUME Sigue, NEW s \in HaciaServidor(q)', s \notin red
      PROVE  s.origen = conexion' /\ conexion' # Nada /\ q = puerto'
  <2>1. s \in red' /\ s.hacia = "servidor" /\ s.puerto = q /\ red' # red
    BY <1>4 DEF HaciaServidor
  <2>2. CASE FlushCliente
    <3>1. /\ red' = red \cup Escrito(cliente, "servidor", puerto, conexion)
          /\ conexion' = conexion /\ puerto' = puerto /\ conexion # Nada
      BY <2>2 DEF FlushCliente, Conectado
    <3>. QED
      BY <1>4, <2>1, <3>1 DEF Escrito
  <2>3. ASSUME NEW p \in Puertos, Tick(p) PROVE FALSE
    BY <1>4, <2>1, <2>3 DEF Tick, Escrito
  <2>4. ASSUME \/ Desconecta \/ SendPacket \/ PollSocket \/ UNCHANGED vars
               \/ \E p \in Puertos : Conecta(p) \/ ChannelRead0(p) \/ Send(p)
        PROVE  FALSE
    BY <1>4, <2>1, <2>4 DEF Desconecta, SendPacket, PollSocket, vars, Conecta, ChannelRead0, Send
  <2>5. ASSUME \/ Reinicia \/ \E p \in Puertos : Libera(p) \/ PasaTiempo(p) PROVE FALSE
    BY <1>4, <2>1, <2>5 DEF Reinicia, Libera, PasaTiempo, Quedan
  <2>. QED
    BY <2>2, <2>3, <2>4, <2>5 DEF Next
<1>5. ASSUME Sigue, NEW c \in Origenes(q)'
      PROVE  c \in Origenes(q) \/ (c = conexion' /\ conexion' # Nada /\ q = puerto')
  <2>. SUFFICES ASSUME NEW s \in HaciaServidor(q)', c = s.origen
                PROVE  c \in Origenes(q) \/ (c = conexion' /\ conexion' # Nada /\ q = puerto')
    BY <1>3, <1>5
  <2>1. CASE s \in red
    BY <2>1 DEF Origenes, HaciaServidor
  <2>2. CASE s \notin red
    BY <1>4, <1>5, <2>2
  <2>. QED
    BY <2>1, <2>2
<1>. QED
  BY <1>1, <1>2, <1>5, Pasos

\* The present connection goes on, ends, or is a new one.
LEMMA PasoConexion ==
  ASSUME Tipos, [Next]_vars
  PROVE  \/ conexion' = conexion /\ puerto' = puerto /\ numeradas'.con = numeradas.con
         \/ conexion' = Nada /\ numeradas' = numeradas
         \/ \E p \in Puertos : Conecta(p) /\ conexion' = numeradas.con + 1 /\ puerto' = p
                               /\ numeradas'.con = numeradas.con + 1
<1>0. numeradas \in [con : 0..MaxConexiones, ses : Nat]
  BY DEF Tipos, TypeOK
<1>1. ASSUME NEW p \in Puertos, Conecta(p)
      PROVE  conexion' = numeradas.con + 1 /\ puerto' = p /\ numeradas'.con = numeradas.con + 1
  BY <1>0, <1>1 DEF Conecta
<1>2. CASE Desconecta
  BY <1>2 DEF Desconecta
<1>3. ASSUME NEW p \in Puertos, ChannelRead0(p)
      PROVE  conexion' = conexion /\ puerto' = puerto /\ numeradas'.con = numeradas.con
  BY <1>0, <1>3 DEF ChannelRead0, cliVars
<1>4. ASSUME \/ UNCHANGED vars \/ SendPacket \/ PollSocket \/ FlushCliente \/ Reinicia
             \/ \E p \in Puertos : Send(p) \/ Tick(p) \/ Libera(p) \/ PasaTiempo(p)
      PROVE  conexion' = conexion /\ puerto' = puerto /\ numeradas' = numeradas
  BY <1>4 DEF vars, SendPacket, PollSocket, FlushCliente, Reinicia, Send, Tick, Libera, PasaTiempo,
              cliVars
<1>. QED
  BY <1>1, <1>2, <1>3, <1>4 DEF Next

\* Every step preserves where what is left for the server comes from.
LEMMA PasoProcedencia ==
  ASSUME Tipos, Atendidas, Procedencia, [Next]_vars
  PROVE  Procedencia'
<1>0. numeradas.con \in Nat /\ conexion \in Nat /\ conexion <= numeradas.con
  BY SesionKcpAssumption DEF Tipos, TypeOK, Procedencia
<1>1. conexion' \in Nat /\ conexion' <= numeradas'.con /\ numeradas.con <= numeradas'.con
      /\ numeradas'.con \in Nat
  BY <1>0, PasoConexion DEF Nada
<1>2. ASSUME NEW q \in Puertos, NEW c \in Origenes(q)'
      PROVE  c \in 1..numeradas'.con /\ (c = conexion' => q = puerto')
  <2>1. CASE c \in Origenes(q)
    <3>1. c \in 1..numeradas.con /\ (c = conexion => q = puerto)
      BY <2>1 DEF Procedencia
    <3>. QED
      BY <1>0, <1>1, <3>1, PasoConexion DEF Nada
  <2>2. CASE c = conexion' /\ conexion' # Nada /\ q = puerto'
    BY <1>1, <2>2 DEF Nada
  <2>. QED
    BY <1>2, <2>1, <2>2, PasoOrigenes
<1>. QED
  BY <1>1, <1>2 DEF Procedencia

\* A port the server has no session for has no connection after it is taken.
LEMMA ConectaSola ==
  ASSUME Atendidas, NEW p \in Puertos, Conecta(p), ~Reutiliza
  PROVE  Origenes(p)' = {}
<1>1. /\ sesiones' = sesiones /\ motores' = motores /\ sesiones[p] = Nada
      /\ \A s \in red' : s.puerto # p
  BY DEF Conecta, srvVars
<1>2. motores[p].rcv_buf = {}
  BY <1>1 DEF Atendidas, Nuevo
<1>3. HaciaServidor(p)' = {}
  BY <1>1 DEF HaciaServidor
<1>. QED
  BY <1>1, <1>2, <1>3 DEF Origenes

\* Every step preserves that a port has one connection, if no port is reused.
LEMMA PasoUnOrigen ==
  ASSUME Tipos, Atendidas, UnOrigen, [Next]_vars, ~Reutiliza
  PROVE  UnOrigen'
<1>. SUFFICES ASSUME NEW q \in Puertos, NEW c \in Origenes(q)'
              PROVE  /\ \A d \in Origenes(q)' : c = d
                     /\ EnUso(q)' => c = conexion'
  BY DEF UnOrigen
<1>1. CASE conexion' = conexion /\ puerto' = puerto
  BY <1>1, PasoOrigenes DEF UnOrigen, EnUso
<1>2. CASE conexion' = Nada
  BY <1>2, PasoOrigenes DEF UnOrigen, EnUso
<1>3. ASSUME NEW p \in Puertos, Conecta(p), puerto' = p
      PROVE  (\A d \in Origenes(q)' : c = d) /\ (EnUso(q)' => c = conexion')
  <2>1. q # p
    BY <1>3, ConectaSola
  <2>. QED
    BY <1>3, <2>1, PasoOrigenes DEF UnOrigen, EnUso
<1>. QED
  BY <1>1, <1>2, <1>3, PasoConexion

\* Every step preserves that a session handles one connection, if no port is reused.
LEMMA PasoDeUna ==
  ASSUME Tipos, Atendidas, UnOrigen, DeUna, [Next]_vars
  PROVE  DeUna'
<1>1. CASE UNCHANGED manejados
  BY <1>1, HistoriaIgual
<1>2. ASSUME NEW p \in Puertos, ChannelRead0(p) PROVE DeUna'
  <2>1. PICK s, id, m, a : Llega(p, s, id, m, a)
    BY <1>2, LlegaPaso
  <2>. DEFINE l == Len(manejados)
              l1 == Len(manejados')
  <2>2. /\ l \in Nat /\ Len(a) \in Nat /\ l1 = l + Len(a)
        /\ \A i \in 1..l : manejados'[i] = manejados[i]
        /\ \A i \in 1..l : \A n : Antes(i, n)' = Antes(i, n)
        /\ \A i \in (l + 1)..l1 :
             /\ Antes(i, id)' = DeSesion(id) \cup ((l + 1)..(i - 1))
             /\ i - l \in 1..Len(a) /\ manejados'[i] = a[i - l]
    BY <2>1, LlegaHistoria, LlegaDeSesion
  <2>3. /\ \A i \in 1..Len(a) :
             /\ a[i].ses = id
             /\ \/ \E x \in motores[p].rcv_buf : x.origen = a[i].con
                \/ s.origen = a[i].con
        /\ s \in HaciaServidor(p)
        /\ sesiones[p] # Nada => id = sesiones[p]
        /\ sesiones[p] = Nada => id = numeradas.ses + 1
    BY <2>1 DEF Llega
  <2>4. \A i \in 1..Len(a) : a[i].con \in Origenes(p)
    BY <2>3 DEF Origenes
  <2>5. \A j \in DeSesion(id) : manejados[j].con \in Origenes(p) /\ j \in 1..l
    <3>1. CASE sesiones[p] # Nada
      BY <2>3, <3>1 DEF Origenes, DeSesion
    <3>2. CASE sesiones[p] = Nada
      <4>1. numeradas.ses \in Nat
        BY DEF Tipos, TypeOK
      <4>2. ASSUME NEW j \in DeSesion(id) PROVE FALSE
        BY <2>3, <3>2, <4>1 DEF DeSesion, Atendidas
      <4>. QED
        BY <4>2
    <3>. QED
      BY <3>1, <3>2
  <2>. HIDE DEF l, l1
  <2>6. ASSUME NEW i \in 1..l, NEW j \in Antes(i, manejados[i].ses)'
        PROVE  manejados'[j].con = manejados'[i].con
    <3>1. manejados'[i] = manejados[i] /\ Antes(i, manejados[i].ses)' = Antes(i, manejados[i].ses)
      BY <2>2 DEF Antes
    <3>2. j \in Antes(i, manejados[i].ses) /\ manejados'[j] = manejados[j]
      BY <2>2, <2>6, <3>1 DEF Antes
    <3>. QED
      BY <3>1, <3>2 DEF DeUna, l
  <2>7. ASSUME NEW i \in (l + 1)..l1
        PROVE manejados'[i].con \in Origenes(p) /\ manejados'[i].ses = id
    BY <2>2, <2>3, <2>4
  <2>8. ASSUME NEW i \in (l + 1)..l1, NEW j \in Antes(i, manejados[i].ses)'
        PROVE  manejados'[j].con = manejados'[i].con
    <3>1. Antes(i, manejados[i].ses)' = DeSesion(id) \cup ((l + 1)..(i - 1))
      BY <2>2, <2>7 DEF Antes
    <3>2. j \in (l + 1)..(i - 1) => j \in (l + 1)..l1
      BY <2>2
    <3>3. manejados'[j].con \in Origenes(p)
      BY <2>2, <2>5, <2>7, <2>8, <3>1, <3>2
    <3>. QED
      BY <2>7, <3>3 DEF UnOrigen
  <2>9. \A i \in 1..l1 : i \in 1..l \/ i \in (l + 1)..l1
    BY <2>2
  <2>. QED
    BY <2>6, <2>8, <2>9 DEF DeUna, l1
<1>. QED
  BY <1>1, <1>2, Pasos DEF Sigue, Olvida

-----------------------------------------------------------------------------
(* Acknowledgements *)

\* What the server writes acknowledges what its sessions have received.
LEMMA PasoAcusesDeAhora ==
  ASSUME Tipos, Atendidas, AcusesDeAhora, [Next]_vars, ~EnCamino
  PROVE  AcusesDeAhora'
<1>0. /\ motores \in [Puertos -> Motor] /\ red \subseteq Segmento
      /\ \A p \in Puertos : Valido(motores[p]) /\ motores[p].rcv_nxt \in Nat
  BY DEF Tipos, TypeOK, Motor
<1>. SUFFICES ASSUME NEW s \in red', s.hacia = "cliente", AcusaElPrimero(s)
              PROVE  motores'[s.puerto].rcv_nxt >= 1
  BY DEF AcusesDeAhora, AcusaElPrimero
<1>1. s \in red => motores[s.puerto].rcv_nxt >= 1 /\ s.puerto \in Puertos
  BY <1>0 DEF AcusesDeAhora, Segmento
<1>2. ASSUME NEW P \in SUBSET Puertos, Olvida(P) PROVE motores'[s.puerto].rcv_nxt >= 1
  BY <1>1, <1>2 DEF Olvida
<1>3. ASSUME NEW p \in Puertos, ChannelRead0(p) PROVE motores'[s.puerto].rcv_nxt >= 1
  <2>1. PICK x, id, m, a : Llega(p, x, id, m, a)
    BY <1>3, LlegaPaso
  <2>2. motores' = [motores EXCEPT ![p] = m] /\ red' = red /\ m.rcv_nxt >= motores[p].rcv_nxt
        /\ m.rcv_nxt \in Nat
    BY <2>1 DEF Llega, Valido, Sano, Motor
  <2>. QED
    BY <1>0, <1>1, <2>2
<1>4. ASSUME Sigue PROVE motores'[s.puerto].rcv_nxt >= 1
  <2>1. CASE s \in red
    BY <1>1, <1>4, <2>1 DEF Sigue
  <2>2. ASSUME NEW p \in Puertos, Tick(p), s \notin red
        PROVE  motores'[s.puerto].rcv_nxt >= 1
    <3>1. s \in Escrito(motores[p], "cliente", p, sesiones[p])
      BY <2>2 DEF Tick
    <3>2. /\ s.puerto = p /\ s.una = motores[p].rcv_nxt
          /\ s.cmd = "ACK" => s.sn \in motores[p].acklist
      BY <3>1 DEF Escrito
    <3>3. 0 \in motores[p].acklist => motores[p].rcv_nxt >= 1
      BY <1>0 DEF Valido
    <3>4. motores[p].rcv_nxt >= 1
      BY <3>2, <3>3 DEF AcusaElPrimero
    <3>. QED
      BY <1>4, <3>2, <3>4 DEF Sigue
  <2>3. ASSUME FlushCliente, s \notin red PROVE FALSE
    BY <2>3 DEF FlushCliente, Escrito
  <2>4. ASSUME \/ Desconecta \/ SendPacket \/ PollSocket \/ UNCHANGED vars \/ Reinicia
               \/ \E p \in Puertos : \/ Conecta(p) \/ ChannelRead0(p) \/ Send(p) \/ Libera(p)
                                     \/ PasaTiempo(p)
        PROVE  s \in red
    BY <2>4 DEF Desconecta, SendPacket, PollSocket, vars, Conecta, ChannelRead0, Send, Reinicia,
                Libera, PasaTiempo, Quedan
  <2>. QED
    BY <2>1, <2>2, <2>3, <2>4 DEF Next
<1>. QED
  BY <1>2, <1>3, <1>4, Pasos

\* What is left for the server at a port does not grow but by a flush of its client.
LEMMA PasoEmpezada ==
  ASSUME Tipos, Atendidas, AcusesDeAhora, Empezada, [Next]_vars, ~EnCamino
  PROVE  Empezada'
<1>0. /\ motores \in [Puertos -> Motor] /\ puerto \in Puertos
      /\ Valido(cliente) /\ cliente.snd_nxt \in Nat
      /\ cliente.snd_buf \subseteq 0..(cliente.snd_nxt - 1)
      /\ \A p \in Puertos : motores[p].rcv_nxt \in Nat
  BY DEF Tipos, TypeOK, Motor, Valido, Sano
<1>1. ASSUME NEW p \in Puertos, Conecta(p) PROVE Empezada'
  BY <1>1 DEF Conecta, Empezada, Nuevo
<1>2. CASE Desconecta
  BY <1>2 DEF Desconecta, Empezada
<1>3. ASSUME UNCHANGED <<conexion, puerto, red, motores>>,
             conexion # Nada /\ cliente'.snd_nxt > 0 /\ 0 \notin cliente'.snd_buf =>
               \/ motores[puerto].rcv_nxt >= 1
               \/ cliente.snd_nxt > 0 /\ 0 \notin cliente.snd_buf
      PROVE  Empezada'
  BY <1>3 DEF Empezada, HaciaServidor
<1>4. CASE SendPacket
  <2>1. /\ cliente'.snd_nxt = cliente.snd_nxt + 1
        /\ cliente'.snd_buf = cliente.snd_buf \cup {cliente.snd_nxt}
    BY <1>0, <1>4, FlushSend DEF SendPacket
  <2>2. 0 \notin cliente'.snd_buf => cliente.snd_nxt > 0 /\ 0 \notin cliente.snd_buf
    BY <1>0, <2>1
  <2>. QED
    BY <1>3, <1>4, <2>2 DEF SendPacket, srvVars
<1>5. CASE PollSocket
  <2>1. /\ cliente'.snd_nxt = cliente.snd_nxt
        /\ 0 \in cliente.snd_buf /\ 0 \notin cliente'.snd_buf =>
              \E s \in red : s.hacia = "cliente" /\ s.puerto = puerto /\ AcusaElPrimero(s)
        /\ UNCHANGED <<conexion, puerto, red, motores>>
    BY <1>5, ClienteRecibe DEF srvVars
  <2>2. 0 \in cliente.snd_buf /\ 0 \notin cliente'.snd_buf => motores[puerto].rcv_nxt >= 1
    BY <2>1 DEF AcusesDeAhora
  <2>. QED
    BY <1>3, <2>1, <2>2
<1>6. CASE FlushCliente
  <2>1. /\ red' = red \cup Escrito(cliente, "servidor", puerto, conexion)
        /\ UNCHANGED <<conexion, puerto, motores>>
    BY <1>6 DEF FlushCliente, srvVars
  <2>2. cliente'.snd_nxt = cliente.snd_nxt /\ cliente'.snd_buf = cliente.snd_buf
    BY <1>0, <1>6, FlushSend DEF FlushCliente
  <2>3. \A s \in HaciaServidor(puerto)' :
          s \in HaciaServidor(puerto) \/ (s.cmd = "PUSH" => s.sn \in cliente.snd_buf)
    BY <2>1 DEF HaciaServidor, Escrito
  <2>. QED
    BY <2>1, <2>2, <2>3 DEF Empezada
<1>7. ASSUME NEW p \in Puertos, ChannelRead0(p) PROVE Empezada'
  <2>1. PICK s, id, m, a : Llega(p, s, id, m, a)
    BY <1>7, LlegaPaso
  <2>2. /\ motores' = [motores EXCEPT ![p] = m] /\ UNCHANGED <<conexion, puerto, cliente, red>>
        /\ m.rcv_nxt >= motores[p].rcv_nxt /\ m.rcv_nxt \in Nat
    BY <2>1 DEF Llega, cliVars, Valido, Sano, Motor
  <2>3. motores[puerto].rcv_nxt >= 1 => motores'[puerto].rcv_nxt >= 1
    BY <1>0, <2>2
  <2>. QED
    BY <2>2, <2>3 DEF Empezada, HaciaServidor
<1>8. ASSUME NEW P \in SUBSET Puertos, Olvida(P) PROVE Empezada'
  <2>1. /\ UNCHANGED <<conexion, puerto, cliente>>
        /\ HaciaServidor(puerto)' \subseteq HaciaServidor(puerto)
    BY <1>8 DEF Olvida, HaciaServidor
  <2>2. CASE puerto \in P
    <3>1. HaciaServidor(puerto)' = {}
      BY <1>8, <2>1, <2>2 DEF Olvida, HaciaServidor
    <3>. QED
      BY <2>1, <3>1 DEF Empezada
  <2>3. CASE puerto \notin P
    BY <1>0, <1>8, <2>1, <2>3 DEF Olvida, Empezada
  <2>. QED
    BY <2>2, <2>3
<1>9. ASSUME NEW p \in Puertos, Send(p) \/ Tick(p) PROVE Empezada'
  <2>1. /\ UNCHANGED <<conexion, puerto, cliente>>
        /\ motores'[puerto].rcv_nxt = motores[puerto].rcv_nxt
    <3>1. \/ motores' = [motores EXCEPT ![p] = TrasSend(@)]
          \/ motores' = [motores EXCEPT ![p] = TrasFlush(@)]
      BY <1>9 DEF Send, Tick
    <3>2. /\ TrasSend(motores[p]).rcv_nxt = motores[p].rcv_nxt
          /\ TrasFlush(motores[p]).rcv_nxt = motores[p].rcv_nxt
      BY FlushSend DEF Tipos
    <3>. QED
      BY <1>0, <1>9, <3>1, <3>2 DEF Send, Tick, cliVars
  <2>2. HaciaServidor(puerto)' = HaciaServidor(puerto)
    BY <1>9, <2>1 DEF Send, Tick, HaciaServidor, Escrito
  <2>. QED
    BY <2>1, <2>2 DEF Empezada
<1>10. CASE UNCHANGED vars
  BY <1>10 DEF vars, cliVars, srvVars, Empezada, HaciaServidor
<1>11. ASSUME NEW p \in Puertos, Libera(p) PROVE Empezada'
  <2>1. Olvida({p})
    BY <1>0, <1>11 DEF Tipos, TypeOK, Libera, Quedan, cliVars, Olvida
  <2>. QED
    BY <1>8, <2>1
<1>12. CASE Reinicia
  <2>1. Olvida(Puertos)
    BY <1>12 DEF Reinicia, Quedan, cliVars, Olvida
  <2>. QED
    BY <1>8, <2>1
<1>13. ASSUME NEW p \in Puertos, PasaTiempo(p) PROVE Empezada'
  <2>1. Olvida({})
    BY <1>13 DEF PasaTiempo, cliVars, Olvida
  <2>. QED
    BY <1>8, <2>1
<1>. QED
  BY <1>1, <1>2, <1>4, <1>5, <1>6, <1>7, <1>9, <1>10, <1>11, <1>12, <1>13 DEF Next

-----------------------------------------------------------------------------
(* The theorems *)

\* The initial states satisfy the invariant.
LEMMA InicioIInv == Init => IInv
<1>. SUFFICES ASSUME Init PROVE IInv
  OBVIOUS
<1>1. TypeOK
  <2>1. Nuevo \in Motor
    BY NuevoValido DEF Valido, Sano
  <2>. QED
    BY <2>1, SesionKcpAssumption DEF Init, TypeOK, Nada
<1>2. Tipos
  BY <1>1, NuevoValido DEF Tipos, Init
<1>3. Len(manejados) = 0 /\ \A p \in Puertos : Origenes(p) = {}
  BY DEF Init, Origenes, HaciaServidor, DeSesion, Nuevo
<1>4. Atendidas /\ EnOrden /\ DeUna
  BY <1>3 DEF Init, Atendidas, EnOrden, DeUna
<1>5. Procedencia /\ UnOrigen
  BY <1>3 DEF Init, Procedencia, UnOrigen, Nada
<1>6. AcusesDeAhora /\ Empezada
  BY DEF Init, AcusesDeAhora, Empezada
<1>. QED
  BY <1>2, <1>4, <1>5, <1>6 DEF IInv, Propios, Unicos, SinRestos

\* And every step preserves it.
LEMMA PasoIInv == IInv /\ [Next]_vars => IInv'
<1>1. Propios /\ [Next]_vars => Propios'
  BY PasoTipos, PasoAtendidas, PasoEnOrden, PasoProcedencia DEF Propios
<1>2. Propios /\ Unicos /\ [Next]_vars => Unicos'
  BY PasoUnOrigen, PasoDeUna DEF Propios, Unicos
<1>3. Propios /\ SinRestos /\ [Next]_vars => SinRestos'
  BY PasoAcusesDeAhora, PasoEmpezada DEF Propios, SinRestos
<1>. QED
  BY <1>1, <1>2, <1>3 DEF IInv

\* Where every message the server has handled comes from, and who acknowledges it.
THEOREM SesionesKcpCorrectas == Spec => []IInv
  BY InicioIInv, PasoIInv, PTL DEF Spec

\* Type correctness.
THEOREM SesionKcpTipos == Spec => []TypeOK
<1>1. IInv => TypeOK
  BY DEF IInv, Propios, Tipos
<1>. QED
  BY <1>1, SesionesKcpCorrectas, PTL

\* If the system gives no port the server still has a session for, what a session hands
\* to the handlers is what one connection sent, from its first message on, in order,
\* without gaps and once, although conv is always 1 and nothing but the port tells two
\* connections apart.
THEOREM SiempreUnaConversacion ==
  ASSUME ~Reutiliza
  PROVE  Spec => []UnaConversacion
<1>1. IInv => UnaConversacion
  BY DEF IInv, Propios, Unicos, EnOrden, DeUna, UnaConversacion
<1>. QED
  BY <1>1, SesionesKcpCorrectas, PTL

\* A connection that has seen an acknowledgement is never handled again from its start,
\* whatever ports are given, if no datagram is under way while the server forgets its
\* session.
THEOREM NuncaSeRevive ==
  ASSUME ~EnCamino
  PROVE  Spec => NuncaRevive
<1>1. ASSUME IInv, [Next]_vars
      PROVE  \A i \in (Len(manejados) + 1)..Len(manejados') :
               manejados'[i].sn = 0 /\ manejados'[i].con = conexion => Una(cliente) = 0
  <2>. SUFFICES ASSUME NEW i \in (Len(manejados) + 1)..Len(manejados'),
                       manejados'[i].sn = 0, manejados'[i].con = conexion
                PROVE  Una(cliente) = 0
    OBVIOUS
  <2>a. Tipos /\ Atendidas /\ Procedencia /\ Empezada
    BY <1>1 DEF IInv, Propios, SinRestos
  <2>b. manejados \in Seq([ses : Nat \ {0}, con : Nat \ {0}, sn : Nat])
    BY <2>a DEF Tipos, TypeOK
  <2>c. Len(manejados) \in Nat
    BY <2>b
  <2>d. Sano(cliente)
    BY <2>a DEF Tipos, Valido
  <2>e. cliente.snd_nxt \in Nat /\ cliente.snd_buf \subseteq 0..(cliente.snd_nxt - 1)
    BY <2>d DEF Sano, Motor
  <2>1. PICK p \in Puertos : ChannelRead0(p)
    BY <1>1, <2>a, <2>c, <2>e, Pasos DEF Sigue, Olvida
  <2>2. PICK s, id, m, a : Llega(p, s, id, m, a)
    BY <2>a, <2>c, <2>e, <2>1, LlegaPaso
  <2>3. PICK k \in 1..Len(a) : manejados'[i] = a[k]
    BY <2>a, <2>c, <2>e, <2>1, <2>2, LlegaDeSesion
  <2>4. /\ s \in HaciaServidor(p) /\ motores[p].rcv_nxt \in Nat /\ Len(a) \in Nat
        /\ a[k].sn = motores[p].rcv_nxt + k - 1
        /\ \/ \E x \in motores[p].rcv_buf : x.sn = a[k].sn /\ x.origen = a[k].con
           \/ s.cmd = "PUSH" /\ s.sn = a[k].sn /\ s.origen = a[k].con
    BY <2>a, <2>c, <2>e, <2>2, LlegaHistoria DEF Llega
  <2>5. motores[p].rcv_nxt = 0
    <3>1. a[k].sn = 0
      BY <2>3
    <3>2. motores[p].rcv_nxt + k - 1 = 0 /\ motores[p].rcv_nxt \in Nat /\ k \in Nat /\ k >= 1
      BY <2>4, <3>1
    <3>. QED
      BY <3>2
  <2>6. \A x \in motores[p].rcv_buf : x.sn # 0
    BY <2>a, <2>c, <2>e, <2>5 DEF Tipos, Movido
  <2>7. s.cmd = "PUSH" /\ s.sn = 0 /\ s.origen = conexion
    BY <2>3, <2>4, <2>6
  <2>8. conexion \in Origenes(p)
    BY <2>4, <2>7 DEF Origenes
  <2>9. p = puerto /\ conexion # Nada
    BY <2>a, <2>c, <2>e, <2>8 DEF Procedencia, Nada
  <2>10. cliente.snd_nxt = 0 \/ 0 \in cliente.snd_buf
    BY <2>a, <2>c, <2>e, <2>4, <2>5, <2>7, <2>9 DEF Empezada
  <2>11. CASE cliente.snd_nxt = 0
    <3>1. cliente.snd_buf = {}
      BY <2>a, <2>c, <2>e, <2>11
    <3>. QED
      BY <2>11, <3>1 DEF Una
  <2>12. CASE 0 \in cliente.snd_buf
    <3>1. \A n \in cliente.snd_buf : n \in Nat /\ (n <= 0 => n = 0)
      BY <2>a, <2>c, <2>e
    <3>2. \A k1 \in cliente.snd_buf : 0 <= k1
      BY <3>1
    <3>3. PICK n0 : n0 = (CHOOSE n \in cliente.snd_buf : \A k1 \in cliente.snd_buf : n <= k1)
      OBVIOUS
    <3>4. n0 \in cliente.snd_buf /\ \A k1 \in cliente.snd_buf : n0 <= k1
      BY <2>12, <3>2, <3>3
    <3>. QED
      BY <2>12, <3>1, <3>3, <3>4 DEF Una
  <2>. QED
    BY <2>10, <2>11, <2>12
<1>. QED
  BY <1>1, SesionesKcpCorrectas, PTL DEF Spec, NuncaRevive

=============================================================================
