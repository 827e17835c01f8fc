------------------------------ MODULE SesionKcp ------------------------------
(***************************************************************************)
(* The conversations between the KCP engine of a client (kcp_client.cpp and *)
(* ikcp.c) and the KcpSession objects of the server, across what Kcp leaves *)
(* out: the client connects again from another port, and the server forgets *)
(* a session (600 s without a datagram, or a restart) its client goes on    *)
(* with.  Nothing in a datagram tells one conversation from another: conv   *)
(* is always 1, KCP has no handshake, and a session is looked up by address.*)
(*                                                                          *)
(* Abstractions.                                                            *)
(*  - Every message fits in a segment and in the windows; fragments, window *)
(*    probes and the clock are in Kcp.                                      *)
(*  - red holds every segment written so far that may still arrive, any     *)
(*    number of times; a segment that is never taken from it was lost.  It   *)
(*    outlives neither a period of silence of its port (PasaTiempo) nor the *)
(*    next connection from it: UDP does not keep a datagram that long.      *)
(*    Whether it may outlive the session is EnCamino.                       *)
(*  - origen, in a PUSH, is who wrote it: a history variable on the wire.   *)
(***************************************************************************)
EXTENDS Integers, Sequences, FiniteSets

CONSTANTS
  Puertos,        \* UDP ports of the client's machine
  Inactividad,    \* TIMEOUT_SESION_MS, in periods longer than a datagram lives
  EnCamino,       \* a datagram may be under way while its session is forgotten
  Reutiliza,      \* the system may give a port the server still has a session for
  MaxConexiones,  \* bound: connections of the client
  MaxMensajes,    \* bound: messages of each connection
  MaxRespuestas,  \* bound: replies of a session
  MaxOlvidos      \* bound: restarts, and timeouts of a client that is there

ASSUME SesionKcpAssumption ==
  /\ {Reutiliza, EnCamino} \subseteq BOOLEAN /\ Inactividad \in Nat \ {0}
  /\ {MaxConexiones, MaxRespuestas, MaxOlvidos} \subseteq Nat
  /\ MaxMensajes \in [1..MaxConexiones -> Nat]

Nada == 0     \* no connection, no session

VARIABLES
  conexion,     \* connection of the client: number, or Nada
  puerto,       \* port of its socket
  cliente,      \* its ikcpcb
  sesiones,     \* sesionesKcp: port -> number of the session, or Nada
  motores,      \* port -> Kcp of its session
  inact,        \* port -> periods since ultimoPaqueteMs of its session
  red,          \* segments that may still arrive
  manejados,    \* history: messages handed to procesarPaqueteBinario
  numeradas,    \* history: connections and sessions there have been
  olvidos       \* counter of the bound

cliVars == <<conexion, puerto, cliente>>
srvVars == <<sesiones, motores, inact>>
vars == <<cliVars, srvVars, red, manejados, numeradas, olvidos>>

-----------------------------------------------------------------------------
(* A KCP engine, ikcp.c or Kcp.java *)

\* ikcp_create, new Kcp
Nuevo == [snd_nxt |-> 0, snd_buf |-> {}, rcv_nxt |-> 0, rcv_buf |-> {}, acklist |-> {}]

\* shrink_buf
Una(e) == IF e.snd_buf = {} THEN e.snd_nxt
          ELSE CHOOSE n \in e.snd_buf : \A k \in e.snd_buf : n <= k

\* parse_una
TrasUna(e, una) == [e EXCEPT !.snd_buf = {n \in @ : n >= una}]

\* parse_ack
TrasAck(e, sn) ==
  IF sn < Una(e) \/ sn >= e.snd_nxt THEN e ELSE [e EXCEPT !.snd_buf = @ \ {sn}]

\* parse_data: insert, unless it is there or has passed,
Inserta(e, s) ==
  IF s.sn < e.rcv_nxt \/ \E x \in e.rcv_buf : x.sn = s.sn THEN e
  ELSE [e EXCEPT !.rcv_buf = @ \cup {s}]

\* and move what is in order to rcv_queue, from where recv takes it at once.
Siguiente(e) ==
  CHOOSE n \in e.rcv_nxt..(e.rcv_nxt + Cardinality(e.rcv_buf)) :
    /\ \A k \in e.rcv_nxt..(n - 1) : \E x \in e.rcv_buf : x.sn = k
    /\ \A x \in e.rcv_buf : x.sn # n

Entregables(e) ==
  [i \in 1..(Siguiente(e) - e.rcv_nxt) |->
     (CHOOSE x \in e.rcv_buf : x.sn = e.rcv_nxt + i - 1).origen]

Mueve(e) == [e EXCEPT !.rcv_nxt = Siguiente(e), !.rcv_buf = {x \in @ : x.sn >= Siguiente(e)}]

\* input of a segment, up to the move.
TrasInput(e, s) ==
  LET u == TrasUna(e, s.una) IN
  IF s.cmd = "ACK" THEN TrasAck(u, s.sn)
  ELSE Inserta([u EXCEPT !.acklist = @ \cup {s.sn}], [sn |-> s.sn, origen |-> s.origen])

\* send of one message, which the next flush numbers.
TrasSend(e) == [e EXCEPT !.snd_nxt = @ + 1, !.snd_buf = @ \cup {e.snd_nxt}]

\* (Mutant: flush writes again what was acknowledged.)
EscritoTodo(e, hacia, p, origen) ==
  {[hacia |-> hacia, puerto |-> p, origen |-> origen, cmd |-> "PUSH", sn |-> k,
    una |-> e.rcv_nxt] : k \in 0..(e.snd_nxt - 1)}

\* flush: every acknowledgement that is due, and every segment of snd_buf (one whose
\* timer is not due is one that never arrives).
Escrito(e, hacia, p, origen) ==
  {[hacia |-> hacia, puerto |-> p, origen |-> origen, cmd |-> "ACK", sn |-> k,
    una |-> e.rcv_nxt] : k \in e.acklist}
  \cup {[hacia |-> hacia, puerto |-> p, origen |-> origen, cmd |-> "PUSH", sn |-> k,
         una |-> e.rcv_nxt] : k \in e.snd_buf}

TrasFlush(e) == [e EXCEPT !.acklist = {}]

-----------------------------------------------------------------------------
Init ==
  /\ conexion = Nada /\ puerto \in Puertos /\ cliente = Nuevo
  /\ sesiones = [p \in Puertos |-> Nada]
  /\ motores = [p \in Puertos |-> Nuevo]
  /\ inact = [p \in Puertos |-> 0]
  /\ red = {}
  /\ manejados = <<>>
  /\ numeradas = [con |-> 0, ses |-> 0]
  /\ olvidos = 0

-----------------------------------------------------------------------------
(* The client *)

\* connect_to_host: a new socket, whose port the system chooses, and a new engine.
Conecta(p) ==
  /\ conexion = Nada /\ numeradas.con < MaxConexiones
  /\ Reutiliza \/ sesiones[p] = Nada
  /\ numeradas' = [numeradas EXCEPT !.con = @ + 1]
  /\ conexion' = numeradas'.con
  /\ puerto' = p
  /\ cliente' = Nuevo
  /\ red' = {s \in red : s.puerto # p}
  /\ UNCHANGED <<srvVars, manejados, olvidos>>

\* A socket of the client holds the port.
EnUso(p) == conexion # Nada /\ puerto = p

\* disconnect_from_host, or the process ends.  The server is not told, and the system
\* drops what comes for a port that no socket holds.
Desconecta ==
  /\ conexion # Nada
  /\ conexion' = Nada
  /\ cliente' = Nuevo
  /\ red' = {s \in red : s.hacia = "servidor" \/ ~EnUso(s.puerto)}
  /\ UNCHANGED <<puerto, srvVars, manejados, numeradas, olvidos>>

\* update does nothing without a connection.
Conectado == conexion # Nada

\* send_packet
SendPacket ==
  /\ conexion # Nada /\ cliente.snd_nxt < MaxMensajes[conexion]
  /\ cliente' = TrasSend(cliente)
  /\ UNCHANGED <<conexion, puerto, srvVars, red, manejados, numeradas, olvidos>>

\* poll_socket reads a datagram, and drain_kcp_recv what it completes.
PollSocket ==
  \E s \in red :
    LET e == TrasInput(cliente, s) IN
    /\ Conectado /\ s.hacia = "cliente" /\ s.puerto = puerto
    /\ cliente' = Mueve(e)
    /\ UNCHANGED <<conexion, puerto, srvVars, red, manejados, numeradas, olvidos>>

\* The flush of ikcp_update.
FlushCliente ==
  /\ Conectado /\ cliente.snd_buf \cup cliente.acklist # {}
  /\ red' = red \cup Escrito(cliente, "servidor", puerto, conexion)
  /\ cliente' = TrasFlush(cliente)
  /\ UNCHANGED <<conexion, puerto, srvVars, manejados, numeradas, olvidos>>

-----------------------------------------------------------------------------
(* The server *)

\* (Mutant: a session starts at the first number it is sent.)
DesdeElPrimero(s) == [Nuevo EXCEPT !.rcv_nxt = s.sn]

\* (Mutant: get, and nobody puts.)
SoloBusca(p) == sesiones[p]

\* computeIfAbsent
Sesion(p) == IF sesiones[p] = Nada THEN numeradas.ses + 1 ELSE sesiones[p]

\* new KcpSession, whatever the datagram that asks for it carries.
NuevaSesion(s) == Nuevo

\* ultimoPaqueteMs, in feed
Feed(p) == inact' = [inact EXCEPT ![p] = 0]

\* channelRead0: the session of the sender, or a new one, takes the datagram and
\* the handlers run on what it completes.
ChannelRead0(p) ==
  \E s \in red :
    LET nueva == sesiones[p] = Nada
        e == TrasInput(IF nueva THEN NuevaSesion(s) ELSE motores[p], s)
        id == Sesion(p)
    IN
    /\ s.hacia = "servidor" /\ s.puerto = p
    /\ numeradas' = IF nueva THEN [numeradas EXCEPT !.ses = id] ELSE numeradas
    /\ sesiones' = [sesiones EXCEPT ![p] = id]
    /\ motores' = [motores EXCEPT ![p] = Mueve(e)]
    /\ Feed(p)
    /\ manejados' = manejados \o
         [i \in 1..Len(Entregables(e)) |->
            [ses |-> id, con |-> Entregables(e)[i], sn |-> e.rcv_nxt + i - 1]]
    /\ UNCHANGED <<cliVars, red, olvidos>>

\* KcpSession.send: at most one reply to each message.
Send(p) ==
  /\ sesiones[p] # Nada
  /\ motores[p].snd_nxt < motores[p].rcv_nxt /\ motores[p].snd_nxt < MaxRespuestas
  /\ motores' = [motores EXCEPT ![p] = TrasSend(@)]
  /\ UNCHANGED <<cliVars, sesiones, inact, red, manejados, numeradas, olvidos>>

\* tick, or the flush of enviarInterno.
Tick(p) ==
  /\ sesiones[p] # Nada /\ motores[p].snd_buf \cup motores[p].acklist # {}
  /\ red' = IF EnUso(p) THEN red \cup Escrito(motores[p], "cliente", p, sesiones[p]) ELSE red
  /\ motores' = [motores EXCEPT ![p] = TrasFlush(@)]
  /\ UNCHANGED <<cliVars, sesiones, inact, manejados, numeradas, olvidos>>

\* A period in which nothing arrives from the port, and what was under way is lost.
PasaTiempo(p) ==
  /\ sesiones[p] # Nada /\ inact[p] < Inactividad
  /\ inact' = [inact EXCEPT ![p] = @ + 1]
  /\ red' = {s \in red : s.puerto # p}
  /\ UNCHANGED <<cliVars, sesiones, motores, manejados, numeradas, olvidos>>

\* What is still under way when the sessions of the ports P are forgotten.
Quedan(P) == IF EnCamino THEN red ELSE {s \in red : s.puerto \notin P}

\* (Mutant: a session that still has something to send waits for its client.)
SinPendientes(p) == inact[p] >= Inactividad /\ motores[p].snd_buf = {}

\* estaInactiva
EstaInactiva(p) == inact[p] >= Inactividad

\* removeIf: the client has left, has nothing to say (KCP sends nothing on an idle
\* connection) or the network is down.
Libera(p) ==
  /\ sesiones[p] # Nada /\ EstaInactiva(p)
  /\ olvidos' = olvidos + (IF EnUso(p) THEN 1 ELSE 0) /\ olvidos' <= MaxOlvidos
  /\ sesiones' = [sesiones EXCEPT ![p] = Nada]
  /\ motores' = [motores EXCEPT ![p] = Nuevo]
  /\ inact' = [inact EXCEPT ![p] = 0]
  /\ red' = Quedan({p})
  /\ UNCHANGED <<cliVars, manejados, numeradas>>

\* The process of the server ends and another starts.
Reinicia ==
  /\ olvidos < MaxOlvidos
  /\ olvidos' = olvidos + 1
  /\ sesiones' = [p \in Puertos |-> Nada]
  /\ motores' = [p \in Puertos |-> Nuevo]
  /\ inact' = [p \in Puertos |-> 0]
  /\ red' = Quedan(Puertos)
  /\ UNCHANGED <<cliVars, manejados, numeradas>>

-----------------------------------------------------------------------------
Next ==
  \/ \E p \in Puertos : Conecta(p)
  \/ Desconecta \/ SendPacket \/ PollSocket \/ FlushCliente
  \/ \E p \in Puertos : ChannelRead0(p) \/ Send(p) \/ Tick(p) \/ PasaTiempo(p) \/ Libera(p)
  \/ Reinicia

Spec == Init /\ [][Next]_vars

\* Time goes by, whatever the client and the network do, and the task of channelActive
\* runs again.
SpecJusta == Spec /\ \A p \in Puertos : WF_vars(PasaTiempo(p)) /\ WF_vars(Libera(p))

-----------------------------------------------------------------------------
(* Properties *)

Segmento == [hacia : {"cliente", "servidor"}, puerto : Puertos, origen : Nat \ {0},
             cmd : {"ACK", "PUSH"}, sn : Nat, una : Nat]
Motor == [snd_nxt : Nat, snd_buf : SUBSET Nat, rcv_nxt : Nat,
          rcv_buf : SUBSET [sn : Nat, origen : Nat \ {0}], acklist : SUBSET Nat]

TypeOK ==
  /\ conexion \in 0..MaxConexiones /\ puerto \in Puertos
  /\ cliente \in Motor /\ motores \in [Puertos -> Motor]
  /\ sesiones \in [Puertos -> 0..numeradas.ses] /\ inact \in [Puertos -> 0..Inactividad]
  /\ red \subseteq Segmento
  /\ manejados \in Seq([ses : Nat \ {0}, con : Nat \ {0}, sn : Nat])
  /\ numeradas \in [con : 0..MaxConexiones, ses : Nat]
  /\ olvidos \in 0..MaxOlvidos

\* What session s has handled before the i-th message of all.
Antes(i, s) == {j \in 1..(i - 1) : manejados[j].ses = s}

\* What a session has handled is what one connection sent, from its first message
\* on, in order and without gaps: the handlers never see the middle of a
\* conversation, nor two clients' messages as one's.
UnaConversacion ==
  \A i \in 1..Len(manejados) :
    /\ {manejados[j].sn : j \in Antes(i, manejados[i].ses)} = 0..(manejados[i].sn - 1)
    /\ \A j \in Antes(i, manejados[i].ses) : manejados[j].con = manejados[i].con

\* A session starts with the first message of a connection only while its client
\* has seen no acknowledgement.  So after a restart or a timeout a first request may
\* be handled again; but once anything has been acknowledged no later session
\* handles a message of that connection, which talks to nobody until it connects
\* again ("colgado" in Sesiones).
NuncaRevive ==
  [][\A i \in (Len(manejados) + 1)..Len(manejados') :
       manejados'[i].sn = 0 /\ manejados'[i].con = conexion => Una(cliente) = 0]_vars

\* A client that has gone leaves nothing behind: although the server goes on sending it
\* what nobody acknowledges (nothing looks at dead_link), and a datagram of its that
\* comes late puts the release off or makes a new session, there is a time from which
\* the port has none.
SeDespide == \A p \in Puertos : <>[]~EnUso(p) => <>[](sesiones[p] = Nada)
=============================================================================
