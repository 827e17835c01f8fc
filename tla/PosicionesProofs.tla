-------------------------- MODULE PosicionesProofs --------------------------
(* Proofs about the positions of Sesiones: what the server keeps in memory, and what
   the row of a character has.  They are for patient users, who wait at the login scene,
   and exclusive characters: nobody enters the world with one before the server has
   released its last session and finished its saves (Quieto). *)
EXTENDS SesionesProofs

-----------------------------------------------------------------------------
(* The inductive invariant *)

Paciencia == Impacientes = {} /\ Exclusivos = Ids

Cargando == EnVuelo("cargar")
Guardando == EnVuelo("guardar")

\* A load is over before its session is idle, and is the only one of its player.
CargaEnPlazo ==
  \A t \in Cargando :
    /\ jugadores[t.jug].personajeActivo = Nadie
    /\ \E d \in Dirs : sesionesActivas[d] = t.jug /\ inact[d] <= 1 /\ (~t.vieja => inact[d] = 0)
    /\ \A s \in Cargando : s.jug = t.jug => s = t

\* The saves of one object: one of the auto-save, and one when it is released.
Guardados ==
  \A t \in Guardando :
    /\ t.origen = "auto" => t.vieja
    /\ t.origen = "final" => \A d \in Dirs : Activo(d) # t.per
    /\ \A s \in Guardando : s.per = t.per /\ s.origen = t.origen => s = t

\* The Personaje objects that can still be written or saved.
Vivos == {t.per : t \in Guardando} \cup ({Activo(d) : d \in Dirs} \ {Nadie})

\* A character has one at most, and none while it is loaded.
Exclusividad ==
  /\ \A p, q \in Vivos : personajes[p].id = personajes[q].id => p = q
  /\ \A t \in Cargando :
       /\ \A p \in Vivos : personajes[p].id # t.id
       /\ \A s \in Cargando : s.id = t.id => s = t

Objetos == CargaEnPlazo /\ Guardados /\ Exclusividad

-----------------------------------------------------------------------------
(* What the steps do to the tasks and to the objects *)

\* A step of the client, of a login or of a datagram that moves nothing.
Tranquilo ==
  /\ UNCHANGED <<sesionesActivas, jugadores, personajes, bbdd, ultimo, ahora, antes, movs, fallos>>
  /\ Cargando' = Cargando /\ Guardando' = Guardando
  /\ \A d \in Dirs : inact'[d] \in {0, inact[d]}

LEMMA Pasos ==
  ASSUME Login, [Next]_vars
  PROVE  \/ Tranquilo
         \/ \E d \in Dirs : \/ Mueve(d) /\ Activo(d) # Nadie
                            \/ \E c \in Ids : Entra(d, c)
                            \/ Libera(d)
         \/ \E t \in tareas : \/ Registra(t) \/ Consulta(t) \/ FallaConsulta(t) \/ Activa(t)
                              \/ LeeX(t) \/ LeeY(t) \/ Actualiza(t) \/ FallaSQL(t)
         \/ Autoguardado \/ Reinicia
<1>0. inact \in [Dirs -> 0..(Inactividad + 1)]
  BY DEF Login, Base, Tipos, TipoServidor
<1>1. ASSUME NEW d \in Dirs, SoloCliente(d) PROVE Tranquilo
  BY <1>1, SoloClienteMarco DEF Tranquilo, Cargando, Guardando, EnVuelo
<1>2. ASSUME NEW d \in Dirs, Datagrama(d) \/ (Mueve(d) /\ Activo(d) = Nadie) PROVE Tranquilo
  <2>1. UNCHANGED <<sesionesActivas, jugadores, personajes, bbdd, tareas, ultimo, ahora, antes, movs,
                    fallos>>
    BY <1>2 DEF Datagrama, Mueve, historia, cuentas
  <2>2. \A e \in Dirs : inact'[e] \in {0, inact[e]}
    BY <1>0, <1>2 DEF Datagrama, Mueve, Alimenta
  <2>. QED
    BY <2>1, <2>2 DEF Tranquilo, Cargando, Guardando, EnVuelo
<1>3. ASSUME NEW d \in Dirs, EnviaLogin(d) PROVE Tranquilo
  <2>1. UNCHANGED <<sesionesActivas, jugadores, personajes, bbdd, ultimo, ahora, antes, movs, fallos>>
    BY <1>3 DEF EnviaLogin, historia, cuentas
  <2>2. \A e \in Dirs : inact'[e] \in {0, inact[e]}
    BY <1>0, <1>3 DEF EnviaLogin, Alimenta
  <2>3. Cargando' = Cargando /\ Guardando' = Guardando
    BY <1>3 DEF EnviaLogin, TareaLogin, Cargando, Guardando, EnVuelo
  <2>. QED
    BY <2>1, <2>2, <2>3 DEF Tranquilo
<1>4. ASSUME NEW t \in tareas, \/ Autentica(t, TRUE) \/ Autentica(t, FALSE) \/ RespondeLogin(t)
      PROVE  Tranquilo
  <2>1. UNCHANGED <<inact, sesionesActivas, jugadores, personajes, bbdd, ultimo, ahora, antes, movs,
                    fallos>>
    BY <1>4 DEF Autentica, RespondeLogin, servidor, historia, cuentas
  <2>2. t.tipo = "login" /\ Tarea(t)
    BY <1>4 DEF Autentica, RespondeLogin, Tarea
  <2>3. Cargando' = Cargando /\ Guardando' = Guardando
    <3>1. CASE tareas' = tareas \ {t}
      BY <2>2, <3>1 DEF Cargando, Guardando, EnVuelo
    <3>2. ASSUME NEW w, Sucesora(t, w), tareas' = (tareas \ {t}) \cup {w}
          PROVE  Cargando' = Cargando /\ Guardando' = Guardando
      BY <2>2, <3>2 DEF Sucesora, Cargando, Guardando, EnVuelo
    <3>. QED
      BY <2>2, <3>1, <3>2, TareaMarco DEF Login, Base
  <2>. QED
    BY <1>0, <2>1, <2>3 DEF Tranquilo
<1>5. CASE UNCHANGED vars
  BY <1>5 DEF vars, servidor, historia, cuentas, Tranquilo, Cargando, Guardando, EnVuelo
<1>. QED
  BY <1>1, <1>2, <1>3, <1>4, <1>5 DEF Next, SoloCliente, Tarea

\* The types and the distinct sessions, in the form the steps need.
LEMMA Hechos ==
  ASSUME Login
  PROVE  /\ sesionesActivas \in [Dirs -> 0..Len(jugadores)] /\ inact \in [Dirs -> 0..3]
         /\ Len(jugadores) \in Nat /\ Len(personajes) \in Nat
         /\ jugadores \in Seq(JugadorT) /\ personajes \in Seq(PersonajeT)
         /\ \A j \in 1..Len(jugadores) : jugadores[j] \in JugadorT
         /\ \A p \in 1..Len(personajes) : personajes[p] \in PersonajeT
         /\ \A t \in Cargando : t \in CargarT /\ t.jug \in 1..Len(jugadores)
         /\ \A t \in Guardando : t \in GuardarT /\ t.per \in 1..Len(personajes)
         /\ Vivos \subseteq 1..Len(personajes)
         /\ \A d \in Dirs : Activo(d) # Nadie =>
              sesionesActivas[d] \in 1..Len(jugadores) /\ Activo(d) \in 1..Len(personajes)
         /\ \A d, e \in Dirs : Activo(d) = Activo(e) /\ Activo(d) # Nadie => d = e
<1>1. Tipos /\ TipoServidor /\ TipoTareas /\ SinCompartir
  BY DEF Login, Base, Tipos
<1>2. \A t \in Cargando : t \in CargarT /\ t.jug \in 1..Len(jugadores)
  BY <1>1, Formas DEF Cargando, EnVuelo, CargarT
<1>3. \A t \in Guardando : t \in GuardarT /\ t.per \in 1..Len(personajes)
  BY <1>1, Formas DEF Guardando, EnVuelo, GuardarT
<1>4. \A d \in Dirs : Activo(d) # Nadie =>
        sesionesActivas[d] \in 1..Len(jugadores) /\ Activo(d) \in 1..Len(personajes)
  BY <1>1, ActivoTipo
<1>5. \A d, e \in Dirs : Activo(d) = Activo(e) /\ Activo(d) # Nadie => d = e
  BY <1>1, <1>4 DEF Activo, SinCompartir
<1>6. Vivos \subseteq 1..Len(personajes)
  BY <1>3, <1>4 DEF Vivos
<1>. QED
  BY <1>1, <1>2, <1>3, <1>4, <1>5, <1>6 DEF TipoServidor, Inactividad

\* manejarSeleccionPersonaje
LEMMA EntraMarco ==
  ASSUME Login, Paciencia, NEW d \in Dirs, NEW c \in Ids, Entra(d, c)
  PROVE  /\ UNCHANGED <<sesionesActivas, jugadores, personajes, bbdd, ultimo, ahora, antes, movs, fallos>>
         /\ \A e \in Dirs : inact'[e] = IF e = d THEN 0 ELSE inact[e]
         /\ Guardando' = Guardando /\ Quieto(c)
         /\ \E t : /\ Cargando' = Cargando \cup {t}
                   /\ t.jug = sesionesActivas[d] /\ t.id = c /\ t.leido = <<>> /\ ~t.vieja
         /\ sesionesActivas[d] # Nadie /\ Activo(d) = Nadie
         /\ \A s \in Cargando : s.jug # sesionesActivas[d]
<1>1. /\ UNCHANGED <<sesionesActivas, jugadores, personajes, bbdd, ultimo, ahora, antes, movs, fallos>>
      /\ cliente[d] = "lista" /\ Quieto(c)
      /\ inact' = [inact EXCEPT ![d] = 0]
  BY DEF Entra, Alimenta, historia, cuentas, Paciencia
<1>2. sesionesActivas[d] # Nadie /\ Activo(d) = Nadie /\ Cargas(d) = {}
  BY <1>1 DEF Login, Base, Acceso, Elecciones, Eleccion, Pacientes, Paciencia
<1>3. tareas' = tareas \cup {TareaCargar(sesionesActivas[d], c)}
  BY <1>2 DEF Entra
<1>4. Guardando' = Guardando
  BY <1>3 DEF TareaCargar, Guardando, EnVuelo
<1>5. /\ Cargando' = Cargando \cup {TareaCargar(sesionesActivas[d], c)}
      /\ TareaCargar(sesionesActivas[d], c).jug = sesionesActivas[d]
      /\ TareaCargar(sesionesActivas[d], c).id = c
      /\ TareaCargar(sesionesActivas[d], c).leido = <<>>
      /\ ~TareaCargar(sesionesActivas[d], c).vieja
  BY <1>3 DEF TareaCargar, Cargando, EnVuelo
<1>6. \A s \in Cargando : s.jug # sesionesActivas[d]
  BY <1>2 DEF Cargas, Cargando
<1>. QED
  BY <1>1, <1>2, <1>4, <1>5, <1>6, Hechos

\* The first login callback of an address: it replaces no player.
LEMMA RegistraMarco ==
  ASSUME Login, Paciencia, NEW t \in tareas, Registra(t)
  PROVE  /\ UNCHANGED <<inact, personajes, bbdd, ultimo, ahora, antes, movs, fallos>>
         /\ Cargando' = Cargando /\ Guardando' = Guardando
         /\ \A d \in Dirs : Activo(d)' = Activo(d)
         /\ \A d \in Dirs : sesionesActivas[d] # Nadie => sesionesActivas'[d] = sesionesActivas[d]
         /\ \A j \in 1..Len(jugadores) : jugadores'[j] = jugadores[j]
<1>1. t \in LoginT /\ t.dir \in Dirs /\ t \in Logins(t.dir)
  BY Formas DEF Login, Base, Tipos, Registra, LoginT, Logins, EnVuelo
<1>2. /\ UNCHANGED <<inact, personajes, bbdd, ultimo, ahora, antes, movs, fallos>>
      /\ sesionesActivas' = [sesionesActivas EXCEPT ![t.dir] = Len(jugadores) + 1]
      /\ jugadores'[Len(jugadores) + 1] = [idCuenta |-> Cuenta[t.dir], personajeActivo |-> Nadie]
      /\ \A j \in 1..Len(jugadores) : jugadores'[j] = jugadores[j]
  BY Hechos DEF Registra, historia, cuentas
<1>3. sesionesActivas[t.dir] = Nadie
  BY <1>1 DEF Login, Fases, Fase, Pacientes, Paciencia, Registra
<1>4. Cargando' = Cargando /\ Guardando' = Guardando
  <2>1. [t EXCEPT !.paso = "ok"].tipo = "login"
    BY <1>1 DEF LoginT
  <2>. QED
    BY <2>1 DEF Registra, Cargando, Guardando, EnVuelo
<1>5. ASSUME NEW d \in Dirs PROVE Activo(d)' = Activo(d)
  <2>1. CASE d = t.dir
    BY <1>2, <1>3, <2>1, Hechos DEF Activo
  <2>2. CASE d # t.dir
    <3>1. sesionesActivas'[d] = sesionesActivas[d] /\ sesionesActivas[d] \in 0..Len(jugadores)
      BY <1>1, <1>2, <2>2, Hechos
    <3>2. CASE sesionesActivas[d] = Nadie
      BY <3>1, <3>2 DEF Activo
    <3>3. CASE sesionesActivas[d] # Nadie
      <4>1. sesionesActivas[d] \in 1..Len(jugadores)
        BY <3>1, <3>3, Hechos DEF Nadie
      <4>. QED
        BY <1>2, <3>1, <3>3, <4>1 DEF Activo
    <3>. QED
      BY <3>2, <3>3
  <2>. QED
    BY <2>1, <2>2
<1>6. \A d \in Dirs : sesionesActivas[d] # Nadie => sesionesActivas'[d] = sesionesActivas[d]
  BY <1>1, <1>2, <1>3, Hechos
<1>. QED
  BY <1>2, <1>4, <1>5, <1>6

\* actualizarPosicion
LEMMA MueveMarco ==
  ASSUME Login, NEW d \in Dirs, Mueve(d), Activo(d) # Nadie
  PROVE  LET p == Activo(d)
             c == personajes[p].id
             n == movs[c] + 1 IN
         /\ UNCHANGED <<sesionesActivas, jugadores, bbdd, ahora, antes, fallos>>
         /\ \A e \in Dirs : inact'[e] = IF e = d THEN 0 ELSE inact[e]
         /\ Cargando' = Cargando /\ Guardando' = Guardando
         /\ p \in 1..Len(personajes) /\ c \in Ids /\ n \in Nat
         /\ personajes'[p].id = c /\ personajes'[p].pos = Pos(n)
         /\ \A q \in 1..Len(personajes) : q # p => personajes'[q] = personajes[q]
         /\ \A b \in Ids : /\ ultimo'[b] = IF b = c THEN Pos(n) ELSE ultimo[b]
                           /\ movs'[b] = IF b = c THEN n ELSE movs[b]
<1>. DEFINE p == Activo(d)
            c == personajes[p].id
            n == movs[c] + 1
<1>1. p \in 1..Len(personajes) /\ personajes[p] \in PersonajeT
  BY Hechos
<1>2. c \in Ids /\ n \in Nat /\ ultimo \in [Ids -> Punto] /\ movs \in [Ids -> 0..MaxMov]
  BY <1>1, SesionesAssumption DEF Login, Base, Tipos, TipoHistoria, PersonajeT
<1>3. /\ UNCHANGED <<sesionesActivas, jugadores, bbdd, tareas, ahora, antes, fallos>>
      /\ personajes' = [personajes EXCEPT ![p] = [@ EXCEPT !.pos = Pos(n)]]
      /\ ultimo' = [ultimo EXCEPT ![c] = Pos(n)]
      /\ movs' = [movs EXCEPT ![c] = n]
      /\ inact' = [inact EXCEPT ![d] = 0]
  BY DEF Mueve, Alimenta
<1>. HIDE DEF n, c, p
<1>4. personajes'[p].id = c /\ personajes'[p].pos = Pos(n)
      /\ \A q \in 1..Len(personajes) : q # p => personajes'[q] = personajes[q]
  <2>1. personajes'[p] = [personajes[p] EXCEPT !.pos = Pos(n)]
        /\ \A q \in 1..Len(personajes) : q # p => personajes'[q] = personajes[q]
    BY <1>1, <1>3, Hechos
  <2>2. personajes[p].id = c
    BY DEF c
  <2>. QED
    BY <1>1, <2>1, <2>2 DEF PersonajeT
<1>5. \A e \in Dirs : inact'[e] = IF e = d THEN 0 ELSE inact[e]
  BY <1>3, Hechos
<1>6. \A b \in Ids : /\ ultimo'[b] = IF b = c THEN Pos(n) ELSE ultimo[b]
                     /\ movs'[b] = IF b = c THEN n ELSE movs[b]
  BY <1>2, <1>3
<1>7. Cargando' = Cargando /\ Guardando' = Guardando
  BY <1>3 DEF Cargando, Guardando, EnVuelo
<1>. QED
  BY <1>1, <1>2, <1>3, <1>4, <1>5, <1>6, <1>7 DEF p, c, n

\* The 10 ms tick
LEMMA LiberaMarco ==
  ASSUME Login, NEW d \in Dirs, Libera(d)
  PROVE  /\ UNCHANGED <<jugadores, personajes, bbdd, ultimo, ahora, antes, movs, fallos>>
         /\ inact[d] >= 2
         /\ \A e \in Dirs : /\ inact'[e] = IF e = d THEN 0 ELSE inact[e]
                            /\ sesionesActivas'[e] = IF e = d THEN Nadie ELSE sesionesActivas[e]
                            /\ Activo(e)' = IF e = d THEN Nadie ELSE Activo(e)
         /\ Cargando' = Cargando /\ Guardando' = Guardando \cup GuardadoFinal(d)
         /\ \A t \in GuardadoFinal(d) :
              /\ Activo(d) # Nadie /\ t.per = Activo(d) /\ t.origen = "final" /\ ~t.vieja
              /\ t.x = SinLeer /\ t.y = SinLeer
              /\ \A s \in GuardadoFinal(d) : s = t
         /\ Activo(d) # Nadie => GuardadoFinal(d) # {}
<1>1. /\ UNCHANGED <<jugadores, personajes, bbdd, ultimo, ahora, antes, movs, fallos>>
      /\ inact[d] >= 2
      /\ inact' = [inact EXCEPT ![d] = 0]
      /\ sesionesActivas' = [sesionesActivas EXCEPT ![d] = Nadie]
      /\ tareas' = tareas \cup GuardadoFinal(d)
  BY DEF Libera, EstaInactiva, Inactividad, historia, cuentas
<1>2. \A e \in Dirs : /\ inact'[e] = IF e = d THEN 0 ELSE inact[e]
                      /\ sesionesActivas'[e] = IF e = d THEN Nadie ELSE sesionesActivas[e]
  BY <1>1, Hechos
<1>3. \A e \in Dirs : Activo(e)' = IF e = d THEN Nadie ELSE Activo(e)
  BY <1>1, <1>2 DEF Activo
<1>4. \A t \in GuardadoFinal(d) :
        /\ Activo(d) # Nadie /\ t.per = Activo(d) /\ t.origen = "final" /\ ~t.vieja
        /\ t.x = SinLeer /\ t.y = SinLeer /\ t.tipo = "guardar"
        /\ \A s \in GuardadoFinal(d) : s = t
  <2>1. CASE Activo(d) = Nadie
    BY <2>1 DEF GuardadoFinal
  <2>2. CASE Activo(d) # Nadie
    <3>. DEFINE w == TareaGuardar(Activo(d), "final", FALSE)
    <3>1. GuardadoFinal(d) = {w}
      BY <2>2 DEF GuardadoFinal
    <3>2. /\ w.per = Activo(d) /\ w.origen = "final" /\ ~w.vieja
          /\ w.x = SinLeer /\ w.y = SinLeer /\ w.tipo = "guardar"
      BY DEF TareaGuardar
    <3>. HIDE DEF w
    <3>. QED
      BY <2>2, <3>1, <3>2
  <2>. QED
    BY <2>1, <2>2
<1>5. Cargando' = Cargando /\ Guardando' = Guardando \cup GuardadoFinal(d)
  BY <1>1, <1>4 DEF Cargando, Guardando, EnVuelo
<1>6. Activo(d) # Nadie => GuardadoFinal(d) # {}
  BY DEF GuardadoFinal
<1>. QED
  BY <1>1, <1>2, <1>3, <1>4, <1>5, <1>6

\* obtenerPersonajePorId, which reads the row or fails
LEMMA ConsultaMarco ==
  ASSUME Login, NEW t \in tareas, Consulta(t) \/ FallaConsulta(t)
  PROVE  /\ UNCHANGED <<sesionesActivas, inact, jugadores, personajes, bbdd, ultimo, ahora, antes, movs>>
         /\ Guardando' = Guardando /\ t \in Cargando
         /\ \/ /\ UNCHANGED fallos
               /\ \E w : /\ Cargando' = (Cargando \ {t}) \cup {w}
                         /\ w.jug = t.jug /\ w.id = t.id /\ w.vieja = t.vieja
                         /\ w.leido = <<bbdd[t.id]>>
            \/ fallos' = fallos + 1 /\ Cargando' = Cargando \ {t}
<1>1. t \in CargarT /\ t \in Cargando
  BY Formas DEF Login, Base, Tipos, Consulta, FallaConsulta, Cargando, EnVuelo
<1>2. UNCHANGED <<sesionesActivas, inact, jugadores, personajes, bbdd, ultimo, ahora, antes, movs>>
  BY DEF Consulta, FallaConsulta, servidor, historia, cuentas
<1>3. CASE Consulta(t)
  <2>. DEFINE w == [t EXCEPT !.leido = <<bbdd[t.id]>>]
  <2>1. /\ w.jug = t.jug /\ w.id = t.id /\ w.vieja = t.vieja /\ w.tipo = "cargar"
        /\ w.leido = <<bbdd[t.id]>>
    BY <1>1 DEF CargarT
  <2>2. tareas' = (tareas \ {t}) \cup {w} /\ UNCHANGED fallos
    BY <1>3 DEF Consulta, cuentas
  <2>. HIDE DEF w
  <2>3. Cargando' = (Cargando \ {t}) \cup {w} /\ Guardando' = Guardando
    BY <1>1, <2>1, <2>2 DEF CargarT, Cargando, Guardando, EnVuelo
  <2>. QED
    BY <1>1, <1>2, <2>1, <2>2, <2>3
<1>4. CASE FallaConsulta(t)
  <2>1. tareas' = tareas \ {t} /\ fallos' = fallos + 1
    BY <1>4 DEF FallaConsulta
  <2>2. Cargando' = Cargando \ {t} /\ Guardando' = Guardando
    BY <1>1, <2>1 DEF CargarT, Cargando, Guardando, EnVuelo
  <2>. QED
    BY <1>1, <1>2, <2>1, <2>2
<1>. QED
  BY <1>3, <1>4

\* The callback of manejarSeleccionPersonaje
LEMMA ActivaMarco ==
  ASSUME Login, NEW t \in tareas, Activa(t)
  PROVE  LET nuevo == Len(personajes) + 1 IN
         /\ UNCHANGED <<sesionesActivas, inact, bbdd, ultimo, ahora, antes, movs, fallos>>
         /\ Guardando' = Guardando /\ Cargando' = Cargando \ {t}
         /\ t \in Cargando /\ t.leido # <<>> /\ t.id \in Ids
         /\ personajes'[nuevo].id = t.id /\ personajes'[nuevo].pos = t.leido[1]
         /\ \A p \in 1..Len(personajes) : personajes'[p] = personajes[p]
         /\ \A j \in 1..Len(jugadores) : j # t.jug => jugadores'[j] = jugadores[j]
         /\ \A d \in Dirs : Activo(d)' = IF sesionesActivas[d] = t.jug THEN nuevo ELSE Activo(d)
<1>1. t \in CargarT /\ t \in Cargando /\ t.jug \in 1..Len(jugadores) /\ t.id \in Ids
  BY Formas DEF Login, Base, Tipos, Activa, Cargando, EnVuelo, CargarT
<1>2. /\ UNCHANGED <<sesionesActivas, inact, bbdd, ultimo, ahora, antes, movs, fallos>>
      /\ personajes' = Append(personajes, Cargado(t)) /\ t.leido # <<>>
      /\ tareas' = tareas \ {t}
      /\ jugadores' = [jugadores EXCEPT ![t.jug] = [@ EXCEPT !.personajeActivo = Len(personajes) + 1]]
  BY DEF Activa, Solicitante, historia, cuentas
<1>3. /\ personajes'[Len(personajes) + 1] = Cargado(t)
      /\ \A p \in 1..Len(personajes) : personajes'[p] = personajes[p]
  BY <1>2, Hechos
<1>4. Cargado(t).id = t.id /\ Cargado(t).pos = t.leido[1]
  BY DEF Cargado
<1>5. /\ \A j \in 1..Len(jugadores) : j # t.jug => jugadores'[j] = jugadores[j]
      /\ jugadores'[t.jug].personajeActivo = Len(personajes) + 1
  <2>1. jugadores[t.jug] \in JugadorT
    BY <1>1, Hechos
  <2>2. jugadores'[t.jug] = [jugadores[t.jug] EXCEPT !.personajeActivo = Len(personajes) + 1]
    BY <1>1, <1>2, Hechos
  <2>3. jugadores'[t.jug].personajeActivo = Len(personajes) + 1
    BY <2>1, <2>2 DEF JugadorT
  <2>. QED
    BY <1>1, <1>2, <2>3, Hechos
<1>6. ASSUME NEW d \in Dirs
      PROVE  Activo(d)' = IF sesionesActivas[d] = t.jug THEN Len(personajes) + 1 ELSE Activo(d)
  <2>1. sesionesActivas'[d] = sesionesActivas[d] /\ sesionesActivas[d] \in 0..Len(jugadores)
    BY <1>2, Hechos
  <2>2. CASE sesionesActivas[d] = Nadie
    BY <1>1, <2>1, <2>2 DEF Activo, Nadie
  <2>3. CASE sesionesActivas[d] # Nadie
    <3>1. sesionesActivas[d] \in 1..Len(jugadores)
      BY <2>1, <2>3, Hechos DEF Nadie
    <3>. QED
      BY <1>5, <2>1, <2>3, <3>1 DEF Activo
  <2>. QED
    BY <2>2, <2>3
<1>7. Cargando' = Cargando \ {t} /\ Guardando' = Guardando
  BY <1>1, <1>2 DEF CargarT, Cargando, Guardando, EnVuelo
<1>. QED
  BY <1>1, <1>2, <1>3, <1>4, <1>5, <1>6, <1>7

\* guardarPosicionPersonaje: a coordinate is read,
LEMMA LeeMarco ==
  ASSUME Login, NEW t \in tareas, LeeX(t) \/ LeeY(t)
  PROVE  /\ UNCHANGED <<sesionesActivas, inact, jugadores, personajes, bbdd, ultimo, ahora, antes, movs,
                        fallos>>
         /\ Cargando' = Cargando /\ t \in Guardando
         /\ \E w : /\ Guardando' = (Guardando \ {t}) \cup {w}
                   /\ w.per = t.per /\ w.origen = t.origen /\ w.vieja = t.vieja
                   /\ \/ w.x = t.x
                      \/ t.x = SinLeer /\ w.x = personajes[t.per].pos.x
                   /\ \/ w.y = t.y
                      \/ t.y = SinLeer /\ w.y = personajes[t.per].pos.y
<1>1. t \in GuardarT /\ t \in Guardando
  BY Formas DEF Login, Base, Tipos, LeeX, LeeY, Guardando, EnVuelo
<1>2. UNCHANGED <<sesionesActivas, inact, jugadores, personajes, bbdd, ultimo, ahora, antes, movs, fallos>>
  BY DEF LeeX, LeeY, servidor, historia, cuentas
<1>3. PICK w : /\ tareas' = (tareas \ {t}) \cup {w} /\ w.tipo = "guardar"
               /\ w.per = t.per /\ w.origen = t.origen /\ w.vieja = t.vieja
               /\ \/ w.x = t.x
                  \/ t.x = SinLeer /\ w.x = personajes[t.per].pos.x
               /\ \/ w.y = t.y
                  \/ t.y = SinLeer /\ w.y = personajes[t.per].pos.y
  <2>1. CASE LeeX(t)
    <3>. DEFINE v == [t EXCEPT !.x = personajes[t.per].pos.x]
    <3>1. /\ v.tipo = "guardar" /\ v.per = t.per /\ v.origen = t.origen /\ v.vieja = t.vieja
          /\ v.x = personajes[t.per].pos.x /\ v.y = t.y
      BY <1>1 DEF GuardarT
    <3>. QED
      BY <2>1, <3>1 DEF LeeX
  <2>2. CASE LeeY(t)
    <3>. DEFINE v == [t EXCEPT !.y = personajes[t.per].pos.y]
    <3>1. /\ v.tipo = "guardar" /\ v.per = t.per /\ v.origen = t.origen /\ v.vieja = t.vieja
          /\ v.y = personajes[t.per].pos.y /\ v.x = t.x
      BY <1>1 DEF GuardarT
    <3>. QED
      BY <2>2, <3>1 DEF LeeY
  <2>. QED
    BY <2>1, <2>2
<1>4. Guardando' = (Guardando \ {t}) \cup {w} /\ Cargando' = Cargando
  BY <1>1, <1>3 DEF GuardarT, Cargando, Guardando, EnVuelo
<1>. QED
  BY <1>1, <1>2, <1>3, <1>4

\* and the UPDATE is done, or fails.
LEMMA EscribeMarco ==
  ASSUME Login, NEW t \in tareas, Actualiza(t) \/ FallaSQL(t)
  PROVE  LET c == personajes[t.per].id IN
         /\ UNCHANGED <<sesionesActivas, inact, jugadores, personajes, ultimo, ahora, antes, movs>>
         /\ Cargando' = Cargando /\ t \in Guardando /\ Guardando' = Guardando \ {t}
         /\ t.x # SinLeer /\ t.y # SinLeer
         /\ \/ /\ UNCHANGED fallos
               /\ c \in Ids /\ bbdd'[c] = [x |-> t.x, y |-> t.y]
               /\ \A b \in Ids : b # c => bbdd'[b] = bbdd[b]
            \/ fallos' = fallos + 1 /\ UNCHANGED bbdd
<1>1. t \in GuardarT /\ t \in Guardando /\ t.x # SinLeer /\ t.y # SinLeer
  BY Formas DEF Login, Base, Tipos, Actualiza, FallaSQL, Leida, Guardando, EnVuelo
<1>2. /\ UNCHANGED <<sesionesActivas, inact, jugadores, personajes, ultimo, ahora, antes, movs>>
      /\ tareas' = tareas \ {t}
  BY DEF Actualiza, FallaSQL, servidor, historia, cuentas
<1>3. Guardando' = Guardando \ {t} /\ Cargando' = Cargando
  BY <1>1, <1>2 DEF GuardarT, Cargando, Guardando, EnVuelo
<1>4. personajes[t.per].id \in Ids
  <2>1. personajes[t.per] \in PersonajeT
    BY <1>1, Hechos
  <2>. QED
    BY <2>1 DEF PersonajeT
<1>5. \/ /\ UNCHANGED fallos
         /\ bbdd'[personajes[t.per].id] = [x |-> t.x, y |-> t.y]
         /\ \A b \in Ids : b # personajes[t.per].id => bbdd'[b] = bbdd[b]
      \/ fallos' = fallos + 1 /\ UNCHANGED bbdd
  <2>1. bbdd \in [Ids -> Punto]
    BY DEF Login, Base, Tipos, TipoHistoria
  <2>. QED
    BY <1>4, <2>1 DEF Actualiza, FallaSQL, cuentas
<1>. QED
  BY <1>1, <1>2, <1>3, <1>4, <1>5

\* iniciarAutoGuardado
LEMMA AutoguardadoMarco ==
  ASSUME Login, Autoguardado
  PROVE  /\ UNCHANGED <<sesionesActivas, jugadores, personajes, bbdd, ultimo, movs, fallos>>
         /\ ahora' = ultimo /\ antes' = ahora
         /\ \A d \in Dirs : /\ Activo(d)' = Activo(d)
                            /\ inact'[d] \in {inact[d], inact[d] + 1}
                            /\ Activo(d) # Nadie => inact'[d] = inact[d] + 1
         /\ \A t \in Cargando \cup Guardando : ~t.vieja
         /\ \A w \in Cargando' : \E t \in Cargando :
              /\ w = [t EXCEPT !.vieja = TRUE]
              /\ w.jug = t.jug /\ w.id = t.id /\ w.leido = t.leido /\ w.vieja
         /\ \A w \in Guardando' :
              \/ \E t \in Guardando :
                   /\ w = [t EXCEPT !.vieja = TRUE]
                   /\ w.per = t.per /\ w.origen = t.origen /\ w.x = t.x /\ w.y = t.y /\ w.vieja
              \/ \E d \in Dirs :
                   /\ Activo(d) # Nadie /\ w = TareaGuardar(Activo(d), "auto", TRUE)
                   /\ w.per = Activo(d) /\ w.origen = "auto" /\ w.x = SinLeer /\ w.y = SinLeer
                   /\ w.vieja
         /\ \A t \in Guardando : [t EXCEPT !.vieja = TRUE] \in Guardando'
         /\ \A d \in Dirs : Activo(d) # Nadie =>
              TareaGuardar(Activo(d), "auto", TRUE) \in Guardando'
<1>1. /\ UNCHANGED <<sesionesActivas, jugadores, personajes, bbdd, ultimo, movs, fallos>>
      /\ ahora' = ultimo /\ antes' = ahora
      /\ \A t \in tareas : ~t.vieja
      /\ tareas' = {[t EXCEPT !.vieja = TRUE] : t \in tareas} \cup GuardadoMasivo
  BY DEF Autoguardado, cuentas
<1>2. ASSUME NEW d \in Dirs
      PROVE  /\ inact'[d] \in {inact[d], inact[d] + 1}
             /\ Activo(d) # Nadie => inact'[d] = inact[d] + 1
  <2>1. inact'[d] = IF d \in sesionesKcp /\ inact[d] <= 2 THEN inact[d] + 1 ELSE inact[d]
    BY DEF Autoguardado, Inactividad
  <2>2. ~(d \in sesionesKcp /\ inact[d] >= 2 /\ inact[d] > 2)
    BY DEF Autoguardado, EstaInactiva, Inactividad
  <2>3. Activo(d) # Nadie => d \in sesionesKcp
    BY DEF Activo, Login, Base, SinFugas
  <2>4. inact[d] \in 0..3
    BY Hechos
  <2>. QED
    BY <2>1, <2>2, <2>3, <2>4
<1>3. \A d \in Dirs : Activo(d)' = Activo(d)
  BY <1>1 DEF Activo
<1>4. ASSUME NEW w \in Cargando'
      PROVE  \E t \in Cargando :
              /\ w = [t EXCEPT !.vieja = TRUE]
              /\ w.jug = t.jug /\ w.id = t.id /\ w.leido = t.leido /\ w.vieja
  <2>1. w \in tareas' /\ w.tipo = "cargar"
    BY DEF Cargando, EnVuelo
  <2>2. PICK t \in tareas : w = [t EXCEPT !.vieja = TRUE] /\ w.tipo = t.tipo
    BY <2>1, Marcadas DEF Login, Base
  <2>3. t \in CargarT
    BY <2>1, <2>2, Formas DEF Login, Base, Tipos
  <2>. QED
    BY <2>1, <2>2, <2>3 DEF Cargando, EnVuelo, CargarT
<1>5. ASSUME NEW w \in Guardando'
      PROVE  \/ \E t \in Guardando :
                  /\ w = [t EXCEPT !.vieja = TRUE]
                  /\ w.per = t.per /\ w.origen = t.origen /\ w.x = t.x /\ w.y = t.y /\ w.vieja
             \/ \E d \in Dirs :
                  /\ Activo(d) # Nadie /\ w = TareaGuardar(Activo(d), "auto", TRUE)
                  /\ w.per = Activo(d) /\ w.origen = "auto" /\ w.x = SinLeer /\ w.y = SinLeer
                  /\ w.vieja
  <2>1. w \in tareas' /\ w.tipo = "guardar"
    BY DEF Guardando, EnVuelo
  <2>2. CASE w \in GuardadoMasivo
    BY <2>2 DEF GuardadoMasivo, TareaGuardar
  <2>3. CASE w \notin GuardadoMasivo
    <3>1. PICK t \in tareas : w = [t EXCEPT !.vieja = TRUE]
      BY <1>1, <2>1, <2>3
    <3>2. t \in LoginT \/ t \in CargarT \/ t \in GuardarT
      BY DEF Login, Base, Tipos, TipoTareas
    <3>3. t \in GuardarT
      BY <2>1, <3>1, <3>2 DEF LoginT, CargarT
    <3>. QED
      BY <3>1, <3>3 DEF Guardando, EnVuelo, GuardarT
  <2>. QED
    BY <2>2, <2>3
<1>6. ASSUME NEW t \in Guardando PROVE [t EXCEPT !.vieja = TRUE] \in Guardando'
  <2>1. t \in tareas /\ t \in GuardarT
    BY Hechos DEF Guardando, EnVuelo
  <2>. QED
    BY <1>1, <2>1 DEF Guardando, EnVuelo, GuardarT
<1>7. ASSUME NEW d \in Dirs, Activo(d) # Nadie
      PROVE  TareaGuardar(Activo(d), "auto", TRUE) \in Guardando'
  BY <1>1, <1>7 DEF GuardadoMasivo, TareaGuardar, Guardando, EnVuelo
<1>8. \A t \in Cargando \cup Guardando : ~t.vieja
  BY <1>1 DEF Cargando, Guardando, EnVuelo
<1>. QED
  BY <1>1, <1>2, <1>3, <1>4, <1>5, <1>6, <1>7, <1>8

LEMMA ReiniciaMarco ==
  ASSUME Login, Reinicia
  PROVE  /\ Cargando' = {} /\ Guardando' = {} /\ Vivos' = {}
         /\ \A d \in Dirs : Activo(d)' = Nadie
         /\ ultimo' = bbdd /\ ahora' = bbdd /\ antes' = bbdd
         /\ UNCHANGED <<bbdd, movs, fallos>>
<1>1. \A d \in Dirs : Activo(d)' = Nadie
  BY DEF Reinicia, Activo
<1>2. Cargando' = {} /\ Guardando' = {}
  BY DEF Reinicia, Cargando, Guardando, EnVuelo
<1>. QED
  BY <1>1, <1>2 DEF Reinicia, Vivos

LEMMA VivosSon ==
  \A p : p \in Vivos <=> \/ \E t \in Guardando : t.per = p
                         \/ p # Nadie /\ \E d \in Dirs : Activo(d) = p
  BY DEF Vivos

\* Of the steps, only the callback of a load makes an object.
LEMMA VivosMarco ==
  ASSUME Login, Paciencia, [Next]_vars
  PROVE  \/ \A p \in Vivos' : p \in Vivos /\ personajes'[p].id = personajes[p].id
         \/ \E t \in tareas : Activa(t)
<1>0. \A p \in Vivos' : \/ \E t \in Guardando' : t.per = p
                        \/ p # Nadie /\ \E d \in Dirs : Activo(d)' = p
  BY DEF Vivos
<1>1. ASSUME \A t \in Guardando' : t.per \in Vivos,
             \A d \in Dirs : Activo(d)' \in {Nadie, Activo(d)},
             \A p \in 1..Len(personajes) : personajes'[p].id = personajes[p].id
      PROVE  \A p \in Vivos' : p \in Vivos /\ personajes'[p].id = personajes[p].id
  BY <1>0, <1>1, VivosSon, Hechos
<1>2. CASE Tranquilo
  <2>1. \A d \in Dirs : Activo(d)' = Activo(d)
    BY <1>2 DEF Tranquilo, Activo
  <2>. QED
    BY <1>1, <1>2, <2>1, VivosSon DEF Tranquilo
<1>3. ASSUME NEW d \in Dirs, Mueve(d), Activo(d) # Nadie
      PROVE  \A p \in Vivos' : p \in Vivos /\ personajes'[p].id = personajes[p].id
  <2>1. UNCHANGED <<sesionesActivas, jugadores>> /\ Guardando' = Guardando
        /\ \A q \in 1..Len(personajes) : personajes'[q].id = personajes[q].id
    BY <1>3, MueveMarco
  <2>2. \A e \in Dirs : Activo(e)' = Activo(e)
    BY <2>1 DEF Activo
  <2>. QED
    BY <1>1, <2>1, <2>2, VivosSon
<1>4. ASSUME NEW d \in Dirs, NEW c \in Ids, Entra(d, c)
      PROVE  \A p \in Vivos' : p \in Vivos /\ personajes'[p].id = personajes[p].id
  <2>1. UNCHANGED <<sesionesActivas, jugadores, personajes>> /\ Guardando' = Guardando
    BY <1>4, EntraMarco
  <2>2. \A e \in Dirs : Activo(e)' = Activo(e)
    BY <2>1 DEF Activo
  <2>. QED
    BY <1>1, <2>1, <2>2, VivosSon
<1>5. ASSUME NEW d \in Dirs, Libera(d)
      PROVE  \A p \in Vivos' : p \in Vivos /\ personajes'[p].id = personajes[p].id
  <2>1. UNCHANGED personajes /\ \A e \in Dirs : Activo(e)' \in {Nadie, Activo(e)}
    BY <1>5, LiberaMarco
  <2>2. \A t \in Guardando' : t.per \in Vivos
    BY <1>5, LiberaMarco, VivosSon
  <2>. QED
    BY <1>1, <2>1, <2>2
<1>6. ASSUME NEW t \in tareas, \/ Registra(t) \/ Consulta(t) \/ FallaConsulta(t)
                               \/ LeeX(t) \/ LeeY(t) \/ Actualiza(t) \/ FallaSQL(t)
      PROVE  \A p \in Vivos' : p \in Vivos /\ personajes'[p].id = personajes[p].id
  <2>1. UNCHANGED personajes /\ \A e \in Dirs : Activo(e)' = Activo(e)
    <3>1. CASE Registra(t)
      BY <3>1, RegistraMarco
    <3>2. CASE ~Registra(t)
      BY <1>6, <3>2, ConsultaMarco, LeeMarco, EscribeMarco DEF Activo
    <3>. QED
      BY <3>1, <3>2
  <2>2. \A w \in Guardando' : \E s \in Guardando : w.per = s.per
    BY <1>6, RegistraMarco, ConsultaMarco, LeeMarco, EscribeMarco
  <2>. QED
    BY <1>1, <2>1, <2>2, VivosSon
<1>7. CASE Autoguardado
  <2>1. UNCHANGED personajes /\ \A e \in Dirs : Activo(e)' = Activo(e)
    BY <1>7, AutoguardadoMarco
  <2>2. \A t \in Guardando' : t.per \in Vivos
    BY <1>7, AutoguardadoMarco, VivosSon
  <2>. QED
    BY <1>1, <2>1, <2>2
<1>8. CASE Reinicia
  BY <1>8, ReiniciaMarco
<1>. QED
  BY <1>2, <1>3, <1>4, <1>5, <1>6, <1>7, <1>8, Pasos

LEMMA NuevoVivo ==
  ASSUME Login, NEW t \in tareas, Activa(t)
  PROVE  \A p \in Vivos' :
           \/ p \in Vivos /\ p \in 1..Len(personajes) /\ personajes'[p] = personajes[p]
           \/ p = Len(personajes) + 1
<1>1. \A p \in Vivos' : \/ \E s \in Guardando : s.per = p
                        \/ p # Nadie /\ \E d \in Dirs : Activo(d)' = p
  BY ActivaMarco DEF Vivos
<1>2. \A p \in Vivos' : p \in Vivos \/ p = Len(personajes) + 1
  BY <1>1, ActivaMarco, VivosSon
<1>. QED
  BY <1>2, ActivaMarco, Hechos

-----------------------------------------------------------------------------
(* One object for each exclusive character *)

LEMMA PasoCarga ==
  ASSUME Login, Paciencia, Objetos, [Next]_vars
  PROVE  CargaEnPlazo'
<1>0. /\ CargaEnPlazo
      /\ \A t \in Cargando : t.jug \in 1..Len(jugadores) /\ t.jug # Nadie
      /\ \A d \in Dirs : inact[d] \in Nat
  BY SMTT(30), Hechos DEF Objetos, Nadie
<1>1. ASSUME Cargando' \subseteq Cargando, \A d \in Dirs : inact'[d] \in {0, inact[d]},
             \A t \in Cargando' : jugadores'[t.jug] = jugadores[t.jug],
             \A d \in Dirs : sesionesActivas[d] # Nadie => sesionesActivas'[d] = sesionesActivas[d]
      PROVE  CargaEnPlazo'
  BY <1>0, <1>1 DEF CargaEnPlazo
<1>2. CASE Tranquilo
  BY <1>1, <1>2 DEF Tranquilo
<1>3. ASSUME NEW d \in Dirs, Mueve(d), Activo(d) # Nadie PROVE CargaEnPlazo'
  BY <1>1, <1>3, MueveMarco
<1>4. ASSUME NEW d \in Dirs, NEW c \in Ids, Entra(d, c) PROVE CargaEnPlazo'
  <2>1. PICK t : /\ Cargando' = Cargando \cup {t}
                 /\ t.jug = sesionesActivas[d] /\ ~t.vieja
    BY <1>4, EntraMarco
  <2>2. /\ UNCHANGED <<sesionesActivas, jugadores>>
        /\ \A e \in Dirs : inact'[e] = IF e = d THEN 0 ELSE inact[e]
        /\ \A s \in Cargando : s.jug # sesionesActivas[d]
        /\ jugadores[sesionesActivas[d]].personajeActivo = Nadie
    BY <1>4, EntraMarco DEF Activo
  <2>. QED
    BY <1>0, <2>1, <2>2 DEF CargaEnPlazo
<1>5. ASSUME NEW d \in Dirs, Libera(d) PROVE CargaEnPlazo'
  <2>1. /\ Cargando' = Cargando /\ UNCHANGED jugadores /\ inact[d] >= 2
        /\ \A e \in Dirs : e # d => inact'[e] = inact[e] /\ sesionesActivas'[e] = sesionesActivas[e]
    BY <1>5, LiberaMarco
  <2>2. \A t \in Cargando : \A e \in Dirs : sesionesActivas[e] = t.jug /\ inact[e] <= 1 => e # d
    BY <1>0, <2>1
  <2>. QED
    BY <1>0, <2>1, <2>2 DEF CargaEnPlazo
<1>6. ASSUME NEW t \in tareas, Registra(t) PROVE CargaEnPlazo'
  BY <1>0, <1>1, <1>6, RegistraMarco
<1>7. ASSUME NEW t \in tareas, Consulta(t) \/ FallaConsulta(t) PROVE CargaEnPlazo'
  <2>1. UNCHANGED <<sesionesActivas, inact, jugadores>> /\ t \in Cargando
    BY <1>7, ConsultaMarco
  <2>2. CASE \E w : /\ Cargando' = (Cargando \ {t}) \cup {w}
                    /\ w.jug = t.jug /\ w.vieja = t.vieja
    BY <1>0, <2>1, <2>2 DEF CargaEnPlazo
  <2>3. CASE Cargando' = Cargando \ {t}
    BY <1>1, <2>1, <2>3
  <2>. QED
    BY <1>7, <2>2, <2>3, ConsultaMarco
<1>8. ASSUME NEW t \in tareas, Activa(t) PROVE CargaEnPlazo'
  <2>1. /\ UNCHANGED <<sesionesActivas, inact>> /\ t \in Cargando /\ Cargando' = Cargando \ {t}
        /\ \A j \in 1..Len(jugadores) : j # t.jug => jugadores'[j] = jugadores[j]
    BY <1>8, ActivaMarco
  <2>2. \A s \in Cargando' : s.jug # t.jug
    BY <1>0, <2>1 DEF CargaEnPlazo
  <2>. QED
    BY <1>0, <1>1, <2>1, <2>2
<1>9. ASSUME NEW t \in tareas, LeeX(t) \/ LeeY(t) \/ Actualiza(t) \/ FallaSQL(t)
      PROVE  CargaEnPlazo'
  BY <1>1, <1>9, LeeMarco, EscribeMarco
<1>10. CASE Autoguardado
  <2>1. UNCHANGED <<sesionesActivas, jugadores>>
    BY <1>10, AutoguardadoMarco
  <2>2. \A d \in Dirs : inact'[d] \in {inact[d], inact[d] + 1}
    BY <1>10, AutoguardadoMarco
  <2>3. ASSUME NEW w \in Cargando'
        PROVE  \E t \in Cargando : w = [t EXCEPT !.vieja = TRUE] /\ w.jug = t.jug /\ w.vieja
                                   /\ ~t.vieja
    BY <1>10, AutoguardadoMarco
  <2>4. ASSUME NEW w \in Cargando', NEW v \in Cargando', w.jug = v.jug PROVE v = w
    <3>1. PICK t \in Cargando : w = [t EXCEPT !.vieja = TRUE] /\ w.jug = t.jug
      BY <2>3
    <3>2. PICK s \in Cargando : v = [s EXCEPT !.vieja = TRUE] /\ v.jug = s.jug
      BY <2>3
    <3>3. s = t
      BY <1>0, <2>4, <3>1, <3>2 DEF CargaEnPlazo
    <3>. QED
      BY <3>1, <3>2, <3>3
  <2>5. ASSUME NEW w \in Cargando'
        PROVE  /\ jugadores'[w.jug].personajeActivo = Nadie /\ w.vieja
               /\ \E d \in Dirs : sesionesActivas'[d] = w.jug /\ inact'[d] <= 1
    BY <1>0, <2>1, <2>2, <2>3 DEF CargaEnPlazo
  <2>. QED
    BY <2>4, <2>5 DEF CargaEnPlazo
<1>11. CASE Reinicia
  BY <1>11, ReiniciaMarco DEF CargaEnPlazo
<1>. QED
  BY <1>2, <1>3, <1>4, <1>5, <1>6, <1>7, <1>8, <1>9, <1>10, <1>11, Pasos

LEMMA PasoGuardados ==
  ASSUME Login, Paciencia, Objetos, [Next]_vars
  PROVE  Guardados'
<1>0. /\ Guardados
      /\ \A t \in Guardando : t.per \in 1..Len(personajes) /\ t.per # Nadie
      /\ Len(personajes) \in Nat
  BY Hechos DEF Objetos, Nadie
<1>1. ASSUME Guardando' \subseteq Guardando,
             \A t \in Guardando : \A d \in Dirs : Activo(d)' = t.per => Activo(d) = t.per
      PROVE  Guardados'
  BY <1>0, <1>1 DEF Guardados
<1>2. CASE Tranquilo
  BY <1>1, <1>2 DEF Tranquilo, Activo
<1>3. ASSUME NEW d \in Dirs, Mueve(d), Activo(d) # Nadie PROVE Guardados'
  BY <1>1, <1>3, MueveMarco DEF Activo
<1>4. ASSUME NEW d \in Dirs, NEW c \in Ids, Entra(d, c) PROVE Guardados'
  BY <1>1, <1>4, EntraMarco DEF Activo
<1>5. ASSUME NEW d \in Dirs, Libera(d) PROVE Guardados'
  <2>1. \A s \in Guardando : s.origen = "final" => s.per # Activo(d)
    BY <1>0 DEF Guardados
  <2>2. \A e \in Dirs : Activo(e)' = IF e = d THEN Nadie ELSE Activo(e)
    BY <1>5, LiberaMarco
  <2>3. /\ Guardando' = Guardando \cup GuardadoFinal(d)
        /\ \A t \in GuardadoFinal(d) :
             /\ Activo(d) # Nadie /\ t.per = Activo(d) /\ t.origen = "final"
             /\ \A s \in GuardadoFinal(d) : s = t
    BY <1>5, LiberaMarco
  <2>4. \A e \in Dirs : Activo(d) # Nadie => Activo(e)' # Activo(d)
    BY <2>2, Hechos
  <2>5. ASSUME NEW t \in Guardando'
        PROVE  /\ t.origen = "auto" => t.vieja
               /\ t.origen = "final" => \A e \in Dirs : Activo(e)' # t.per
    BY <1>0, <2>2, <2>3, <2>4 DEF Guardados
  <2>6. ASSUME NEW t \in Guardando', NEW s \in Guardando', s.per = t.per, s.origen = t.origen
        PROVE  s = t
    BY <1>0, <2>1, <2>3, <2>6 DEF Guardados
  <2>. QED
    BY <2>5, <2>6 DEF Guardados
<1>6. ASSUME NEW t \in tareas, Registra(t) PROVE Guardados'
  BY <1>1, <1>6, RegistraMarco
<1>7. ASSUME NEW t \in tareas, Consulta(t) \/ FallaConsulta(t) PROVE Guardados'
  BY <1>1, <1>7, ConsultaMarco DEF Activo
<1>8. ASSUME NEW t \in tareas, Activa(t) PROVE Guardados'
  <2>1. Guardando' = Guardando
        /\ \A d \in Dirs : Activo(d)' = Activo(d) \/ Activo(d)' = Len(personajes) + 1
    BY <1>8, ActivaMarco
  <2>. QED
    BY <1>0, <1>1, <2>1
<1>9. ASSUME NEW t \in tareas, LeeX(t) \/ LeeY(t) PROVE Guardados'
  <2>1. UNCHANGED <<sesionesActivas, jugadores>> /\ t \in Guardando
        /\ \E w : /\ Guardando' = (Guardando \ {t}) \cup {w}
                  /\ w.per = t.per /\ w.origen = t.origen /\ w.vieja = t.vieja
    BY <1>9, LeeMarco
  <2>2. \A d \in Dirs : Activo(d)' = Activo(d)
    BY <2>1 DEF Activo
  <2>. QED
    BY <1>0, <2>1, <2>2 DEF Guardados
<1>10. ASSUME NEW t \in tareas, Actualiza(t) \/ FallaSQL(t) PROVE Guardados'
  BY <1>1, <1>10, EscribeMarco DEF Activo
<1>11. CASE Autoguardado
  <2>1. \A t \in Guardando : t.origen # "auto"
    BY <1>0, <1>11, AutoguardadoMarco DEF Guardados
  <2>2. \A d \in Dirs : Activo(d)' = Activo(d)
    BY <1>11, AutoguardadoMarco
  <2>3. ASSUME NEW w \in Guardando'
        PROVE  \/ /\ w.origen # "auto" /\ w.vieja
                  /\ \E t \in Guardando : /\ w = [t EXCEPT !.vieja = TRUE]
                                          /\ w.per = t.per /\ w.origen = t.origen
               \/ /\ w.origen = "auto" /\ w.vieja
                  /\ w = TareaGuardar(w.per, "auto", TRUE)
    <3>1. ASSUME NEW t \in Guardando, w = [t EXCEPT !.vieja = TRUE], w.per = t.per,
                 w.origen = t.origen, w.vieja
          PROVE  w.origen # "auto"
      BY <2>1, <3>1
    <3>2. ASSUME NEW d \in Dirs, w = TareaGuardar(Activo(d), "auto", TRUE), w.per = Activo(d)
          PROVE  w = TareaGuardar(w.per, "auto", TRUE)
      BY <3>2
    <3>3. \/ \E t \in Guardando :
               w = [t EXCEPT !.vieja = TRUE] /\ w.per = t.per /\ w.origen = t.origen /\ w.vieja
          \/ \E d \in Dirs : /\ w = TareaGuardar(Activo(d), "auto", TRUE)
                            /\ w.per = Activo(d) /\ w.origen = "auto" /\ w.vieja
      <4>1. \A v \in Guardando' :
              \/ \E t \in Guardando :
                   v = [t EXCEPT !.vieja = TRUE] /\ v.per = t.per /\ v.origen = t.origen /\ v.vieja
              \/ \E d \in Dirs : /\ v = TareaGuardar(Activo(d), "auto", TRUE)
                                /\ v.per = Activo(d) /\ v.origen = "auto" /\ v.vieja
        BY <1>11, AutoguardadoMarco
      <4>. QED
        BY <4>1
    <3>. QED
      BY <3>1, <3>2, <3>3
  <2>4. ASSUME NEW w \in Guardando'
        PROVE  w.vieja /\ (w.origen = "final" => \A e \in Dirs : Activo(e)' # w.per)
    <3>1. CASE w.origen = "auto"
      BY <2>3, <3>1
    <3>2. CASE w.origen # "auto"
      <4>1. PICK t \in Guardando : w.vieja /\ w.per = t.per /\ w.origen = t.origen
        BY <2>3, <3>2
      <4>2. t.origen = "final" => \A e \in Dirs : Activo(e) # t.per
        BY <1>0 DEF Guardados
      <4>. QED
        BY <2>2, <4>1, <4>2
    <3>. QED
      BY <3>1, <3>2
  <2>5. ASSUME NEW w \in Guardando', NEW v \in Guardando', v.per = w.per, v.origen = w.origen
        PROVE  v = w
    <3>1. CASE w.origen = "auto"
      <4>1. w = TareaGuardar(w.per, "auto", TRUE) /\ v = TareaGuardar(v.per, "auto", TRUE)
        BY <2>3, <2>5, <3>1
      <4>. QED
        BY <2>5, <4>1
    <3>2. CASE w.origen # "auto"
      <4>1. PICK t \in Guardando :
              w = [t EXCEPT !.vieja = TRUE] /\ w.per = t.per /\ w.origen = t.origen
        BY <2>3, <3>2
      <4>2. PICK s \in Guardando :
              v = [s EXCEPT !.vieja = TRUE] /\ v.per = s.per /\ v.origen = s.origen
        BY <2>3, <2>5, <3>2
      <4>3. s = t
        BY <1>0, <2>5, <4>1, <4>2 DEF Guardados
      <4>. QED
        BY <4>1, <4>2, <4>3
    <3>. QED
      BY <3>1, <3>2
  <2>. QED
    BY <2>4, <2>5 DEF Guardados
<1>12. CASE Reinicia
  BY <1>12, ReiniciaMarco DEF Guardados
<1>. QED
  BY <1>2, <1>3, <1>4, <1>5, <1>6, <1>7, <1>8, <1>9, <1>10, <1>11, <1>12, Pasos

LEMMA PasoExclusividad ==
  ASSUME Login, Paciencia, Objetos, [Next]_vars
  PROVE  Exclusividad'
<1>0. Exclusividad
  BY DEF Objetos
<1>1. ASSUME \A p \in Vivos' : p \in Vivos /\ personajes'[p].id = personajes[p].id,
             \A w \in Cargando' : /\ \A p \in Vivos : personajes[p].id # w.id
                                  /\ \A v \in Cargando' : v.id = w.id => v = w
      PROVE  Exclusividad'
  BY <1>0, <1>1 DEF Exclusividad
<1>2. ASSUME \A p \in Vivos' : p \in Vivos /\ personajes'[p].id = personajes[p].id,
             Cargando' \subseteq Cargando
      PROVE  Exclusividad'
  BY <1>0, <1>1, <1>2 DEF Exclusividad
<1>3. ASSUME NEW t \in tareas, Activa(t) PROVE Exclusividad'
  <2>. DEFINE nuevo == Len(personajes) + 1
  <2>1. /\ Cargando' = Cargando \ {t} /\ t \in Cargando
        /\ personajes'[nuevo].id = t.id
    BY <1>3, ActivaMarco
  <2>2. \A p \in Vivos' : \/ p \in Vivos /\ personajes'[p].id = personajes[p].id
                          \/ p = nuevo
    BY <1>3, NuevoVivo
  <2>. HIDE DEF nuevo
  <2>3. \A p \in Vivos : personajes[p].id # t.id
    BY <1>0, <2>1 DEF Exclusividad
  <2>4. \A s \in Cargando' : s.id # t.id /\ s \in Cargando
    BY <1>0, <2>1 DEF Exclusividad
  <2>5. \A p, q \in Vivos' : personajes'[p].id = personajes'[q].id => p = q
    BY <1>0, <2>1, <2>2, <2>3 DEF Exclusividad
  <2>6. \A s \in Cargando' : /\ \A p \in Vivos' : personajes'[p].id # s.id
                             /\ \A v \in Cargando' : v.id = s.id => v = s
    BY <1>0, <2>1, <2>2, <2>4 DEF Exclusividad
  <2>. QED
    BY <2>5, <2>6 DEF Exclusividad
<1>4. ASSUME NEW d \in Dirs, NEW c \in Ids, Entra(d, c),
             \A p \in Vivos' : p \in Vivos /\ personajes'[p].id = personajes[p].id
      PROVE  Exclusividad'
  <2>1. PICK t : Cargando' = Cargando \cup {t} /\ t.id = c
    BY <1>4, EntraMarco
  <2>2. /\ \A e \in Dirs : Activo(e) # Nadie => personajes[Activo(e)].id # c
        /\ \A s \in Guardando : personajes[s.per].id # c
        /\ \A s \in Cargando : s.id # c
    BY <1>4, EntraMarco DEF Quieto, Cargando, Guardando
  <2>3. \A p \in Vivos : personajes[p].id # c
    BY <2>2, VivosSon
  <2>. QED
    BY <1>0, <1>1, <1>4, <2>1, <2>2, <2>3 DEF Exclusividad
<1>5. ASSUME NEW t \in tareas, Consulta(t) \/ FallaConsulta(t),
             \A p \in Vivos' : p \in Vivos /\ personajes'[p].id = personajes[p].id
      PROVE  Exclusividad'
  <2>1. t \in Cargando
    BY <1>5, ConsultaMarco
  <2>2. CASE \E w : Cargando' = (Cargando \ {t}) \cup {w} /\ w.id = t.id
    BY <1>0, <1>1, <1>5, <2>1, <2>2 DEF Exclusividad
  <2>3. CASE Cargando' = Cargando \ {t}
    BY <1>2, <1>5, <2>3
  <2>. QED
    BY <1>5, <2>2, <2>3, ConsultaMarco
<1>6. ASSUME Autoguardado,
             \A p \in Vivos' : p \in Vivos /\ personajes'[p].id = personajes[p].id
      PROVE  Exclusividad'
  <2>1. \A w \in Cargando' : \E t \in Cargando : w = [t EXCEPT !.vieja = TRUE] /\ w.id = t.id
    BY <1>6, AutoguardadoMarco
  <2>2. ASSUME NEW w \in Cargando', NEW v \in Cargando', v.id = w.id PROVE v = w
    <3>1. PICK t \in Cargando : w = [t EXCEPT !.vieja = TRUE] /\ w.id = t.id
      BY <2>1
    <3>2. PICK s \in Cargando : v = [s EXCEPT !.vieja = TRUE] /\ v.id = s.id
      BY <2>1
    <3>3. s = t
      BY <1>0, <2>2, <3>1, <3>2 DEF Exclusividad
    <3>. QED
      BY <3>1, <3>2, <3>3
  <2>3. \A w \in Cargando' : \A p \in Vivos : personajes[p].id # w.id
    BY <1>0, <2>1 DEF Exclusividad
  <2>. QED
    BY <1>1, <1>6, <2>2, <2>3
<1>7. ASSUME \/ Tranquilo
             \/ \E d \in Dirs : (Mueve(d) /\ Activo(d) # Nadie) \/ Libera(d)
             \/ \E t \in tareas : \/ Registra(t) \/ LeeX(t) \/ LeeY(t) \/ Actualiza(t)
                                  \/ FallaSQL(t)
             \/ Reinicia
      PROVE  Cargando' \subseteq Cargando
  <2>1. ASSUME NEW d \in Dirs, (Mueve(d) /\ Activo(d) # Nadie) \/ Libera(d)
        PROVE  Cargando' \subseteq Cargando
    BY <2>1, MueveMarco, LiberaMarco
  <2>2. ASSUME NEW t \in tareas, \/ Registra(t) \/ LeeX(t) \/ LeeY(t) \/ Actualiza(t)
                                 \/ FallaSQL(t)
        PROVE  Cargando' \subseteq Cargando
    BY <2>2, RegistraMarco, LeeMarco, EscribeMarco
  <2>. QED
    BY <1>7, <2>1, <2>2, ReiniciaMarco DEF Tranquilo
<1>. QED
  BY <1>2, <1>3, <1>4, <1>5, <1>6, <1>7, Pasos, VivosMarco

LEMMA PasoObjetos ==
  ASSUME Login, Paciencia, Objetos, [Next]_vars
  PROVE  Objetos'
  BY PasoCarga, PasoGuardados, PasoExclusividad DEF Objetos

-----------------------------------------------------------------------------
(* The steps that have to do with a position, and those that do not *)

\* No position is written, read for a save, or forgotten.
Ajeno ==
  /\ UNCHANGED <<personajes, bbdd, ultimo, ahora, antes, movs>>
  /\ Guardando' = Guardando
  /\ \A d \in Dirs : Activo(d)' = Activo(d) /\ inact'[d] \in {0, inact[d]}
  /\ fallos' \in {fallos, fallos + 1}
  /\ \A w \in Cargando' : \/ w \in Cargando
                          \/ w.leido = <<>>
                          \/ w.leido = <<bbdd[w.id]>>

LEMMA PasosPosicion ==
  ASSUME Login, Paciencia, [Next]_vars
  PROVE  \/ Ajeno
         \/ \E d \in Dirs : (Mueve(d) /\ Activo(d) # Nadie) \/ Libera(d)
         \/ \E t \in tareas : Activa(t) \/ LeeX(t) \/ LeeY(t) \/ Actualiza(t) \/ FallaSQL(t)
         \/ Autoguardado \/ Reinicia
<1>1. CASE Tranquilo
  BY <1>1 DEF Tranquilo, Ajeno, Activo
<1>2. ASSUME NEW d \in Dirs, NEW c \in Ids, Entra(d, c) PROVE Ajeno
  <2>1. \A e \in Dirs : Activo(e)' = Activo(e) /\ inact'[e] \in {0, inact[e]}
    BY <1>2, EntraMarco DEF Activo
  <2>2. PICK t : Cargando' = Cargando \cup {t} /\ t.leido = <<>>
    BY <1>2, EntraMarco
  <2>3. UNCHANGED <<personajes, bbdd, ultimo, ahora, antes, movs, fallos>> /\ Guardando' = Guardando
    BY <1>2, EntraMarco
  <2>. QED
    BY <2>1, <2>2, <2>3 DEF Ajeno
<1>3. ASSUME NEW t \in tareas, Registra(t) PROVE Ajeno
  BY <1>3, RegistraMarco DEF Ajeno
<1>4. ASSUME NEW t \in tareas, Consulta(t) \/ FallaConsulta(t) PROVE Ajeno
  <2>1. /\ UNCHANGED <<sesionesActivas, inact, jugadores, personajes, bbdd, ultimo, ahora, antes, movs>>
        /\ Guardando' = Guardando
        /\ fallos' \in {fallos, fallos + 1}
        /\ \A w \in Cargando' : w \in Cargando \/ w.leido = <<bbdd[w.id]>>
    BY <1>4, ConsultaMarco
  <2>2. \A d \in Dirs : Activo(d)' = Activo(d)
    BY <2>1 DEF Activo
  <2>. QED
    BY <2>1, <2>2 DEF Ajeno
<1>. QED
  BY <1>1, <1>2, <1>3, <1>4, Pasos

LEMMA AjenoMarco ==
  ASSUME Ajeno
  PROVE  Vivos' = Vivos
  BY DEF Ajeno, Vivos

\* The coordinates are numbers of movements.
LEMMA Numeros ==
  ASSUME Login
  PROVE  /\ \A c \in Ids : /\ movs[c] \in Nat
                           /\ bbdd[c] \in Fila /\ ultimo[c] \in Fila
                           /\ ahora[c] \in Fila /\ antes[c] \in Fila
         /\ \A p \in Vivos : /\ p \in 1..Len(personajes)
                             /\ personajes[p].id \in Ids /\ personajes[p].pos \in Fila
         /\ \A t \in Guardando : /\ t.per \in Vivos /\ t.origen \in {"auto", "final"}
                                 /\ t.x \in Nat \cup {SinLeer} /\ t.y \in Nat \cup {SinLeer}
         /\ \A t \in Cargando : t.id \in Ids
         /\ fallos \in Nat
<1>1. Punto \subseteq Fila
  BY SesionesAssumption DEF Punto, Fila
<1>2. \A c \in Ids : /\ movs[c] \in Nat
                     /\ bbdd[c] \in Fila /\ ultimo[c] \in Fila
                     /\ ahora[c] \in Fila /\ antes[c] \in Fila
  BY <1>1, SesionesAssumption DEF Login, Base, Tipos, TipoHistoria
<1>3. fallos \in Nat
  BY SesionesAssumption DEF Login, Base, Tipos, TipoHistoria
<1>4. \A p \in Vivos : /\ p \in 1..Len(personajes)
                       /\ personajes[p].id \in Ids /\ personajes[p].pos \in Fila
  BY <1>1, Hechos DEF PersonajeT
<1>5. \A t \in Guardando : t.per \in Vivos
  BY DEF Vivos
<1>6. \A t \in Guardando : /\ t.origen \in {"auto", "final"}
                           /\ t.x \in Nat \cup {SinLeer} /\ t.y \in Nat \cup {SinLeer}
  BY Hechos, SesionesAssumption DEF GuardarT, Coord
<1>7. \A t \in Cargando : t.id \in Ids
  BY Hechos DEF CargarT
<1>. QED
  BY <1>2, <1>3, <1>4, <1>5, <1>6, <1>7

-----------------------------------------------------------------------------
(* The order of the positions *)

\* p no longer moves: its session sent nothing since the last auto-save, or is released.
Parado(p) == \A d \in Dirs : Activo(d) = p => inact[d] >= 1

\* A row is never ahead of the movements,
OrdenFilas == \A c \in Ids : NoPosterior(bbdd[c], Pos(movs[c]))

\* nor of the object of its character,
OrdenVivos ==
  \A p \in Vivos : /\ NoPosterior(bbdd[personajes[p].id], personajes[p].pos)
                   /\ NoPosterior(personajes[p].pos, Pos(movs[personajes[p].id]))

\* a load that has been read is still the row,
OrdenCargas == \A t \in Cargando : t.leido # <<>> => t.leido = <<bbdd[t.id]>>

\* and what a save has read is between the row and the object, and is the object's once
\* this no longer moves: of two saves of one object, one is of the release.
OrdenGuardados ==
  \A t \in Guardando :
    LET p == personajes[t.per] IN
    /\ t.x # SinLeer => bbdd[p.id].x <= t.x /\ t.x <= p.pos.x
    /\ t.y # SinLeer => bbdd[p.id].y <= t.y /\ t.y <= p.pos.y
    /\ Parado(t.per) => t.x \in {SinLeer, p.pos.x} /\ t.y \in {SinLeer, p.pos.y}

Orden == OrdenFilas /\ OrdenVivos /\ OrdenCargas /\ OrdenGuardados

\* The final save of an object is made when it no longer moves.
LEMMA FinalParado ==
  ASSUME Guardados, NEW t \in Guardando, t.origen = "final"
  PROVE  Parado(t.per)
  BY DEF Guardados, Parado

\* Of two saves of one object one is final.
LEMMA DosGuardados ==
  ASSUME Login, Guardados, NEW t \in Guardando, NEW s \in Guardando, s.per = t.per, s # t
  PROVE  Parado(t.per) /\ \A d \in Dirs : Activo(d) # t.per
<1>1. s.origen = "final" \/ t.origen = "final"
  BY Numeros DEF Guardados
<1>. QED
  BY <1>1 DEF Guardados, Parado

LEMMA OrdenAjeno ==
  ASSUME Login, Orden, Ajeno
  PROVE  Orden'
<1>1. UNCHANGED <<personajes, bbdd, movs>> /\ Vivos' = Vivos /\ Guardando' = Guardando
  BY AjenoMarco DEF Ajeno
<1>2. OrdenFilas'
  BY <1>1 DEF Orden, OrdenFilas
<1>3. OrdenVivos'
  BY <1>1 DEF Orden, OrdenVivos
<1>4. OrdenCargas'
  BY <1>1 DEF Orden, OrdenCargas, Ajeno
<1>5. OrdenGuardados'
  <2>1. ASSUME NEW d \in Dirs, inact'[d] >= 1 PROVE inact[d] >= 1
    <3>1. inact'[d] \in {0, inact[d]}
      BY DEF Ajeno
    <3>2. inact[d] \in 0..3
      BY Hechos
    <3>. QED
      BY <2>1, <3>1, <3>2
  <2>2. ASSUME NEW t \in Guardando, Parado(t.per)' PROVE Parado(t.per)
    BY <2>1, <2>2 DEF Parado, Ajeno
  <2>. QED
    BY <1>1, <2>2 DEF Orden, OrdenGuardados
<1>. QED
  BY <1>2, <1>3, <1>4, <1>5 DEF Orden

LEMMA OrdenMueve ==
  ASSUME Login, Objetos, Orden, NEW d \in Dirs, Mueve(d), Activo(d) # Nadie
  PROVE  Orden'
<1>. DEFINE p == Activo(d)
            c == personajes[p].id
            n == movs[c] + 1
<1>1. /\ UNCHANGED <<sesionesActivas, jugadores, bbdd>>
      /\ \A e \in Dirs : inact'[e] = IF e = d THEN 0 ELSE inact[e]
      /\ Cargando' = Cargando /\ Guardando' = Guardando
      /\ p \in 1..Len(personajes) /\ c \in Ids /\ n \in Nat
      /\ personajes'[p].id = c /\ personajes'[p].pos = Pos(n)
      /\ \A q \in 1..Len(personajes) : q # p => personajes'[q] = personajes[q]
      /\ \A b \in Ids : movs'[b] = IF b = c THEN n ELSE movs[b]
  BY MueveMarco
<1>2. \A e \in Dirs : Activo(e)' = Activo(e)
  BY <1>1 DEF Activo
<1>3. Vivos' = Vivos /\ p \in Vivos
  BY <1>1, <1>2 DEF Vivos
<1>4. n = movs[c] + 1 /\ personajes[p].id = c /\ Activo(d) = p
  OBVIOUS
<1>. HIDE DEF p, c, n
<1>5. OrdenFilas'
  <2>1. \A b \in Ids : movs[b] <= movs'[b] /\ movs[b] \in Nat /\ movs'[b] \in Nat
    BY <1>1, <1>4, Numeros
  <2>2. \A b \in Ids : bbdd[b].x <= movs[b] /\ bbdd[b].y <= movs[b]
                       /\ bbdd[b].x \in Nat /\ bbdd[b].y \in Nat
    BY Numeros DEF Orden, OrdenFilas, NoPosterior, Pos, Fila
  <2>3. \A b \in Ids : bbdd[b].x <= movs'[b] /\ bbdd[b].y <= movs'[b]
    BY <2>1, <2>2
  <2>. QED
    BY <1>1, <2>3 DEF OrdenFilas, NoPosterior, Pos
<1>6. ASSUME NEW q \in Vivos'
      PROVE  /\ NoPosterior(bbdd[personajes'[q].id], personajes'[q].pos)
             /\ NoPosterior(personajes'[q].pos, Pos(movs'[personajes'[q].id]))
  <2>1. CASE q = p
    BY SMTT(30), <1>1, <1>4, <2>1, Numeros DEF Orden, OrdenFilas, NoPosterior, Pos, Fila
  <2>2. CASE q # p
    <3>1. q \in Vivos /\ personajes'[q] = personajes[q]
      BY <1>1, <1>3, <2>2, Numeros
    <3>2. movs[personajes[q].id] <= movs'[personajes[q].id] /\ movs'[personajes[q].id] \in Nat
      BY SMTT(30), <1>1, <1>4, <3>1, Numeros
    <3>. QED
      BY <3>1, <3>2, Numeros DEF Orden, OrdenVivos, NoPosterior, Pos, Fila
  <2>. QED
    BY <2>1, <2>2
<1>7. OrdenVivos'
  BY <1>1, <1>6 DEF OrdenVivos
<1>8. OrdenCargas'
  BY <1>1 DEF Orden, OrdenCargas
<1>9. OrdenGuardados'
  <2>. SUFFICES ASSUME NEW t \in Guardando
                PROVE  /\ t.x # SinLeer => bbdd[personajes'[t.per].id].x <= t.x
                                           /\ t.x <= personajes'[t.per].pos.x
                       /\ t.y # SinLeer => bbdd[personajes'[t.per].id].y <= t.y
                                           /\ t.y <= personajes'[t.per].pos.y
                       /\ Parado(t.per)' => /\ t.x \in {SinLeer, personajes'[t.per].pos.x}
                                            /\ t.y \in {SinLeer, personajes'[t.per].pos.y}
    BY <1>1 DEF OrdenGuardados
  <2>1. CASE t.per = p
    <3>1. ~Parado(t.per)'
      BY <1>1, <1>2, <1>4, <2>1 DEF Parado
    <3>2. personajes'[p].id = personajes[p].id /\ personajes[p].pos.x <= personajes'[p].pos.x
          /\ personajes[p].pos.y <= personajes'[p].pos.y /\ personajes'[p].pos \in Fila
      BY <1>1, <1>3, <1>4, Numeros DEF Orden, OrdenVivos, NoPosterior, Pos, Fila
    <3>3. personajes[p].pos.x \in Nat /\ personajes[p].pos.y \in Nat
          /\ personajes'[p].pos.x \in Nat /\ personajes'[p].pos.y \in Nat
          /\ t.x \in Nat \cup {SinLeer} /\ t.y \in Nat \cup {SinLeer}
      BY <1>3, <3>2, Numeros DEF Fila
    <3>4. /\ t.x # SinLeer => bbdd[personajes[p].id].x <= t.x /\ t.x <= personajes[p].pos.x
          /\ t.y # SinLeer => bbdd[personajes[p].id].y <= t.y /\ t.y <= personajes[p].pos.y
      BY <2>1 DEF Orden, OrdenGuardados
    <3>5. /\ t.x # SinLeer => t.x <= personajes'[p].pos.x
          /\ t.y # SinLeer => t.y <= personajes'[p].pos.y
      BY <3>2, <3>3, <3>4
    <3>. QED
      BY <2>1, <3>1, <3>2, <3>4, <3>5
  <2>2. CASE t.per # p
    <3>1. personajes'[t.per] = personajes[t.per]
      BY <1>1, <2>2, Numeros
    <3>2. Parado(t.per)' => Parado(t.per)
      BY <1>1, <1>2, <1>4, <2>2 DEF Parado
    <3>. QED
      BY <3>1, <3>2 DEF Orden, OrdenGuardados
  <2>. QED
    BY <2>1, <2>2
<1>. QED
  BY <1>5, <1>7, <1>8, <1>9 DEF Orden

LEMMA OrdenLibera ==
  ASSUME Login, Paciencia, Objetos, Orden, NEW d \in Dirs, Libera(d), [Next]_vars
  PROVE  Orden'
<1>1. /\ UNCHANGED <<personajes, bbdd, movs>> /\ inact[d] >= 2 /\ Cargando' = Cargando
      /\ Guardando' = Guardando \cup GuardadoFinal(d)
      /\ \A t \in GuardadoFinal(d) : t.x = SinLeer /\ t.y = SinLeer
      /\ \A e \in Dirs : /\ Activo(e)' = IF e = d THEN Nadie ELSE Activo(e)
                         /\ inact'[e] = IF e = d THEN 0 ELSE inact[e]
  BY LiberaMarco
<1>2. \A p \in Vivos' : p \in Vivos
  <2>1. \A t \in tareas : ~Activa(t)
    BY DEF Libera, Activa
  <2>. QED
    BY <2>1, VivosMarco
<1>3. OrdenFilas'
  BY <1>1 DEF Orden, OrdenFilas
<1>4. OrdenVivos'
  BY <1>1, <1>2 DEF Orden, OrdenVivos
<1>5. OrdenCargas'
  BY <1>1 DEF Orden, OrdenCargas
<1>6. ASSUME NEW t \in Guardando, Parado(t.per)' PROVE Parado(t.per)
  <2>. SUFFICES ASSUME NEW e \in Dirs, Activo(e) = t.per PROVE inact[e] >= 1
    BY DEF Parado
  <2>1. CASE e = d
    BY <1>1, <2>1, Hechos
  <2>2. CASE e # d
    BY <1>1, <1>6, <2>2 DEF Parado
  <2>. QED
    BY <2>1, <2>2
<1>7. OrdenGuardados'
  BY <1>1, <1>6 DEF Orden, OrdenGuardados
<1>. QED
  BY <1>3, <1>4, <1>5, <1>7 DEF Orden

LEMMA OrdenActiva ==
  ASSUME Login, Objetos, Orden, NEW t \in tareas, Activa(t)
  PROVE  Orden'
<1>. DEFINE nuevo == Len(personajes) + 1
<1>1. /\ UNCHANGED <<inact, bbdd, movs>>
      /\ Guardando' = Guardando /\ Cargando' = Cargando \ {t}
      /\ t \in Cargando /\ t.leido # <<>> /\ t.id \in Ids
      /\ personajes'[nuevo].id = t.id /\ personajes'[nuevo].pos = t.leido[1]
      /\ \A p \in 1..Len(personajes) : personajes'[p] = personajes[p]
  BY ActivaMarco
<1>2. \A p \in Vivos' : (p \in Vivos /\ personajes'[p] = personajes[p]) \/ p = nuevo
  BY NuevoVivo
<1>. HIDE DEF nuevo
<1>3. personajes'[nuevo].pos = bbdd[t.id]
  BY <1>1 DEF Orden, OrdenCargas
<1>4. OrdenFilas'
  BY <1>1 DEF Orden, OrdenFilas
<1>5. OrdenVivos'
  <2>1. NoPosterior(bbdd[t.id], bbdd[t.id])
    BY <1>1, Numeros DEF NoPosterior, Fila
  <2>2. NoPosterior(bbdd[t.id], Pos(movs[t.id]))
    BY <1>1 DEF Orden, OrdenFilas
  <2>. QED
    BY <1>1, <1>2, <1>3, <2>1, <2>2 DEF Orden, OrdenVivos
<1>6. OrdenCargas'
  BY <1>1 DEF Orden, OrdenCargas
<1>7. ASSUME NEW s \in Guardando, Parado(s.per)' PROVE Parado(s.per)
  <2>1. \A d \in Dirs : sesionesActivas[d] = t.jug => Activo(d) = Nadie
    BY <1>1 DEF Objetos, CargaEnPlazo, Activo
  <2>2. s.per # Nadie
    BY Hechos DEF Nadie
  <2>3. \A d \in Dirs : Activo(d) = s.per => Activo(d)' = s.per
    BY <2>1, <2>2, ActivaMarco
  <2>. QED
    BY <1>1, <1>7, <2>3 DEF Parado
<1>8. OrdenGuardados'
  <2>1. \A s \in Guardando : personajes'[s.per] = personajes[s.per]
    BY <1>1, Hechos
  <2>. QED
    BY <1>1, <1>7, <2>1 DEF Orden, OrdenGuardados
<1>. QED
  BY <1>4, <1>5, <1>6, <1>8 DEF Orden

LEMMA OrdenLee ==
  ASSUME Login, Objetos, Orden, NEW t \in tareas, LeeX(t) \/ LeeY(t)
  PROVE  Orden'
<1>1. /\ UNCHANGED <<sesionesActivas, inact, jugadores, personajes, bbdd, movs>>
      /\ Cargando' = Cargando /\ t \in Guardando
  BY LeeMarco
<1>2. PICK w : /\ Guardando' = (Guardando \ {t}) \cup {w} /\ w.per = t.per
               /\ \/ w.x = t.x
                  \/ t.x = SinLeer /\ w.x = personajes[t.per].pos.x
               /\ \/ w.y = t.y
                  \/ t.y = SinLeer /\ w.y = personajes[t.per].pos.y
  BY LeeMarco
<1>3. \A e \in Dirs : Activo(e)' = Activo(e)
  BY <1>1 DEF Activo
<1>4. Vivos' = Vivos
  BY <1>1, <1>2, <1>3 DEF Vivos
<1>5. OrdenFilas' /\ OrdenVivos' /\ OrdenCargas'
  BY <1>1, <1>4 DEF Orden, OrdenFilas, OrdenVivos, OrdenCargas
<1>6. \A p : Parado(p)' <=> Parado(p)
  BY <1>1, <1>3 DEF Parado
<1>7. LET p == personajes[t.per] IN
      /\ bbdd[p.id].x <= p.pos.x /\ bbdd[p.id].y <= p.pos.y
      /\ p.pos.x \in Nat /\ p.pos.y \in Nat
  BY <1>1, Numeros DEF Orden, OrdenVivos, NoPosterior, Fila
<1>8. LET p == personajes[w.per] IN
      /\ w.x # SinLeer => bbdd[p.id].x <= w.x /\ w.x <= p.pos.x
      /\ w.y # SinLeer => bbdd[p.id].y <= w.y /\ w.y <= p.pos.y
      /\ Parado(w.per) => w.x \in {SinLeer, p.pos.x} /\ w.y \in {SinLeer, p.pos.y}
  BY <1>1, <1>2, <1>7 DEF Orden, OrdenGuardados
<1>9. OrdenGuardados'
  BY <1>1, <1>2, <1>6, <1>8 DEF Orden, OrdenGuardados
<1>. QED
  BY <1>5, <1>9 DEF Orden

\* An UPDATE never takes a row back, and the other save of the same object, if any, has
\* the position this one writes.
LEMMA OrdenEscribe ==
  ASSUME Login, Objetos, Orden, NEW t \in tareas, Actualiza(t) \/ FallaSQL(t)
  PROVE  Orden' /\ \A c \in Ids : NoPosterior(bbdd[c], bbdd'[c])
<1>. DEFINE p == personajes[t.per]
<1>1. /\ UNCHANGED <<sesionesActivas, inact, jugadores, personajes, movs>>
      /\ Cargando' = Cargando /\ t \in Guardando /\ Guardando' = Guardando \ {t}
      /\ t.x # SinLeer /\ t.y # SinLeer
  BY EscribeMarco
<1>2. \A e \in Dirs : Activo(e)' = Activo(e)
  BY <1>1 DEF Activo
<1>3. Vivos' \subseteq Vivos /\ t.per \in Vivos
  BY <1>1, <1>2 DEF Vivos
<1>4. \A q : Parado(q)' <=> Parado(q)
  BY <1>1, <1>2 DEF Parado
<1>5. \A c \in Ids : NoPosterior(bbdd[c], bbdd[c])
  BY Numeros DEF NoPosterior, Fila
<1>6. CASE UNCHANGED bbdd
  <2>1. OrdenFilas' /\ OrdenVivos' /\ OrdenCargas'
    BY <1>1, <1>3, <1>6 DEF Orden, OrdenFilas, OrdenVivos, OrdenCargas
  <2>2. OrdenGuardados'
    BY <1>1, <1>4, <1>6 DEF Orden, OrdenGuardados
  <2>. QED
    BY <1>5, <1>6, <2>1, <2>2 DEF Orden
<1>7. CASE /\ p.id \in Ids /\ bbdd'[p.id] = [x |-> t.x, y |-> t.y]
           /\ \A b \in Ids : b # p.id => bbdd'[b] = bbdd[b]
  <2>. DEFINE c == p.id
  <2>1. /\ bbdd[c].x <= t.x /\ t.x <= p.pos.x /\ bbdd[c].y <= t.y /\ t.y <= p.pos.y
        /\ Parado(t.per) => t.x = p.pos.x /\ t.y = p.pos.y
    BY <1>1 DEF Orden, OrdenGuardados
  <2>2. NoPosterior(bbdd[c], bbdd'[c]) /\ NoPosterior(bbdd'[c], p.pos)
        /\ bbdd'[c].x = t.x /\ bbdd'[c].y = t.y
    BY <1>7, <2>1 DEF NoPosterior
  <2>3. NoPosterior(p.pos, Pos(movs[c]))
    BY <1>3 DEF Orden, OrdenVivos
  <2>4. NoPosterior(bbdd'[c], Pos(movs[c]))
    <3>1. t.x \in Nat /\ t.y \in Nat
      BY <1>1, Numeros
    <3>2. p.pos.x \in Nat /\ p.pos.y \in Nat /\ movs[c] \in Nat
      BY <1>3, <1>7, Numeros DEF Fila
    <3>3. p.pos.x <= movs[c] /\ p.pos.y <= movs[c]
      BY <2>3 DEF NoPosterior, Pos
    <3>4. t.x <= movs[c] /\ t.y <= movs[c]
      BY <2>1, <3>1, <3>2, <3>3
    <3>. QED
      BY <2>2, <3>4 DEF NoPosterior, Pos
  <2>5. \A q \in Vivos : personajes[q].id = c => q = t.per
    BY <1>3 DEF Objetos, Exclusividad
  <2>6. OrdenFilas'
    BY <1>1, <1>7, <2>4 DEF Orden, OrdenFilas
  <2>7. OrdenVivos'
    BY <1>1, <1>3, <1>7, <2>2, <2>3, <2>5, Numeros DEF Orden, OrdenVivos
  <2>8. OrdenCargas'
    <3>1. \A s \in Cargando : s.id # c /\ s.id \in Ids
      BY <1>3, Numeros DEF Objetos, Exclusividad
    <3>. QED
      BY <1>1, <1>7, <3>1 DEF Orden, OrdenCargas
  <2>9. OrdenGuardados'
    <3>. SUFFICES ASSUME NEW s \in Guardando, s # t
                  PROVE  LET q == personajes[s.per] IN
                         /\ s.x # SinLeer => bbdd'[q.id].x <= s.x /\ s.x <= q.pos.x
                         /\ s.y # SinLeer => bbdd'[q.id].y <= s.y /\ s.y <= q.pos.y
                         /\ Parado(s.per) => s.x \in {SinLeer, q.pos.x}
                                             /\ s.y \in {SinLeer, q.pos.y}
      BY <1>1, <1>4 DEF OrdenGuardados
    <3>1. CASE s.per = t.per
      <4>1. Parado(t.per)
        BY <1>1, <3>1, DosGuardados DEF Objetos
      <4>2. bbdd'[c].x = p.pos.x /\ bbdd'[c].y = p.pos.y /\ p.pos.x \in Nat /\ p.pos.y \in Nat
        BY <1>3, <2>1, <2>2, <4>1, Numeros DEF Fila
      <4>. QED
        BY <3>1, <4>1, <4>2 DEF Orden, OrdenGuardados
    <3>2. CASE s.per # t.per
      <4>1. personajes[s.per].id # c /\ personajes[s.per].id \in Ids
        BY <2>5, <3>2, Numeros
      <4>. QED
        BY <1>7, <4>1 DEF Orden, OrdenGuardados
    <3>. QED
      BY <3>1, <3>2
  <2>10. \A b \in Ids : NoPosterior(bbdd[b], bbdd'[b])
    BY <1>5, <1>7, <2>2
  <2>. QED
    BY <2>6, <2>7, <2>8, <2>9, <2>10 DEF Orden
<1>. QED
  BY <1>6, <1>7, EscribeMarco

LEMMA OrdenAutoguardado ==
  ASSUME Login, Paciencia, Objetos, Orden, Autoguardado, [Next]_vars
  PROVE  Orden'
<1>1. UNCHANGED <<personajes, bbdd, movs>>
  BY AutoguardadoMarco
<1>2. \A p \in Vivos' : p \in Vivos
  <2>1. \A t \in Guardando' : t.per \in Vivos
    BY AutoguardadoMarco, VivosSon
  <2>2. \A d \in Dirs : Activo(d)' = Activo(d)
    BY AutoguardadoMarco
  <2>. QED
    BY <2>1, <2>2, VivosSon DEF Vivos
<1>3. OrdenFilas' /\ OrdenVivos'
  BY <1>1, <1>2 DEF Orden, OrdenFilas, OrdenVivos
<1>4. OrdenCargas'
  <2>1. \A w \in Cargando' : \E t \in Cargando : w.id = t.id /\ w.leido = t.leido
    BY AutoguardadoMarco
  <2>. QED
    BY <1>1, <2>1 DEF Orden, OrdenCargas
<1>5. OrdenGuardados'
  <2>1. \A t \in Guardando : t.origen = "final"
    BY AutoguardadoMarco, Numeros DEF Objetos, Guardados
  <2>2. \A t \in Guardando : Parado(t.per)
    BY <2>1, FinalParado DEF Objetos
  <2>3. \A w \in Guardando' : \/ w.x = SinLeer /\ w.y = SinLeer
                              \/ \E t \in Guardando : w.per = t.per /\ w.x = t.x /\ w.y = t.y
    BY AutoguardadoMarco
  <2>. QED
    BY <1>1, <2>2, <2>3 DEF Orden, OrdenGuardados
<1>. QED
  BY <1>3, <1>4, <1>5 DEF Orden

LEMMA OrdenReinicia ==
  ASSUME Login, Orden, Reinicia
  PROVE  Orden'
<1>1. Cargando' = {} /\ Guardando' = {} /\ Vivos' = {} /\ UNCHANGED <<bbdd, movs>>
  BY ReiniciaMarco
<1>. QED
  BY <1>1 DEF Orden, OrdenFilas, OrdenVivos, OrdenCargas, OrdenGuardados

LEMMA PasoOrden ==
  ASSUME Login, Paciencia, Objetos, Orden, [Next]_vars
  PROVE  Orden'
  BY PasosPosicion, OrdenAjeno, OrdenMueve, OrdenLibera, OrdenActiva, OrdenLee, OrdenEscribe,
     OrdenAutoguardado, OrdenReinicia

-----------------------------------------------------------------------------
(* The last position *)

GuardadosDe(p, o) == {t \in Guardando : t.per = p /\ t.origen = o}

Limpia(c) == bbdd[c] = ultimo[c]

\* The row of a character nothing keeps has its last position,
AlcanzaFilas == \A c \in Ids : (\A p \in Vivos : personajes[p].id # c) => Limpia(c)

\* and so has its object, while there is one.
AlcanzaVivos == \A p \in Vivos : personajes[p].pos = ultimo[personajes[p].id]

\* The two auto-saves after the last movement and the save of the release are three
\* chances: each has failed or is under way if the row has not the last position.
AlcanzaActivos ==
  \A d \in Dirs : Activo(d) # Nadie /\ ~Limpia(personajes[Activo(d)].id) =>
    /\ inact[d] = 1 => GuardadosDe(Activo(d), "auto") # {} \/ fallos >= 1
    /\ inact[d] >= 2 => \/ GuardadosDe(Activo(d), "auto") # {} /\ fallos >= 1
                        \/ fallos >= 2

AlcanzaLiberados ==
  \A t \in Guardando :
    (\A d \in Dirs : Activo(d) # t.per) /\ ~Limpia(personajes[t.per].id) =>
      \/ fallos >= 1 /\ GuardadosDe(t.per, "auto") # {} /\ GuardadosDe(t.per, "final") # {}
      \/ fallos >= 2

Alcanza ==
  fallos <= 2 => AlcanzaFilas /\ AlcanzaVivos /\ AlcanzaActivos /\ AlcanzaLiberados

LEMMA AlcanzaAjeno ==
  ASSUME Login, Alcanza, Ajeno
  PROVE  Alcanza'
<1>. SUFFICES ASSUME fallos' <= 2
              PROVE  AlcanzaFilas' /\ AlcanzaVivos' /\ AlcanzaActivos' /\ AlcanzaLiberados'
  BY DEF Alcanza
<1>1. /\ UNCHANGED <<personajes, bbdd, ultimo>> /\ Vivos' = Vivos /\ Guardando' = Guardando
      /\ \A d \in Dirs : Activo(d)' = Activo(d)
  BY AjenoMarco DEF Ajeno
<1>2. fallos <= fallos' /\ fallos \in Nat /\ fallos' \in Nat
  BY Numeros DEF Ajeno
<1>3. AlcanzaFilas /\ AlcanzaVivos /\ AlcanzaActivos /\ AlcanzaLiberados
  BY <1>2 DEF Alcanza
<1>4. ASSUME NEW d \in Dirs, inact'[d] >= 1 PROVE inact'[d] = inact[d] /\ inact[d] \in Nat
  <2>1. inact'[d] \in {0, inact[d]}
    BY DEF Ajeno
  <2>2. inact[d] \in 0..3
    BY Hechos
  <2>. QED
    BY <1>4, <2>1, <2>2
<1>5. \A c : Limpia(c)' <=> Limpia(c)
  BY <1>1 DEF Limpia
<1>6. \A p, o : GuardadosDe(p, o)' = GuardadosDe(p, o)
  BY <1>1 DEF GuardadosDe
<1>7. AlcanzaFilas' /\ AlcanzaVivos'
  BY <1>1, <1>3, <1>5 DEF AlcanzaFilas, AlcanzaVivos
<1>8. AlcanzaActivos'
  <2>. SUFFICES ASSUME NEW d \in Dirs, Activo(d) # Nadie, ~Limpia(personajes[Activo(d)].id)
                PROVE  /\ inact'[d] = 1 => GuardadosDe(Activo(d), "auto") # {} \/ fallos' >= 1
                       /\ inact'[d] >= 2 => \/ GuardadosDe(Activo(d), "auto") # {} /\ fallos' >= 1
                                            \/ fallos' >= 2
    BY <1>1, <1>5, <1>6 DEF AlcanzaActivos
  <2>1. inact'[d] = 1 => inact[d] = 1
    BY <1>4
  <2>2. inact'[d] >= 2 => inact[d] >= 2
    <3>1. inact'[d] \in {0, inact[d]}
      BY DEF Ajeno
    <3>. QED
      BY <3>1
  <2>3. /\ inact[d] = 1 => GuardadosDe(Activo(d), "auto") # {} \/ fallos >= 1
        /\ inact[d] >= 2 => \/ GuardadosDe(Activo(d), "auto") # {} /\ fallos >= 1
                            \/ fallos >= 2
    BY <1>3 DEF AlcanzaActivos
  <2>. QED
    BY <1>2, <2>1, <2>2, <2>3
<1>9. AlcanzaLiberados'
  <2>1. /\ fallos >= 1 => fallos' >= 1
        /\ fallos >= 2 => fallos' >= 2
    BY <1>2
  <2>. QED
    BY <1>1, <1>3, <1>5, <1>6, <2>1 DEF AlcanzaLiberados
<1>. QED
  BY <1>7, <1>8, <1>9

LEMMA AlcanzaMueve ==
  ASSUME Login, Objetos, Alcanza, NEW d \in Dirs, Mueve(d), Activo(d) # Nadie
  PROVE  Alcanza'
<1>. DEFINE p == Activo(d)
            c == personajes[p].id
            n == movs[c] + 1
<1>1. /\ UNCHANGED <<sesionesActivas, jugadores, bbdd, fallos>>
      /\ \A e \in Dirs : inact'[e] = IF e = d THEN 0 ELSE inact[e]
      /\ Guardando' = Guardando
      /\ p \in 1..Len(personajes) /\ c \in Ids
      /\ personajes'[p].id = c /\ personajes'[p].pos = Pos(n)
      /\ \A q \in 1..Len(personajes) : q # p => personajes'[q] = personajes[q]
      /\ \A b \in Ids : ultimo'[b] = IF b = c THEN Pos(n) ELSE ultimo[b]
  BY MueveMarco
<1>2. \A e \in Dirs : Activo(e)' = Activo(e)
  BY <1>1 DEF Activo
<1>3. Vivos' = Vivos /\ p \in Vivos
  BY <1>1, <1>2 DEF Vivos
<1>4. personajes[p].id = c /\ Activo(d) = p
  OBVIOUS
<1>. HIDE DEF p, c, n
<1>5. \A q \in Vivos : q # p => /\ personajes'[q] = personajes[q] /\ personajes[q].id \in Ids
                                /\ personajes[q].id # c
  BY <1>1, <1>3, <1>4, Numeros DEF Objetos, Exclusividad
<1>. SUFFICES ASSUME fallos <= 2
              PROVE  AlcanzaFilas' /\ AlcanzaVivos' /\ AlcanzaActivos' /\ AlcanzaLiberados'
  BY <1>1 DEF Alcanza
<1>6. AlcanzaFilas /\ AlcanzaVivos /\ AlcanzaActivos /\ AlcanzaLiberados
  BY DEF Alcanza
<1>7. \A b \in Ids : b # c => (Limpia(b)' <=> Limpia(b))
  BY <1>1 DEF Limpia
<1>8. \A q, o : GuardadosDe(q, o)' = GuardadosDe(q, o)
  BY <1>1 DEF GuardadosDe
<1>9. AlcanzaFilas'
  <2>1. \A b \in Ids : (\A q \in Vivos : personajes'[q].id # b) =>
          b # c /\ \A q \in Vivos : personajes[q].id # b
    BY <1>1, <1>3, <1>4, <1>5
  <2>. QED
    BY <1>3, <1>6, <1>7, <2>1 DEF AlcanzaFilas
<1>10. AlcanzaVivos'
  BY <1>1, <1>3, <1>5, <1>6 DEF AlcanzaVivos
<1>11. AlcanzaActivos'
  <2>. SUFFICES ASSUME NEW e \in Dirs, Activo(e) # Nadie,
                       bbdd'[personajes'[Activo(e)].id] # ultimo'[personajes'[Activo(e)].id]
                PROVE  /\ inact'[e] = 1 => GuardadosDe(Activo(e), "auto") # {} \/ fallos >= 1
                       /\ inact'[e] >= 2 => \/ GuardadosDe(Activo(e), "auto") # {} /\ fallos >= 1
                                            \/ fallos >= 2
    BY <1>1, <1>2, <1>8 DEF AlcanzaActivos, Limpia
  <2>1. CASE e = d
    BY <1>1, <2>1
  <2>2. CASE e # d
    <3>1. Activo(e) # p /\ Activo(e) \in Vivos
      BY <1>4, <2>2, Hechos, VivosSon
    <3>2. ~Limpia(personajes[Activo(e)].id)
      BY <1>5, <1>7, <3>1 DEF Limpia
    <3>. QED
      BY <1>1, <1>6, <2>2, <3>2 DEF AlcanzaActivos
  <2>. QED
    BY <2>1, <2>2
<1>12. AlcanzaLiberados'
  <2>. SUFFICES ASSUME NEW t \in Guardando, \A e \in Dirs : Activo(e) # t.per,
                       bbdd'[personajes'[t.per].id] # ultimo'[personajes'[t.per].id]
                PROVE  \/ fallos >= 1 /\ GuardadosDe(t.per, "auto") # {}
                                      /\ GuardadosDe(t.per, "final") # {}
                       \/ fallos >= 2
    BY <1>1, <1>2, <1>8 DEF AlcanzaLiberados, Limpia
  <2>1. t.per # p /\ t.per \in Vivos
    BY <1>4, VivosSon
  <2>2. ~Limpia(personajes[t.per].id)
    BY <1>5, <1>7, <2>1 DEF Limpia
  <2>. QED
    BY <1>6, <2>2 DEF AlcanzaLiberados
<1>. QED
  BY <1>9, <1>10, <1>11, <1>12

\* A session is released with the auto-saves made.
LEMMA AlcanzaLibera ==
  ASSUME Login, Paciencia, Objetos, Alcanza, NEW d \in Dirs, Libera(d), [Next]_vars
  PROVE  Alcanza'
<1>1. /\ UNCHANGED <<personajes, bbdd, ultimo, fallos>> /\ inact[d] >= 2
      /\ Guardando' = Guardando \cup GuardadoFinal(d)
      /\ \A t \in GuardadoFinal(d) : t.per = Activo(d) /\ t.origen = "final"
      /\ Activo(d) # Nadie => GuardadoFinal(d) # {}
      /\ \A e \in Dirs : /\ Activo(e)' = IF e = d THEN Nadie ELSE Activo(e)
                         /\ inact'[e] = IF e = d THEN 0 ELSE inact[e]
  BY LiberaMarco
<1>2. \A p \in Vivos' : p \in Vivos
  <2>1. \A t \in tareas : ~Activa(t)
    BY DEF Libera, Activa
  <2>. QED
    BY <2>1, VivosMarco
<1>3. \A p \in Vivos : p \in Vivos'
  <2>1. \A e \in Dirs : Activo(e) # Nadie => \/ Activo(e)' = Activo(e)
                                             \/ \E t \in Guardando' : t.per = Activo(e)
    BY <1>1
  <2>. QED
    BY <1>1, <2>1, VivosSon DEF Vivos
<1>. SUFFICES ASSUME fallos <= 2
              PROVE  AlcanzaFilas' /\ AlcanzaVivos' /\ AlcanzaActivos' /\ AlcanzaLiberados'
  BY <1>1 DEF Alcanza
<1>4. AlcanzaFilas /\ AlcanzaVivos /\ AlcanzaActivos /\ AlcanzaLiberados
  BY DEF Alcanza
<1>5. \A c : Limpia(c)' <=> Limpia(c)
  BY <1>1 DEF Limpia
<1>6. \A p, o : GuardadosDe(p, o) \subseteq GuardadosDe(p, o)'
  BY <1>1 DEF GuardadosDe
<1>7. AlcanzaFilas' /\ AlcanzaVivos'
  BY <1>1, <1>2, <1>3, <1>4, <1>5 DEF AlcanzaFilas, AlcanzaVivos
<1>8. AlcanzaActivos'
  <2>. SUFFICES ASSUME NEW e \in Dirs, e # d, NEW p, p = Activo(e), p # Nadie,
                       ~Limpia(personajes[p].id)
                PROVE  /\ inact[e] = 1 => GuardadosDe(p, "auto")' # {} \/ fallos >= 1
                       /\ inact[e] >= 2 => \/ GuardadosDe(p, "auto")' # {} /\ fallos >= 1
                                           \/ fallos >= 2
    BY <1>1, <1>5 DEF AlcanzaActivos, GuardadosDe
  <2>1. GuardadosDe(p, "auto") # {} => GuardadosDe(p, "auto")' # {}
    BY <1>6
  <2>. QED
    BY <1>4, <2>1 DEF AlcanzaActivos
<1>9. AlcanzaLiberados'
  <2>. SUFFICES ASSUME NEW t \in Guardando', \A e \in Dirs : Activo(e)' # t.per,
                       ~Limpia(personajes[t.per].id)
                PROVE  \/ fallos >= 1 /\ GuardadosDe(t.per, "auto")' # {}
                                      /\ GuardadosDe(t.per, "final")' # {}
                       \/ fallos >= 2
    BY <1>1, <1>5 DEF AlcanzaLiberados
  <2>1. CASE t.per = Activo(d) /\ Activo(d) # Nadie
    <3>1. (GuardadosDe(t.per, "auto") # {} /\ fallos >= 1) \/ fallos >= 2
      BY <1>1, <1>4, <2>1 DEF AlcanzaActivos
    <3>2. GuardadosDe(t.per, "final")' # {}
      BY <1>1, <2>1 DEF GuardadosDe
    <3>. QED
      BY <1>6, <2>1, <3>1, <3>2
  <2>2. CASE ~(t.per = Activo(d) /\ Activo(d) # Nadie)
    <3>1. t \in Guardando
      BY <1>1, <2>2, LiberaMarco
    <3>2. \A e \in Dirs : Activo(e) # t.per
      <4>1. t.per # Nadie
        BY <3>1, Hechos DEF Nadie
      <4>. QED
        BY <1>1, <2>2, <4>1
    <3>. QED
      BY <1>4, <1>6, <3>1, <3>2 DEF AlcanzaLiberados
  <2>. QED
    BY <2>1, <2>2
<1>. QED
  BY <1>7, <1>8, <1>9

\* A character is loaded when nothing else keeps it: its row has the last position.
LEMMA AlcanzaActiva ==
  ASSUME Login, Objetos, Orden, Alcanza, NEW t \in tareas, Activa(t)
  PROVE  Alcanza'
<1>. DEFINE nuevo == Len(personajes) + 1
<1>1. /\ UNCHANGED <<inact, bbdd, ultimo, fallos>>
      /\ Guardando' = Guardando /\ t \in Cargando /\ t.leido # <<>> /\ t.id \in Ids
      /\ personajes'[nuevo].id = t.id /\ personajes'[nuevo].pos = t.leido[1]
      /\ \A p \in 1..Len(personajes) : personajes'[p] = personajes[p]
      /\ \A d \in Dirs : Activo(d)' = IF sesionesActivas[d] = t.jug THEN nuevo ELSE Activo(d)
  BY ActivaMarco
<1>2. \A p \in Vivos' : (p \in Vivos /\ personajes'[p] = personajes[p]) \/ p = nuevo
  BY NuevoVivo
<1>3. \A d \in Dirs : \/ Activo(d)' = Activo(d)
                      \/ Activo(d) = Nadie /\ Activo(d)' = nuevo
  <2>1. \A d \in Dirs : sesionesActivas[d] = t.jug => Activo(d) = Nadie
    BY <1>1 DEF Objetos, CargaEnPlazo, Activo
  <2>. QED
    BY <1>1, <2>1
<1>. HIDE DEF nuevo
<1>4. \A p \in Vivos : p \in Vivos' /\ personajes'[p] = personajes[p]
  <2>1. \A p \in Vivos : p \in Vivos'
    BY <1>1, <1>3, VivosSon DEF Vivos
  <2>. QED
    BY <1>1, <2>1, Numeros
<1>. SUFFICES ASSUME fallos <= 2
              PROVE  AlcanzaFilas' /\ AlcanzaVivos' /\ AlcanzaActivos' /\ AlcanzaLiberados'
  BY <1>1 DEF Alcanza
<1>5. AlcanzaFilas /\ AlcanzaVivos /\ AlcanzaActivos /\ AlcanzaLiberados
  BY DEF Alcanza
<1>6. \A c : Limpia(c)' <=> Limpia(c)
  BY <1>1 DEF Limpia
<1>7. \A p, o : GuardadosDe(p, o)' = GuardadosDe(p, o)
  BY <1>1 DEF GuardadosDe
<1>8. Limpia(t.id) /\ personajes'[nuevo].pos = ultimo[t.id]
  <2>1. \A p \in Vivos : personajes[p].id # t.id
    BY <1>1 DEF Objetos, Exclusividad
  <2>2. Limpia(t.id)
    BY <1>1, <1>5, <2>1 DEF AlcanzaFilas
  <2>3. t.leido = <<bbdd[t.id]>>
    BY <1>1 DEF Orden, OrdenCargas
  <2>. QED
    BY <1>1, <2>2, <2>3 DEF Limpia
<1>9. AlcanzaFilas'
  BY <1>4, <1>5, <1>6 DEF AlcanzaFilas
<1>10. AlcanzaVivos'
  BY <1>1, <1>2, <1>5, <1>8 DEF AlcanzaVivos
<1>11. AlcanzaActivos'
  <2>. SUFFICES ASSUME NEW d \in Dirs, Activo(d)' # Nadie,
                       ~Limpia(personajes'[Activo(d)'].id)
                PROVE  /\ inact[d] = 1 => GuardadosDe(Activo(d)', "auto") # {} \/ fallos >= 1
                       /\ inact[d] >= 2 => \/ GuardadosDe(Activo(d)', "auto") # {} /\ fallos >= 1
                                           \/ fallos >= 2
    BY <1>1, <1>6, <1>7 DEF AlcanzaActivos
  <2>1. Activo(d)' = Activo(d) /\ Activo(d) # Nadie
    BY <1>1, <1>3, <1>8
  <2>2. ~Limpia(personajes[Activo(d)].id)
    BY <1>4, <2>1, VivosSon
  <2>. QED
    BY <1>5, <2>1, <2>2 DEF AlcanzaActivos
<1>12. AlcanzaLiberados'
  <2>. SUFFICES ASSUME NEW s \in Guardando, \A d \in Dirs : Activo(d)' # s.per,
                       ~Limpia(personajes'[s.per].id)
                PROVE  \/ fallos >= 1 /\ GuardadosDe(s.per, "auto") # {}
                                      /\ GuardadosDe(s.per, "final") # {}
                       \/ fallos >= 2
    BY <1>1, <1>6, <1>7 DEF AlcanzaLiberados
  <2>1. s.per # Nadie /\ s.per \in Vivos
    BY Hechos, VivosSon DEF Nadie
  <2>2. \A d \in Dirs : Activo(d) # s.per
    BY <1>3, <2>1
  <2>. QED
    BY <1>4, <1>5, <2>1, <2>2 DEF AlcanzaLiberados
<1>. QED
  BY <1>9, <1>10, <1>11, <1>12

LEMMA AlcanzaLee ==
  ASSUME Login, Alcanza, NEW t \in tareas, LeeX(t) \/ LeeY(t)
  PROVE  Alcanza'
<1>1. UNCHANGED <<sesionesActivas, inact, jugadores, personajes, bbdd, ultimo, fallos>>
      /\ t \in Guardando
  BY LeeMarco
<1>2. PICK w : Guardando' = (Guardando \ {t}) \cup {w} /\ w.per = t.per /\ w.origen = t.origen
  BY LeeMarco
<1>3. \A e \in Dirs : Activo(e)' = Activo(e)
  BY <1>1 DEF Activo
<1>4. Vivos' = Vivos
  BY <1>1, <1>2, <1>3 DEF Vivos
<1>5. \A p, o : GuardadosDe(p, o) # {} => GuardadosDe(p, o)' # {}
  BY <1>2 DEF GuardadosDe
<1>6. \A s \in Guardando' : \E r \in Guardando : r.per = s.per
  BY <1>1, <1>2
<1>. SUFFICES ASSUME fallos <= 2
              PROVE  AlcanzaFilas' /\ AlcanzaVivos' /\ AlcanzaActivos' /\ AlcanzaLiberados'
  BY <1>1 DEF Alcanza
<1>7. AlcanzaFilas' /\ AlcanzaVivos'
  BY <1>1, <1>4 DEF Alcanza, AlcanzaFilas, AlcanzaVivos, Limpia
<1>8. AlcanzaActivos'
  BY <1>1, <1>3, <1>5 DEF Alcanza, AlcanzaActivos, Limpia
<1>9. AlcanzaLiberados'
  BY <1>1, <1>3, <1>5, <1>6 DEF Alcanza, AlcanzaLiberados, Limpia
<1>. QED
  BY <1>7, <1>8, <1>9

LEMMA AlcanzaEscribe ==
  ASSUME Login, Objetos, Orden, Alcanza, NEW t \in tareas, Actualiza(t) \/ FallaSQL(t)
  PROVE  Alcanza'
<1>. DEFINE c == personajes[t.per].id
<1>1. /\ UNCHANGED <<sesionesActivas, inact, jugadores, personajes, ultimo>>
      /\ t \in Guardando /\ Guardando' = Guardando \ {t}
      /\ t.x # SinLeer /\ t.y # SinLeer
  BY EscribeMarco
<1>2. \A e \in Dirs : Activo(e)' = Activo(e)
  BY <1>1 DEF Activo
<1>3. /\ Vivos' \subseteq Vivos /\ t.per \in Vivos
      /\ \A p \in Vivos : p \in Vivos' \/ p = t.per
  BY <1>1, <1>2 DEF Vivos
<1>4. t.per # Nadie /\ \A e \in Dirs : Activo(e) = t.per => t.per \in Vivos'
  BY <1>1, <1>2, Hechos DEF Vivos, Nadie
<1>5. CASE /\ UNCHANGED fallos
           /\ c \in Ids /\ bbdd'[c] = [x |-> t.x, y |-> t.y]
           /\ \A b \in Ids : b # c => bbdd'[b] = bbdd[b]
  <2>. SUFFICES ASSUME fallos <= 2
                PROVE  AlcanzaFilas' /\ AlcanzaVivos' /\ AlcanzaActivos' /\ AlcanzaLiberados'
    BY <1>5 DEF Alcanza
  <2>1. AlcanzaFilas /\ AlcanzaVivos /\ AlcanzaActivos /\ AlcanzaLiberados
    BY DEF Alcanza
  <2>2. Parado(t.per) => bbdd'[c] = ultimo'[c]
    <3>1. Parado(t.per) => t.x = personajes[t.per].pos.x /\ t.y = personajes[t.per].pos.y
      BY <1>1 DEF Orden, OrdenGuardados
    <3>2. personajes[t.per].pos = ultimo[c] /\ personajes[t.per].pos \in Fila
      BY <1>3, <2>1, Numeros DEF AlcanzaVivos
    <3>3. ultimo[c] = [x |-> ultimo[c].x, y |-> ultimo[c].y]
      BY <3>2 DEF Fila
    <3>. QED
      BY <1>1, <1>5, <3>1, <3>2, <3>3
  <2>3. \A b \in Ids : b # c => (bbdd'[b] = ultimo'[b] <=> Limpia(b))
    BY <1>1, <1>5 DEF Limpia
  <2>4. \A p \in Vivos : p # t.per => personajes[p].id # c /\ personajes[p].id \in Ids
    BY <1>3, Numeros DEF Objetos, Exclusividad
  <2>5. AlcanzaFilas'
    <3>. SUFFICES ASSUME NEW b \in Ids, \A p \in Vivos' : personajes[p].id # b
                  PROVE  bbdd'[b] = ultimo'[b]
      BY <1>1 DEF AlcanzaFilas, Limpia
    <3>1. CASE b = c
      <4>1. t.per \notin Vivos'
        BY <3>1
      <4>2. Parado(t.per)
        BY <1>4, <4>1 DEF Parado
      <4>. QED
        BY <2>2, <3>1, <4>2
    <3>2. CASE b # c
      BY <1>3, <2>1, <2>3, <3>2 DEF AlcanzaFilas
    <3>. QED
      BY <3>1, <3>2
  <2>6. AlcanzaVivos'
    BY <1>1, <1>3, <2>1 DEF AlcanzaVivos
  <2>7. AlcanzaActivos'
    <3>. SUFFICES ASSUME NEW e \in Dirs, NEW p, p = Activo(e), p # Nadie,
                         bbdd'[personajes[p].id] # ultimo'[personajes[p].id]
                  PROVE  /\ inact[e] = 1 => GuardadosDe(p, "auto")' # {} \/ fallos >= 1
                         /\ inact[e] >= 2 => \/ GuardadosDe(p, "auto")' # {} /\ fallos >= 1
                                             \/ fallos >= 2
      BY <1>1, <1>2, <1>5 DEF AlcanzaActivos, Limpia, GuardadosDe
    <3>1. CASE p = t.per
      <4>1. PICK d \in Dirs : Activo(d) = t.per /\ ~(inact[d] >= 1)
        BY <2>2, <3>1 DEF Parado
      <4>2. d = e
        BY <3>1, <4>1, Hechos
      <4>3. inact[e] = 0
        <5>1. inact[e] \in 0..3
          BY Hechos
        <5>. QED
          BY <4>1, <4>2, <5>1
      <4>. QED
        BY <4>3
    <3>2. CASE p # t.per
      <4>1. ~Limpia(personajes[p].id)
        BY <2>3, <2>4, <3>2, VivosSon
      <4>2. GuardadosDe(p, "auto")' = GuardadosDe(p, "auto")
        BY <1>1, <3>2 DEF GuardadosDe
      <4>. QED
        BY <2>1, <4>1, <4>2 DEF AlcanzaActivos
    <3>. QED
      BY <3>1, <3>2
  <2>8. AlcanzaLiberados'
    <3>. SUFFICES ASSUME NEW s \in Guardando, \A e \in Dirs : Activo(e) # s.per,
                         bbdd'[personajes[s.per].id] # ultimo'[personajes[s.per].id]
                  PROVE  \/ fallos >= 1 /\ GuardadosDe(s.per, "auto")' # {}
                                        /\ GuardadosDe(s.per, "final")' # {}
                         \/ fallos >= 2
      BY <1>1, <1>2, <1>5 DEF AlcanzaLiberados, Limpia
    <3>1. s.per # t.per
      BY <2>2 DEF Parado
    <3>2. ~Limpia(personajes[s.per].id)
      BY <2>3, <2>4, <3>1, VivosSon
    <3>3. /\ GuardadosDe(s.per, "auto")' = GuardadosDe(s.per, "auto")
          /\ GuardadosDe(s.per, "final")' = GuardadosDe(s.per, "final")
      BY <1>1, <3>1 DEF GuardadosDe
    <3>. QED
      BY <2>1, <3>2, <3>3 DEF AlcanzaLiberados
  <2>. QED
    BY <2>5, <2>6, <2>7, <2>8
<1>6. CASE fallos' = fallos + 1 /\ UNCHANGED bbdd
  <2>. SUFFICES ASSUME fallos' <= 2
                PROVE  AlcanzaFilas' /\ AlcanzaVivos' /\ AlcanzaActivos' /\ AlcanzaLiberados'
    BY DEF Alcanza
  <2>0. fallos \in Nat /\ fallos <= 1
    BY <1>6, Numeros
  <2>1. AlcanzaFilas /\ AlcanzaVivos /\ AlcanzaActivos /\ AlcanzaLiberados
    BY <2>0 DEF Alcanza
  <2>2. \A b : Limpia(b)' <=> Limpia(b)
    BY <1>1, <1>6 DEF Limpia
  <2>3. AlcanzaFilas'
    <3>. SUFFICES ASSUME NEW b \in Ids, \A p \in Vivos' : personajes[p].id # b
                  PROVE  Limpia(b)
      BY <1>1, <2>2 DEF AlcanzaFilas
    <3>1. CASE \A p \in Vivos : personajes[p].id # b
      BY <2>1, <3>1 DEF AlcanzaFilas
    <3>2. CASE \E p \in Vivos : personajes[p].id = b
      <4>1. personajes[t.per].id = b /\ t.per \notin Vivos'
        BY <1>3, <3>2
      <4>2. \A e \in Dirs : Activo(e) # t.per
        BY <1>4, <4>1
      <4>3. \A s \in Guardando : s.per = t.per => s = t
        BY <1>1, <4>1 DEF Vivos
      <4>4. ~(GuardadosDe(t.per, "auto") # {} /\ GuardadosDe(t.per, "final") # {})
        BY <4>3 DEF GuardadosDe
      <4>. QED
        BY <1>1, <2>0, <2>1, <4>1, <4>2, <4>4 DEF AlcanzaLiberados
    <3>. QED
      BY <3>1, <3>2
  <2>4. AlcanzaVivos'
    BY <1>1, <1>3, <2>1 DEF AlcanzaVivos
  <2>5. AlcanzaActivos'
    <3>. SUFFICES ASSUME NEW e \in Dirs, Activo(e) # Nadie, ~Limpia(personajes[Activo(e)].id),
                         inact[e] >= 2
                  PROVE  fallos' >= 2
      BY <1>1, <1>2, <1>6, <2>0, <2>2 DEF AlcanzaActivos
    <3>1. fallos >= 1
      BY <2>0, <2>1 DEF AlcanzaActivos
    <3>. QED
      BY <1>6, <2>0, <3>1
  <2>6. AlcanzaLiberados'
    <3>. SUFFICES ASSUME NEW s \in Guardando, \A e \in Dirs : Activo(e) # s.per,
                         ~Limpia(personajes[s.per].id)
                  PROVE  fallos' >= 2
      BY <1>1, <1>2, <2>2 DEF AlcanzaLiberados
    <3>1. fallos >= 1
      BY <2>0, <2>1 DEF AlcanzaLiberados
    <3>. QED
      BY <1>6, <2>0, <3>1
  <2>. QED
    BY <2>3, <2>4, <2>5, <2>6
<1>. QED
  BY <1>5, <1>6, EscribeMarco

LEMMA VivosAutoguardado ==
  ASSUME Login, Autoguardado
  PROVE  Vivos' = Vivos
<1>1. \A d \in Dirs : Activo(d)' = Activo(d)
  BY AutoguardadoMarco
<1>2. \A w \in Guardando' : w.per \in Vivos
  BY AutoguardadoMarco, VivosSon
<1>3. ASSUME NEW t \in Guardando PROVE \E w \in Guardando' : w.per = t.per
  <2>1. [t EXCEPT !.vieja = TRUE].per = t.per
    BY Hechos DEF GuardarT
  <2>. QED
    BY <2>1, AutoguardadoMarco
<1>4. \A p : p \in Vivos' <=> \/ \E t \in Guardando' : t.per = p
                              \/ p # Nadie /\ \E d \in Dirs : Activo(d)' = p
  BY DEF Vivos
<1>5. \A p : p \in Vivos' <=> p \in Vivos
  BY <1>1, <1>2, <1>3, <1>4, VivosSon
<1>. QED
  BY <1>5

\* The auto-saves of the period before are over.
LEMMA SinAutomaticos ==
  ASSUME Login, Objetos, Autoguardado
  PROVE  \A p : GuardadosDe(p, "auto") = {}
<1>1. \A t \in Guardando : t.origen # "auto"
  BY AutoguardadoMarco DEF Objetos, Guardados
<1>. QED
  BY <1>1 DEF GuardadosDe

LEMMA AlcanzaAutoguardado ==
  ASSUME Login, Objetos, Alcanza, Autoguardado
  PROVE  Alcanza'
<1>1. UNCHANGED <<personajes, bbdd, ultimo, fallos>> /\ \A d \in Dirs : Activo(d)' = Activo(d)
  BY AutoguardadoMarco
<1>. SUFFICES ASSUME fallos <= 2
              PROVE  AlcanzaFilas' /\ AlcanzaVivos' /\ AlcanzaActivos' /\ AlcanzaLiberados'
  BY <1>1 DEF Alcanza
<1>2. AlcanzaFilas /\ AlcanzaVivos /\ AlcanzaActivos /\ AlcanzaLiberados
  BY DEF Alcanza
<1>3. \A b : Limpia(b)' <=> Limpia(b)
  BY <1>1 DEF Limpia
<1>4. AlcanzaFilas' /\ AlcanzaVivos'
  BY <1>1, <1>2, <1>3, VivosAutoguardado DEF AlcanzaFilas, AlcanzaVivos
<1>5. AlcanzaActivos'
  <2>. SUFFICES ASSUME NEW e \in Dirs, NEW p, p = Activo(e), p # Nadie,
                       ~Limpia(personajes[p].id)
                PROVE  /\ GuardadosDe(p, "auto")' # {}
                       /\ inact'[e] >= 2 => fallos >= 1
    BY <1>1, <1>3 DEF AlcanzaActivos, GuardadosDe
  <2>1. TareaGuardar(p, "auto", TRUE) \in Guardando'
    BY AutoguardadoMarco
  <2>2. GuardadosDe(p, "auto")' # {}
    BY <2>1 DEF GuardadosDe, TareaGuardar
  <2>3. inact'[e] = inact[e] + 1 /\ inact[e] \in 0..3
    BY AutoguardadoMarco, Hechos
  <2>4. /\ inact[e] = 1 => fallos >= 1
        /\ inact[e] >= 2 => fallos >= 2
    BY <1>2, SinAutomaticos DEF AlcanzaActivos
  <2>. QED
    BY <2>2, <2>3, <2>4, Numeros
<1>6. AlcanzaLiberados'
  <2>. SUFFICES ASSUME NEW w \in Guardando', \A e \in Dirs : Activo(e) # w.per,
                       ~Limpia(personajes[w.per].id)
                PROVE  fallos >= 2
    BY <1>1, <1>3 DEF AlcanzaLiberados
  <2>1. PICK t \in Guardando : w.per = t.per
    BY AutoguardadoMarco
  <2>. QED
    BY <1>2, <2>1, SinAutomaticos DEF AlcanzaLiberados
<1>. QED
  BY <1>4, <1>5, <1>6

LEMMA AlcanzaReinicia ==
  ASSUME Login, Reinicia
  PROVE  Alcanza'
<1>1. Guardando' = {} /\ Vivos' = {} /\ ultimo' = bbdd' /\ \A d \in Dirs : Activo(d)' = Nadie
  BY ReiniciaMarco
<1>. QED
  BY <1>1 DEF Alcanza, AlcanzaFilas, AlcanzaVivos, AlcanzaActivos, AlcanzaLiberados, Limpia

LEMMA PasoAlcanza ==
  ASSUME Login, Paciencia, Objetos, Orden, Alcanza, [Next]_vars
  PROVE  Alcanza'
  BY PasosPosicion, AlcanzaAjeno, AlcanzaMueve, AlcanzaLibera, AlcanzaActiva, AlcanzaLee,
     AlcanzaEscribe, AlcanzaAutoguardado, AlcanzaReinicia

-----------------------------------------------------------------------------
(* What a crash loses *)

OrdenHistoria ==
  \A c \in Ids : NoPosterior(ahora[c], ultimo[c]) /\ NoPosterior(ultimo[c], Pos(movs[c]))

\* The row has the position of the last auto-save, or a save of then is under way.
UltimoAutoguardado ==
  \A c \in Ids :
    \/ NoPosterior(ahora[c], bbdd[c])
    \/ \E t \in Guardando :
         /\ t.vieja /\ personajes[t.per].id = c
         /\ t.x # SinLeer => ahora[c].x <= t.x
         /\ t.y # SinLeer => ahora[c].y <= t.y

Perdida == OrdenHistoria /\ PerdidaAcotada /\ (fallos = 0 => UltimoAutoguardado)

\* Nothing in memory or in a row is ahead of the last position.
Rezago ==
  /\ \A c \in Ids : NoPosterior(bbdd[c], ultimo[c])
  /\ \A p \in Vivos : NoPosterior(personajes[p].pos, ultimo[personajes[p].id])

Posiciones == Login /\ Objetos /\ Orden /\ Alcanza /\ Perdida /\ Rezago

LEMMA Transitiva ==
  \A a, b, c \in Fila : NoPosterior(a, b) /\ NoPosterior(b, c) => NoPosterior(a, c)
  BY DEF NoPosterior, Fila

LEMMA PasoHistoria ==
  ASSUME Login, Paciencia, Orden, OrdenHistoria, [Next]_vars
  PROVE  OrdenHistoria'
<1>1. ASSUME UNCHANGED <<ahora, ultimo, movs>> PROVE OrdenHistoria'
  BY <1>1 DEF OrdenHistoria
<1>2. CASE Ajeno
  BY <1>1, <1>2 DEF Ajeno
<1>3. ASSUME NEW d \in Dirs, Libera(d) PROVE OrdenHistoria'
  BY <1>1, <1>3, LiberaMarco
<1>4. ASSUME NEW t \in tareas, Activa(t) \/ LeeX(t) \/ LeeY(t) \/ Actualiza(t) \/ FallaSQL(t)
      PROVE  OrdenHistoria'
  BY <1>1, <1>4, ActivaMarco, LeeMarco, EscribeMarco
<1>5. ASSUME NEW d \in Dirs, Mueve(d), Activo(d) # Nadie PROVE OrdenHistoria'
  <2>. SUFFICES ASSUME NEW b \in Ids
                PROVE  NoPosterior(ahora[b], ultimo'[b]) /\ NoPosterior(ultimo'[b], Pos(movs'[b]))
    BY <1>5, MueveMarco DEF OrdenHistoria
  <2>1. CASE ultimo'[b] = ultimo[b] /\ movs'[b] = movs[b]
    BY <2>1 DEF OrdenHistoria
  <2>2. CASE ultimo'[b] = Pos(movs[b] + 1) /\ movs'[b] = movs[b] + 1
    <3>1. movs[b] \in Nat /\ ahora[b] \in Fila /\ ultimo[b] \in Fila
      BY Numeros
    <3>2. /\ Pos(movs[b]) \in Fila /\ Pos(movs[b] + 1) \in Fila
          /\ NoPosterior(Pos(movs[b]), Pos(movs[b] + 1))
          /\ NoPosterior(Pos(movs[b] + 1), Pos(movs[b] + 1))
      BY <3>1 DEF Pos, Fila, NoPosterior
    <3>3. NoPosterior(ahora[b], ultimo[b]) /\ NoPosterior(ultimo[b], Pos(movs[b]))
      BY DEF OrdenHistoria
    <3>4. NoPosterior(ahora[b], Pos(movs[b]))
      BY <3>1, <3>2, <3>3, Transitiva
    <3>5. NoPosterior(ahora[b], Pos(movs[b] + 1))
      BY <3>1, <3>2, <3>4, Transitiva
    <3>. QED
      BY <2>2, <3>2, <3>5
  <2>3. \/ ultimo'[b] = ultimo[b] /\ movs'[b] = movs[b]
        \/ ultimo'[b] = Pos(movs[b] + 1) /\ movs'[b] = movs[b] + 1
    BY <1>5, MueveMarco
  <2>. QED
    BY <2>1, <2>2, <2>3
<1>6. CASE Autoguardado
  <2>1. \A b \in Ids : NoPosterior(ultimo[b], ultimo[b])
    BY Numeros DEF NoPosterior, Fila
  <2>. QED
    BY <1>6, <2>1, AutoguardadoMarco DEF OrdenHistoria
<1>7. CASE Reinicia
  <2>1. \A b \in Ids : NoPosterior(bbdd[b], bbdd[b])
    BY Numeros DEF NoPosterior, Fila
  <2>. QED
    BY <1>7, <2>1, ReiniciaMarco DEF OrdenHistoria, Orden, OrdenFilas
<1>. QED
  BY <1>2, <1>3, <1>4, <1>5, <1>6, <1>7, PasosPosicion

LEMMA PasoPerdida ==
  ASSUME Login, Paciencia, Objetos, Orden, Alcanza, Perdida, [Next]_vars
  PROVE  Perdida'
<1>0. OrdenHistoria'
  BY PasoHistoria DEF Perdida
<1>. SUFFICES ASSUME fallos' = 0
              PROVE  (\A c \in Ids : NoPosterior(antes'[c], bbdd'[c])) /\ UltimoAutoguardado'
  BY <1>0 DEF Perdida, PerdidaAcotada
<1>1. ASSUME fallos = 0
      PROVE  /\ \A c \in Ids : NoPosterior(antes[c], bbdd[c])
             /\ UltimoAutoguardado /\ OrdenHistoria
             /\ AlcanzaFilas /\ AlcanzaVivos /\ AlcanzaLiberados
  BY <1>1 DEF Perdida, PerdidaAcotada, Alcanza
<1>2. ASSUME fallos = 0, UNCHANGED <<ahora, antes, bbdd>>,
             \A p \in Vivos : personajes'[p].id = personajes[p].id,
             Guardando \subseteq Guardando'
      PROVE  (\A c \in Ids : NoPosterior(antes'[c], bbdd'[c])) /\ UltimoAutoguardado'
  <2>1. \A t \in Guardando : t.per \in Vivos
    BY Numeros
  <2>. QED
    BY <1>1, <1>2, <2>1 DEF UltimoAutoguardado
<1>3. CASE Ajeno
  BY <1>2, <1>3, Numeros DEF Ajeno
<1>4. ASSUME NEW d \in Dirs, Mueve(d), Activo(d) # Nadie
      PROVE  (\A c \in Ids : NoPosterior(antes'[c], bbdd'[c])) /\ UltimoAutoguardado'
  <2>1. /\ UNCHANGED <<bbdd, ahora, antes, fallos>> /\ Guardando' = Guardando
        /\ \A p \in 1..Len(personajes) : personajes'[p].id = personajes[p].id
    BY <1>4, MueveMarco
  <2>. QED
    BY <1>2, <2>1, Numeros
<1>5. ASSUME NEW d \in Dirs, Libera(d)
      PROVE  (\A c \in Ids : NoPosterior(antes'[c], bbdd'[c])) /\ UltimoAutoguardado'
  BY <1>2, <1>5, LiberaMarco
<1>6. ASSUME NEW t \in tareas, Activa(t)
      PROVE  (\A c \in Ids : NoPosterior(antes'[c], bbdd'[c])) /\ UltimoAutoguardado'
  <2>1. /\ UNCHANGED <<bbdd, ahora, antes, fallos>> /\ Guardando' = Guardando
        /\ \A p \in 1..Len(personajes) : personajes'[p] = personajes[p]
    BY <1>6, ActivaMarco
  <2>. QED
    BY <1>2, <2>1, Numeros
<1>7. ASSUME NEW t \in tareas, LeeX(t) \/ LeeY(t)
      PROVE  (\A c \in Ids : NoPosterior(antes'[c], bbdd'[c])) /\ UltimoAutoguardado'
  <2>1. UNCHANGED <<personajes, bbdd, ahora, antes, fallos>> /\ t \in Guardando
    BY <1>7, LeeMarco
  <2>2. PICK w : /\ Guardando' = (Guardando \ {t}) \cup {w}
                 /\ w.per = t.per /\ w.vieja = t.vieja
                 /\ \/ w.x = t.x
                    \/ t.x = SinLeer /\ w.x = personajes[t.per].pos.x
                 /\ \/ w.y = t.y
                    \/ t.y = SinLeer /\ w.y = personajes[t.per].pos.y
    BY <1>7, LeeMarco
  <2>3. LET p == personajes[t.per] IN
        ahora[p.id].x <= p.pos.x /\ ahora[p.id].y <= p.pos.y
    <3>1. t.per \in Vivos /\ personajes[t.per].id \in Ids
      BY <2>1, Numeros
    <3>2. personajes[t.per].pos = ultimo[personajes[t.per].id]
      BY <1>1, <2>1, <3>1 DEF AlcanzaVivos
    <3>. QED
      BY <1>1, <2>1, <3>1, <3>2 DEF OrdenHistoria, NoPosterior
  <2>. SUFFICES ASSUME NEW c \in Ids
                PROVE  \/ NoPosterior(ahora[c], bbdd[c])
                       \/ \E s \in Guardando' :
                            /\ s.vieja /\ personajes[s.per].id = c
                            /\ s.x # SinLeer => ahora[c].x <= s.x
                            /\ s.y # SinLeer => ahora[c].y <= s.y
    BY <1>1, <2>1 DEF UltimoAutoguardado
  <2>4. CASE NoPosterior(ahora[c], bbdd[c])
    BY <2>4
  <2>5. ASSUME NEW s \in Guardando, s.vieja, personajes[s.per].id = c,
               s.x # SinLeer => ahora[c].x <= s.x, s.y # SinLeer => ahora[c].y <= s.y
        PROVE  \E r \in Guardando' :
                 /\ r.vieja /\ personajes[r.per].id = c
                 /\ r.x # SinLeer => ahora[c].x <= r.x
                 /\ r.y # SinLeer => ahora[c].y <= r.y
    <3>1. CASE s = t
      BY <2>2, <2>3, <2>5, <3>1
    <3>2. CASE s # t
      BY <2>2, <2>5, <3>2
    <3>. QED
      BY <3>1, <3>2
  <2>. QED
    BY <1>1, <2>1, <2>4, <2>5 DEF UltimoAutoguardado
<1>8. ASSUME NEW t \in tareas, Actualiza(t) \/ FallaSQL(t)
      PROVE  (\A c \in Ids : NoPosterior(antes'[c], bbdd'[c])) /\ UltimoAutoguardado'
  <2>1. /\ UNCHANGED <<personajes, ahora, antes>> /\ t \in Guardando /\ Guardando' = Guardando \ {t}
        /\ t.x # SinLeer /\ t.y # SinLeer
    BY <1>8, EscribeMarco
  <2>2. fallos = 0 /\ bbdd'[personajes[t.per].id] = [x |-> t.x, y |-> t.y]
    BY <1>8, EscribeMarco, Numeros
  <2>3. \A c \in Ids : NoPosterior(bbdd[c], bbdd'[c])
    BY <1>8, OrdenEscribe
  <2>4. \A c \in Ids : bbdd[c] \in Fila /\ bbdd'[c] \in Fila /\ ahora[c] \in Fila /\ antes[c] \in Fila
    <3>1. \A c \in Ids : bbdd'[c] \in Fila
      BY PasoLogin, SesionesAssumption DEF Login, Base, Tipos, TipoHistoria, Punto, Fila
    <3>. QED
      BY <3>1, Numeros
  <2>5. \A c \in Ids : NoPosterior(antes'[c], bbdd'[c])
    BY <1>1, <2>1, <2>2, <2>3, <2>4, Transitiva
  <2>. SUFFICES ASSUME NEW c \in Ids
                PROVE  \/ NoPosterior(ahora[c], bbdd'[c])
                       \/ \E s \in Guardando' :
                            /\ s.vieja /\ personajes[s.per].id = c
                            /\ s.x # SinLeer => ahora[c].x <= s.x
                            /\ s.y # SinLeer => ahora[c].y <= s.y
    BY <2>1, <2>5 DEF UltimoAutoguardado
  <2>6. CASE NoPosterior(ahora[c], bbdd[c])
    BY <2>3, <2>4, <2>6, Transitiva
  <2>7. ASSUME NEW s \in Guardando, s.vieja, personajes[s.per].id = c,
               s.x # SinLeer => ahora[c].x <= s.x, s.y # SinLeer => ahora[c].y <= s.y
        PROVE  \/ NoPosterior(ahora[c], bbdd'[c])
               \/ \E r \in Guardando' :
                    /\ r.vieja /\ personajes[r.per].id = c
                    /\ r.x # SinLeer => ahora[c].x <= r.x
                    /\ r.y # SinLeer => ahora[c].y <= r.y
    <3>1. CASE s = t
      BY <2>1, <2>2, <2>7, <3>1 DEF NoPosterior
    <3>2. CASE s # t
      BY <2>1, <2>7, <3>2
    <3>. QED
      BY <3>1, <3>2
  <2>. QED
    BY <1>1, <2>2, <2>6, <2>7 DEF UltimoAutoguardado
<1>9. CASE Autoguardado
  <2>1. /\ UNCHANGED <<personajes, bbdd, fallos>> /\ ahora' = ultimo /\ antes' = ahora
        /\ \A t \in Guardando : ~t.vieja
    BY <1>9, AutoguardadoMarco
  <2>2. \A c \in Ids : NoPosterior(antes'[c], bbdd'[c])
    BY <1>1, <2>1 DEF UltimoAutoguardado
  <2>. SUFFICES ASSUME NEW c \in Ids
                PROVE  \/ NoPosterior(ultimo[c], bbdd[c])
                       \/ \E s \in Guardando' :
                            /\ s.vieja /\ personajes[s.per].id = c
                            /\ s.x # SinLeer => ultimo[c].x <= s.x
                            /\ s.y # SinLeer => ultimo[c].y <= s.y
    BY <2>1, <2>2 DEF UltimoAutoguardado
  <2>3. CASE Limpia(c)
    <3>1. NoPosterior(ultimo[c], ultimo[c])
      BY Numeros DEF NoPosterior, Fila
    <3>. QED
      BY <2>3, <3>1 DEF Limpia
  <2>4. CASE ~Limpia(c)
    <3>1. PICK p \in Vivos : personajes[p].id = c
      BY <1>1, <2>1, <2>4 DEF AlcanzaFilas
    <3>2. PICK d \in Dirs : Activo(d) = p /\ p # Nadie
      <4>1. CASE \E t \in Guardando : t.per = p /\ \A d \in Dirs : Activo(d) # p
        BY <1>1, <2>1, <2>4, <3>1, <4>1 DEF AlcanzaLiberados
      <4>2. p # Nadie
        BY <3>1, Hechos DEF Nadie
      <4>. QED
        BY <4>1, <4>2, <3>1, VivosSon
    <3>. DEFINE w == TareaGuardar(p, "auto", TRUE)
    <3>3. w \in Guardando'
      BY <1>9, <3>2, AutoguardadoMarco
    <3>4. w.vieja /\ w.per = p /\ w.x = SinLeer /\ w.y = SinLeer
      BY DEF TareaGuardar
    <3>. QED
      BY <3>1, <3>3, <3>4
  <2>. QED
    BY <2>3, <2>4
<1>10. CASE Reinicia
  <2>1. ahora' = bbdd /\ antes' = bbdd /\ bbdd' = bbdd
    BY <1>10, ReiniciaMarco
  <2>2. \A c \in Ids : NoPosterior(bbdd[c], bbdd[c])
    BY Numeros DEF NoPosterior, Fila
  <2>. QED
    BY <2>1, <2>2 DEF UltimoAutoguardado
<1>. QED
  BY <1>3, <1>4, <1>5, <1>6, <1>7, <1>8, <1>9, <1>10, PasosPosicion

LEMMA MismoActivo ==
  ASSUME UNCHANGED <<sesionesActivas, jugadores>>
  PROVE  \A d \in Dirs : Activo(d)' = Activo(d)
  BY DEF Activo

LEMMA MismosVivos ==
  ASSUME Guardando' = Guardando, \A d \in Dirs : Activo(d)' = Activo(d)
  PROVE  Vivos' = Vivos
  BY DEF Vivos

LEMMA PasoRezago ==
  ASSUME Login, Paciencia, Objetos, Orden, Rezago, [Next]_vars
  PROVE  Rezago'
<1>1. ASSUME UNCHANGED <<bbdd, ultimo>>,
             \A p \in Vivos' : p \in Vivos /\ personajes'[p] = personajes[p]
      PROVE  Rezago'
  BY <1>1 DEF Rezago
<1>2. CASE Ajeno
  BY <1>1, <1>2, AjenoMarco DEF Ajeno
<1>3. ASSUME NEW d \in Dirs, Mueve(d), Activo(d) # Nadie PROVE Rezago'
  <2>. DEFINE p == Activo(d)
              c == personajes[p].id
              n == movs[c] + 1
  <2>1. /\ UNCHANGED bbdd
        /\ p \in Vivos /\ c \in Ids /\ n \in Nat
        /\ personajes'[p].id = c /\ personajes'[p].pos = Pos(n)
        /\ \A q \in 1..Len(personajes) : q # p => personajes'[q] = personajes[q]
        /\ \A b \in Ids : ultimo'[b] = IF b = c THEN Pos(n) ELSE ultimo[b]
    <3>1. p \in Vivos
      BY <1>3, VivosSon
    <3>. QED
      BY <1>3, <3>1, MueveMarco
  <2>2. \A q \in Vivos' : q \in Vivos
    <3>1. Vivos' = Vivos
      <4>1. UNCHANGED <<sesionesActivas, jugadores>> /\ Guardando' = Guardando
        BY <1>3, MueveMarco
      <4>. QED
        BY <4>1, MismoActivo, MismosVivos
    <3>. QED
      BY <3>1
  <2>3. \A b \in Ids : NoPosterior(bbdd[b], ultimo'[b])
    <3>1. NoPosterior(bbdd[c], Pos(movs[c])) /\ movs[c] \in Nat /\ bbdd[c] \in Fila
      BY <2>1, Numeros DEF Orden, OrdenFilas
    <3>2. NoPosterior(bbdd[c], Pos(n))
      BY <3>1 DEF NoPosterior, Pos, Fila
    <3>. QED
      BY <2>1, <3>2 DEF Rezago
  <2>4. NoPosterior(Pos(n), Pos(n))
    BY <2>1 DEF NoPosterior, Pos
  <2>5. ASSUME NEW q \in Vivos' PROVE NoPosterior(personajes'[q].pos, ultimo'[personajes'[q].id])
    <3>. HIDE DEF n, c, p
    <3>1. CASE q = p
      BY <2>1, <2>4, <3>1
    <3>2. CASE q # p
      <4>1. q \in Vivos /\ personajes'[q] = personajes[q] /\ personajes[q].id \in Ids
        BY <2>1, <2>2, <2>5, <3>2, Numeros
      <4>2. personajes[q].id # c
        BY <2>1, <3>2, <4>1 DEF Objetos, Exclusividad, c
      <4>. QED
        BY <2>1, <4>1, <4>2 DEF Rezago
    <3>. QED
      BY <3>1, <3>2
  <2>. QED
    BY <2>1, <2>3, <2>5 DEF Rezago
<1>4. ASSUME NEW d \in Dirs, Libera(d) PROVE Rezago'
  <2>1. UNCHANGED <<personajes, bbdd, ultimo>>
    BY <1>4, LiberaMarco
  <2>2. ASSUME NEW p \in Vivos' PROVE p \in Vivos
    <3>1. \A e \in Dirs : Activo(e)' = IF e = d THEN Nadie ELSE Activo(e)
      BY <1>4, LiberaMarco
    <3>2. \A t \in Guardando' : \/ t \in Guardando
                                \/ t.per = Activo(d) /\ Activo(d) # Nadie
      BY <1>4, LiberaMarco
    <3>. QED
      BY <2>2, <3>1, <3>2 DEF Vivos
  <2>. QED
    BY <1>1, <2>1, <2>2
<1>5. ASSUME NEW t \in tareas, Activa(t) PROVE Rezago'
  <2>1. /\ UNCHANGED <<bbdd, ultimo>>
        /\ t \in Cargando /\ t.leido # <<>> /\ t.id \in Ids
        /\ personajes'[Len(personajes) + 1].id = t.id
        /\ personajes'[Len(personajes) + 1].pos = t.leido[1]
    BY <1>5, ActivaMarco
  <2>2. personajes'[Len(personajes) + 1].pos = bbdd[t.id]
    BY <2>1 DEF Orden, OrdenCargas
  <2>. QED
    BY <1>5, <2>1, <2>2, NuevoVivo DEF Rezago
<1>6. ASSUME NEW t \in tareas, LeeX(t) \/ LeeY(t) PROVE Rezago'
  <2>1. /\ UNCHANGED <<sesionesActivas, jugadores, personajes, bbdd, ultimo>> /\ t \in Guardando
    BY <1>6, LeeMarco
  <2>2. PICK w : Guardando' = (Guardando \ {t}) \cup {w} /\ w.per = t.per
    BY <1>6, LeeMarco
  <2>3. \A p \in Vivos' : p \in Vivos
    BY <2>1, <2>2 DEF Vivos, Activo
  <2>. QED
    BY <1>1, <2>1, <2>3
<1>7. ASSUME NEW t \in tareas, Actualiza(t) \/ FallaSQL(t) PROVE Rezago'
  <2>. DEFINE p == personajes[t.per]
  <2>1. /\ UNCHANGED <<sesionesActivas, jugadores, personajes, ultimo>>
        /\ t \in Guardando /\ Guardando' = Guardando \ {t} /\ t.x # SinLeer /\ t.y # SinLeer
    BY <1>7, EscribeMarco
  <2>2. \A q \in Vivos' : q \in Vivos
    BY <2>1 DEF Vivos, Activo
  <2>3. CASE UNCHANGED bbdd
    BY <1>1, <2>1, <2>2, <2>3
  <2>4. CASE /\ p.id \in Ids /\ bbdd'[p.id] = [x |-> t.x, y |-> t.y]
             /\ \A b \in Ids : b # p.id => bbdd'[b] = bbdd[b]
    <3>1. NoPosterior(bbdd'[p.id], p.pos) /\ bbdd'[p.id] \in Fila
      <4>1. t.x \in Nat /\ t.y \in Nat /\ t.x <= p.pos.x /\ t.y <= p.pos.y
        BY <2>1, Numeros DEF Orden, OrdenGuardados
      <4>. QED
        BY <2>4, <4>1 DEF NoPosterior, Fila
    <3>2. NoPosterior(p.pos, ultimo[p.id]) /\ p.pos \in Fila /\ ultimo[p.id] \in Fila
      BY <2>1, <2>4, Numeros DEF Rezago
    <3>3. NoPosterior(bbdd'[p.id], ultimo[p.id])
      BY <3>1, <3>2, Transitiva
    <3>. QED
      BY <2>1, <2>2, <2>4, <3>3 DEF Rezago
  <2>. QED
    BY <1>7, <2>3, <2>4, EscribeMarco
<1>8. CASE Autoguardado
  BY <1>1, <1>8, AutoguardadoMarco, VivosAutoguardado
<1>9. CASE Reinicia
  <2>1. \A b \in Ids : NoPosterior(bbdd[b], bbdd[b])
    BY Numeros DEF NoPosterior, Fila
  <2>. QED
    BY <1>9, <2>1, ReiniciaMarco DEF Rezago
<1>. QED
  BY <1>2, <1>3, <1>4, <1>5, <1>6, <1>7, <1>8, <1>9, PasosPosicion

-----------------------------------------------------------------------------
(* Theorems *)

LEMMA InicioPosiciones == Init => Posiciones
<1>. SUFFICES ASSUME Init PROVE Posiciones
  OBVIOUS
<1>1. Login
  BY InicioBase, InicioFases DEF Login
<1>2. Cargando = {} /\ Guardando = {} /\ Vivos = {} /\ \A d \in Dirs : Activo(d) = Nadie
  BY DEF Init, Cargando, Guardando, Vivos, EnVuelo, Activo
<1>3. Objetos
  BY <1>2 DEF Objetos, CargaEnPlazo, Guardados, Exclusividad
<1>4. \A c \in Ids : /\ bbdd[c] = Pos(0) /\ ultimo[c] = Pos(0) /\ ahora[c] = Pos(0)
                     /\ antes[c] = Pos(0) /\ movs[c] = 0
  BY DEF Init
<1>5. NoPosterior(Pos(0), Pos(0))
  BY DEF NoPosterior, Pos
<1>6. Orden
  BY <1>2, <1>4, <1>5 DEF Orden, OrdenFilas, OrdenVivos, OrdenCargas, OrdenGuardados
<1>7. Alcanza
  BY <1>2, <1>4 DEF Alcanza, AlcanzaFilas, AlcanzaVivos, AlcanzaActivos, AlcanzaLiberados, Limpia
<1>8. Perdida
  BY <1>4, <1>5 DEF Perdida, OrdenHistoria, PerdidaAcotada, UltimoAutoguardado
<1>9. Rezago
  BY <1>2, <1>4, <1>5 DEF Rezago
<1>. QED
  BY <1>1, <1>3, <1>6, <1>7, <1>8, <1>9 DEF Posiciones

LEMMA PasoPosiciones == Paciencia /\ Posiciones /\ [Next]_vars => Posiciones'
  BY PasoLogin, PasoObjetos, PasoOrden, PasoAlcanza, PasoPerdida, PasoRezago DEF Posiciones

\* A character has one object in memory at most, its saves and its loads are in order, and
\* the row has, or will have, the last position: manejarSeleccionPersonaje, actualizarPosicion,
\* iniciarAutoGuardado and the release of an idle session, for any number of users.
THEOREM PosicionesCorrectas ==
  ASSUME Impacientes = {}, Exclusivos = Ids
  PROVE  Spec => []Posiciones
<1>1. Posiciones /\ [Next]_vars => Posiciones'
  BY PasoPosiciones DEF Paciencia
<1>. QED
  BY <1>1, InicioPosiciones, PTL DEF Spec

\* The position in the database never goes back: no UPDATE writes an older one, although two
\* saves of one character may be under way and each reads its coordinates one by one.
THEOREM SinRetrocesos ==
  ASSUME Impacientes = {}, Exclusivos = Ids
  PROVE  Spec => NoRetrocede
<1>1. ASSUME Posiciones, [Next]_vars
      PROVE  \A c \in Ids : NoPosterior(bbdd[c], bbdd'[c])
  <2>1. Login /\ Objetos /\ Orden /\ Paciencia
    BY <1>1 DEF Posiciones, Paciencia
  <2>2. CASE UNCHANGED bbdd
    BY <2>1, <2>2, Numeros DEF NoPosterior, Fila
  <2>3. ASSUME NEW t \in tareas, Actualiza(t) \/ FallaSQL(t)
        PROVE  \A c \in Ids : NoPosterior(bbdd[c], bbdd'[c])
    BY <2>1, <2>3, OrdenEscribe
  <2>4. \/ UNCHANGED bbdd
        \/ \E t \in tareas : Actualiza(t) \/ FallaSQL(t)
    BY <1>1, <2>1, PasosPosicion, MueveMarco, LiberaMarco, ActivaMarco, LeeMarco,
       AutoguardadoMarco, ReiniciaMarco DEF Ajeno
  <2>. QED
    BY <2>2, <2>3, <2>4
<1>2. Posiciones /\ [Next]_vars => [\A c \in Ids : NoPosterior(bbdd[c], bbdd'[c])]_vars
  BY <1>1
<1>. QED
  BY <1>2, PosicionesCorrectas, PTL DEF Spec, NoRetrocede

\* Once a character is quiet, its row is the last position the server accepted, after up to
\* two failed loads or saves: it is saved three times after its last movement.
THEOREM UltimaGuardada ==
  ASSUME Impacientes = {}, Exclusivos = Ids, MaxFallos <= 2
  PROVE  Spec => []UltimaPosicion
<1>1. Posiciones => UltimaPosicion
  <2>. SUFFICES ASSUME Posiciones, NEW c \in Ids, Quieto(c) PROVE bbdd[c] = ultimo[c]
    BY DEF UltimaPosicion
  <2>1. fallos <= 2
    <3>1. fallos \in 0..MaxFallos
      BY DEF Posiciones, Login, Base, Tipos, TipoHistoria
    <3>. QED
      BY <3>1, SesionesAssumption
  <2>2. \A p \in Vivos : personajes[p].id # c
    BY VivosSon DEF Quieto, Guardando
  <2>. QED
    BY <2>1, <2>2 DEF Posiciones, Alcanza, AlcanzaFilas, Limpia
<1>. QED
  BY <1>1, PosicionesCorrectas, PTL

\* A crash loses at most the movements of the last two periods of the auto-save, if the
\* database has failed no load or save.
THEOREM PocaPerdida ==
  ASSUME Impacientes = {}, Exclusivos = Ids
  PROVE  Spec => []PerdidaAcotada
<1>1. Posiciones => PerdidaAcotada
  BY DEF Posiciones, Perdida
<1>. QED
  BY <1>1, PosicionesCorrectas, PTL
-----------------------------------------------------------------------------
(* The positions implement PosicionDurable *)

\* The open characters are those of the live objects and of the loads.
LEMMA AbiertosSon ==
  /\ \A c : c \in Abiertos <=> /\ c \in Ids
                               /\ \/ \E p \in Vivos : personajes[p].id = c
                                  \/ \E t \in Cargando : t.id = c
  /\ \A c : c \in Abiertos' <=> /\ c \in Ids
                                /\ \/ \E p \in Vivos' : personajes'[p].id = c
                                   \/ \E t \in Cargando' : t.id = c
<1>1. \A p : p \in Vivos' <=> \/ \E t \in Guardando' : t.per = p
                              \/ p # Nadie /\ \E d \in Dirs : Activo(d)' = p
  BY DEF Vivos
<1>2. \A c : c \in Abiertos <=> /\ c \in Ids
                                /\ \/ \E p \in Vivos : personajes[p].id = c
                                   \/ \E t \in Cargando : t.id = c
  BY VivosSon DEF Abiertos, Quieto, Guardando, Cargando
<1>3. \A c : c \in Abiertos' <=> /\ c \in Ids
                                 /\ \/ \E p \in Vivos' : personajes'[p].id = c
                                    \/ \E t \in Cargando' : t.id = c
  BY <1>1 DEF Abiertos, Quieto, Guardando, Cargando
<1>. QED
  BY <1>2, <1>3

\* A character that is not open has its last position in its row.
Cerrados == fallos <= 2 => \A c \in Ids : c \in Abiertos \/ bbdd[c] = ultimo[c]

LEMMA CierraAlDia == Posiciones => Cerrados
<1>. SUFFICES ASSUME Posiciones, fallos <= 2, NEW c \in Ids, c \notin Abiertos
              PROVE  bbdd[c] = ultimo[c]
  BY DEF Cerrados
<1>1. \A p \in Vivos : personajes[p].id # c
  BY AbiertosSon
<1>. QED
  BY <1>1 DEF Posiciones, Alcanza, AlcanzaFilas, Limpia

\* What the steps do to the open characters: nobody is opened but by Entra, nor closed but by
\* the step that ends the last load or save of the character.
LEMMA MismosAbiertos ==
  ASSUME Login, Vivos' = Vivos, \A p \in Vivos : personajes'[p].id = personajes[p].id,
         {t.id : t \in Cargando'} = {t.id : t \in Cargando}
  PROVE  Abiertos' = Abiertos
<1>1. \A c : (\E t \in Cargando' : t.id = c) <=> (\E t \in Cargando : t.id = c)
  OBVIOUS
<1>2. \A c : c \in Abiertos' <=> c \in Abiertos
  BY <1>1, AbiertosSon
<1>3. Abiertos \subseteq Ids /\ Abiertos' \subseteq Ids
  BY AbiertosSon
<1>. QED
  BY <1>2, <1>3

LEMMA QuizaUnoMenos ==
  ASSUME Login, NEW b, b \in Abiertos, Vivos' \subseteq Vivos,
         \A p \in Vivos : personajes'[p].id = personajes[p].id,
         \A p \in Vivos : p \in Vivos' \/ personajes[p].id = b,
         \A w \in Cargando' : \E t \in Cargando : t.id = w.id,
         \A t \in Cargando : t.id = b \/ \E w \in Cargando' : t.id = w.id
  PROVE  Abiertos' = Abiertos \/ Abiertos' = Abiertos \ {b}
<1>1. \A c : c # b => (c \in Abiertos' <=> c \in Abiertos)
  BY AbiertosSon
<1>2. CASE b \in Abiertos'
  BY <1>1, <1>2
<1>3. CASE b \notin Abiertos'
  BY <1>1, <1>3
<1>. QED
  BY <1>2, <1>3

\* Every step is one of PosicionDurable or leaves its variables alone.
PasoDurable == [Durable!Next]_(Durable!vars)

LEMMA DurableQuieto ==
  ASSUME UNCHANGED <<ultimo, bbdd, ahora, antes, fallos>>, Abiertos' = Abiertos
  PROVE  PasoDurable
  BY DEF PasoDurable, Durable!vars

\* manejarSeleccionPersonaje opens a character.
LEMMA DurableEntra ==
  ASSUME Login, Paciencia, NEW d \in Dirs, NEW c \in Ids, Entra(d, c)
  PROVE  PasoDurable
<1>1. /\ UNCHANGED <<sesionesActivas, jugadores, personajes, bbdd, ultimo, ahora, antes, fallos>>
      /\ Guardando' = Guardando /\ Quieto(c)
  BY EntraMarco
<1>2. PICK t : Cargando' = Cargando \cup {t} /\ t.id = c
  BY EntraMarco
<1>3. Vivos' = Vivos
  BY <1>1, MismoActivo, MismosVivos
<1>4. \A b : b \in Abiertos' <=> b \in Abiertos \/ b = c
  BY <1>1, <1>2, <1>3, AbiertosSon
<1>5. Abiertos' = Abiertos \cup {c}
  BY <1>4
<1>6. c \notin Abiertos
  BY <1>1 DEF Abiertos
<1>7. Durable!Abre(c)
  BY <1>1, <1>5, <1>6 DEF Durable!Abre
<1>. QED
  BY <1>7 DEF PasoDurable, Durable!Next

\* A load that is read changes nothing, and one that fails may close its character.
LEMMA DurableConsulta ==
  ASSUME Login, Paciencia, Cerrados', NEW t \in tareas, Consulta(t) \/ FallaConsulta(t)
  PROVE  PasoDurable
<1>1. /\ UNCHANGED <<sesionesActivas, jugadores, personajes, bbdd, ultimo, ahora, antes>>
      /\ Guardando' = Guardando /\ t \in Cargando /\ t.id \in Ids
  <2>1. UNCHANGED <<ahora, antes>>
    BY DEF Consulta, FallaConsulta, historia
  <2>. QED
    BY <2>1, ConsultaMarco, Numeros
<1>2. Vivos' = Vivos
  BY <1>1, MismoActivo, MismosVivos
<1>3. ASSUME UNCHANGED fallos,
             NEW w, Cargando' = (Cargando \ {t}) \cup {w}, w.id = t.id
      PROVE  PasoDurable
  <2>1. {s.id : s \in Cargando'} = {s.id : s \in Cargando}
    BY <1>1, <1>3
  <2>2. Abiertos' = Abiertos
    BY <1>1, <1>2, <2>1, MismosAbiertos
  <2>. QED
    BY <1>1, <1>3, <2>2, DurableQuieto
<1>4. ASSUME fallos' = fallos + 1, Cargando' = Cargando \ {t} PROVE PasoDurable
  <2>1. t.id \in Abiertos
    BY <1>1, AbiertosSon
  <2>2. Abiertos' = Abiertos \/ Abiertos' = Abiertos \ {t.id}
    BY <1>1, <1>2, <1>4, <2>1, QuizaUnoMenos
  <2>3. Durable!QuizaCierra(t.id)
    BY <1>1, <2>1, <2>2 DEF Durable!QuizaCierra, Durable!Toleradas, Cerrados
  <2>4. Durable!Falla(t.id)
    BY <1>1, <1>4, <2>3 DEF Durable!Falla
  <2>. QED
    BY <1>1, <2>4 DEF PasoDurable, Durable!Next
<1>. QED
  BY <1>3, <1>4, ConsultaMarco

\* actualizarPosicion writes the value.
LEMMA DurableMueve ==
  ASSUME Login, Paciencia, OrdenHistoria, Login', NEW d \in Dirs, Mueve(d), Activo(d) # Nadie
  PROVE  PasoDurable
<1>. DEFINE p == Activo(d)
            c == personajes[p].id
            n == movs[c] + 1
<1>1. /\ UNCHANGED <<sesionesActivas, jugadores, bbdd, ahora, antes, fallos>>
      /\ Cargando' = Cargando /\ Guardando' = Guardando
      /\ p \in Vivos /\ c \in Ids /\ n \in Nat
      /\ personajes'[p].id = c
      /\ \A q \in 1..Len(personajes) : q # p => personajes'[q] = personajes[q]
      /\ \A b \in Ids : ultimo'[b] = IF b = c THEN Pos(n) ELSE ultimo[b]
  <2>1. p \in Vivos
    BY VivosSon
  <2>. QED
    BY <2>1, MueveMarco
<1>2. Vivos' = Vivos
  <2>1. UNCHANGED <<sesionesActivas, jugadores>> /\ Guardando' = Guardando
    BY <1>1
  <2>2. \A e \in Dirs : Activo(e)' = Activo(e)
    BY <2>1, MismoActivo
  <2>. QED
    BY <2>1, <2>2, MismosVivos
<1>3. \A q \in Vivos : personajes'[q].id = personajes[q].id
  <2>. HIDE DEF p
  <2>. QED
    BY <1>1, Numeros DEF c
<1>4. Abiertos' = Abiertos
  BY <1>1, <1>2, <1>3, MismosAbiertos
<1>5. c \in Abiertos
  BY <1>1, AbiertosSon
<1>6. n <= MaxMov
  BY DEF Mueve
<1>. HIDE DEF n, c, p
<1>7. Pos(n) \in Durable!Punto
  BY <1>1, <1>6, SesionesAssumption DEF Pos, Durable!Punto
<1>8. Durable!Detras(ultimo[c], Pos(n)) /\ Pos(n) # ultimo[c]
  <2>1. NoPosterior(ultimo[c], Pos(movs[c])) /\ movs[c] \in Nat /\ ultimo[c] \in Fila
    BY <1>1, Numeros DEF OrdenHistoria
  <2>2. ultimo[c].x <= movs[c] /\ ultimo[c].y <= movs[c] /\ ultimo[c].x \in Nat /\ ultimo[c].y \in Nat
    BY <2>1 DEF NoPosterior, Pos, Fila
  <2>. QED
    BY <2>1, <2>2 DEF Durable!Detras, Pos, n
<1>9. ultimo' = [ultimo EXCEPT ![c] = Pos(n)]
  BY <1>1 DEF Mueve, p, c, n
<1>10. Durable!Escribe(c)
  BY <1>1, <1>4, <1>5, <1>7, <1>8, <1>9 DEF Durable!Escribe
<1>. QED
  BY <1>1, <1>10 DEF PasoDurable, Durable!Next

\* The release of a session hands its character over to the final save.
LEMMA DurableLibera ==
  ASSUME Login, NEW d \in Dirs, Libera(d)
  PROVE  PasoDurable
<1>1. /\ UNCHANGED <<personajes, bbdd, ultimo, ahora, antes, fallos>>
      /\ Cargando' = Cargando /\ Guardando' = Guardando \cup GuardadoFinal(d)
      /\ \A e \in Dirs : Activo(e)' = IF e = d THEN Nadie ELSE Activo(e)
      /\ \A t \in GuardadoFinal(d) : Activo(d) # Nadie /\ t.per = Activo(d)
      /\ Activo(d) # Nadie => GuardadoFinal(d) # {}
  BY LiberaMarco
<1>2. \A p : p \in Vivos' <=> \/ \E t \in Guardando' : t.per = p
                              \/ p # Nadie /\ \E e \in Dirs : Activo(e)' = p
  BY DEF Vivos
<1>3. \A p \in Vivos' : p \in Vivos
  BY <1>1, <1>2, VivosSon
<1>4. \A p \in Vivos : p \in Vivos'
  <2>1. ASSUME NEW p, p # Nadie, p = Activo(d) PROVE p \in Vivos'
    BY <1>1, <1>2, <2>1
  <2>. QED
    BY <1>1, <1>2, <2>1, VivosSon
<1>5. Vivos' = Vivos
  BY <1>3, <1>4
<1>6. Abiertos' = Abiertos
  BY <1>1, <1>5, MismosAbiertos
<1>. QED
  BY <1>1, <1>6, DurableQuieto

\* The callback of a load hands its character over to the session.
LEMMA DurableActiva ==
  ASSUME Login, Objetos, NEW t \in tareas, Activa(t)
  PROVE  PasoDurable
<1>. DEFINE nuevo == Len(personajes) + 1
<1>1. /\ UNCHANGED <<sesionesActivas, bbdd, ultimo, ahora, antes, fallos>>
      /\ Guardando' = Guardando /\ Cargando' = Cargando \ {t}
      /\ t \in Cargando /\ t.id \in Ids /\ nuevo # Nadie
      /\ personajes'[nuevo].id = t.id
      /\ \A p \in 1..Len(personajes) : personajes'[p] = personajes[p]
      /\ \A d \in Dirs : Activo(d)' = IF sesionesActivas[d] = t.jug THEN nuevo ELSE Activo(d)
  <2>1. UNCHANGED <<ahora, antes>>
    BY DEF Activa, historia
  <2>. QED
    BY <2>1, ActivaMarco, Hechos DEF Nadie
<1>2. \A p : p \in Vivos' <=> \/ \E s \in Guardando' : s.per = p
                              \/ p # Nadie /\ \E d \in Dirs : Activo(d)' = p
  BY DEF Vivos
<1>. HIDE DEF nuevo
<1>3. nuevo \in Vivos'
  <2>1. PICK d \in Dirs : sesionesActivas[d] = t.jug
    BY <1>1 DEF Objetos, CargaEnPlazo
  <2>. QED
    BY <1>1, <1>2, <2>1
<1>4. ASSUME NEW p \in Vivos PROVE p \in Vivos' /\ personajes'[p].id = personajes[p].id
  <2>1. p \in 1..Len(personajes)
    BY Numeros
  <2>2. ASSUME NEW d \in Dirs, Activo(d) = p, p # Nadie PROVE sesionesActivas[d] # t.jug
    <3>1. jugadores[t.jug].personajeActivo = Nadie /\ t.jug # Nadie
      BY <1>1, Hechos DEF Objetos, CargaEnPlazo, Nadie
    <3>. QED
      BY <2>2, <3>1 DEF Activo
  <2>3. p \in Vivos'
    BY <1>1, <1>2, <2>2, VivosSon
  <2>. QED
    BY <1>1, <2>1, <2>3
<1>5. \A p \in Vivos' : p \in Vivos \/ p = nuevo
  BY <1>1, <1>2, VivosSon
<1>6. \A c : c \in Abiertos' <=> c \in Abiertos
  BY <1>1, <1>3, <1>4, <1>5, AbiertosSon
<1>7. Abiertos' = Abiertos
  BY <1>6, AbiertosSon
<1>. QED
  BY <1>1, <1>7, DurableQuieto

\* guardarPosicionPersonaje reads,
LEMMA DurableLee ==
  ASSUME Login, NEW t \in tareas, LeeX(t) \/ LeeY(t)
  PROVE  PasoDurable
<1>1. /\ UNCHANGED <<sesionesActivas, jugadores, personajes, bbdd, ultimo, ahora, antes, fallos>>
      /\ Cargando' = Cargando /\ t \in Guardando
  <2>1. UNCHANGED <<ahora, antes>>
    BY DEF LeeX, LeeY, historia
  <2>. QED
    BY <2>1, LeeMarco
<1>2. PICK w : Guardando' = (Guardando \ {t}) \cup {w} /\ w.per = t.per
  BY LeeMarco
<1>3. {s.per : s \in Guardando'} = {s.per : s \in Guardando}
  BY <1>1, <1>2
<1>4. Vivos' = Vivos
  BY <1>1, <1>3 DEF Vivos, Activo
<1>5. Abiertos' = Abiertos
  BY <1>1, <1>4, MismosAbiertos
<1>. QED
  BY <1>1, <1>5, DurableQuieto

\* and writes the row, or fails to; the character may be closed by it.
LEMMA DurableEscribe ==
  ASSUME Login, Objetos, Orden, Rezago, Login', Cerrados', NEW t \in tareas, Actualiza(t) \/ FallaSQL(t)
  PROVE  PasoDurable
<1>. DEFINE p == personajes[t.per]
<1>1. /\ UNCHANGED <<sesionesActivas, jugadores, personajes, ultimo, ahora, antes>>
      /\ Cargando' = Cargando /\ t \in Guardando /\ Guardando' = Guardando \ {t}
      /\ t.x # SinLeer /\ t.y # SinLeer /\ t.per \in Vivos /\ p.id \in Ids
  <2>1. UNCHANGED <<ahora, antes>>
    BY DEF Actualiza, FallaSQL, historia
  <2>. QED
    BY <2>1, EscribeMarco, Numeros
<1>2. Vivos' \subseteq Vivos /\ \A q \in Vivos : q \in Vivos' \/ q = t.per
  BY <1>1 DEF Vivos, Activo
<1>3. p.id \in Abiertos
  BY <1>1, AbiertosSon
<1>4. Abiertos' = Abiertos \/ Abiertos' = Abiertos \ {p.id}
  BY <1>1, <1>2, <1>3, QuizaUnoMenos
<1>5. Durable!QuizaCierra(p.id)
  BY <1>1, <1>3, <1>4 DEF Durable!QuizaCierra, Durable!Toleradas, Cerrados
<1>6. CASE Actualiza(t)
  <2>1. UNCHANGED fallos /\ bbdd' = [bbdd EXCEPT ![p.id] = [x |-> t.x, y |-> t.y]]
    BY <1>6 DEF Actualiza, cuentas
  <2>. DEFINE f == [x |-> t.x, y |-> t.y]
  <2>2. bbdd'[p.id] = f /\ bbdd'[p.id] \in Punto
    BY <1>1, <2>1 DEF Login, Base, Tipos, TipoHistoria
  <2>3. f \in Durable!Punto
    BY <2>2 DEF Punto, Durable!Punto
  <2>4. NoPosterior(bbdd[p.id], f)
    BY <1>1, <2>2, OrdenEscribe
  <2>5. NoPosterior(f, ultimo[p.id])
    <3>1. NoPosterior(f, p.pos) /\ f \in Fila
      <4>1. t.x \in Nat /\ t.y \in Nat /\ t.x <= p.pos.x /\ t.y <= p.pos.y
        BY <1>1, Numeros DEF Orden, OrdenGuardados
      <4>. QED
        BY <4>1 DEF NoPosterior, Fila
    <3>2. NoPosterior(p.pos, ultimo[p.id]) /\ p.pos \in Fila /\ ultimo[p.id] \in Fila
      BY <1>1, Numeros DEF Rezago
    <3>. QED
      BY <3>1, <3>2, Transitiva
  <2>6. /\ Durable!Detras(bbdd[p.id], f) /\ Durable!Detras(f, ultimo[p.id])
        /\ bbdd' = [bbdd EXCEPT ![p.id] = f]
    BY <2>1, <2>4, <2>5 DEF Durable!Detras, NoPosterior, f
  <2>. HIDE DEF f
  <2>7. Durable!Guarda(p.id)
    BY <1>1, <1>5, <2>1, <2>3, <2>6 DEF Durable!Guarda
  <2>. QED
    BY <1>1, <2>7 DEF PasoDurable, Durable!Next
<1>7. CASE FallaSQL(t)
  <2>1. UNCHANGED bbdd /\ fallos' = fallos + 1
    BY <1>7 DEF FallaSQL
  <2>2. Durable!Falla(p.id)
    BY <1>1, <1>5, <2>1 DEF Durable!Falla
  <2>. QED
    BY <1>1, <2>2 DEF PasoDurable, Durable!Next
<1>. QED
  BY <1>6, <1>7

\* iniciarAutoGuardado is the mark.
LEMMA DurableAutoguardado ==
  ASSUME Login, Autoguardado, PerdidaAcotada'
  PROVE  PasoDurable
<1>1. /\ UNCHANGED <<personajes, bbdd, ultimo, fallos>> /\ ahora' = ultimo /\ antes' = ahora
      /\ Vivos' = Vivos
  BY AutoguardadoMarco, VivosAutoguardado
<1>2. \A w \in Cargando' : \E t \in Cargando : t.id = w.id
  BY AutoguardadoMarco
<1>3. \A t \in Cargando : \E w \in Cargando' : t.id = w.id
  <2>. SUFFICES ASSUME NEW t \in Cargando PROVE \E w \in Cargando' : t.id = w.id
    OBVIOUS
  <2>1. [t EXCEPT !.vieja = TRUE].id = t.id /\ [t EXCEPT !.vieja = TRUE].tipo = t.tipo
    BY Hechos DEF CargarT
  <2>2. [t EXCEPT !.vieja = TRUE] \in tareas'
    BY DEF Autoguardado, Cargando, EnVuelo
  <2>. QED
    BY <2>1, <2>2 DEF Cargando, EnVuelo
<1>4. {t.id : t \in Cargando'} = {t.id : t \in Cargando}
  BY <1>2, <1>3
<1>5. Abiertos' = Abiertos
  BY <1>1, <1>4, MismosAbiertos
<1>6. fallos = 0 => \A c \in Ids : Durable!Detras(ahora[c], bbdd[c])
  BY <1>1 DEF PerdidaAcotada, NoPosterior, Durable!Detras
<1>7. Durable!Marca
  BY <1>1, <1>5, <1>6 DEF Durable!Marca
<1>. QED
  BY <1>7 DEF PasoDurable, Durable!Next

\* A restart is the cut.
LEMMA DurableReinicia ==
  ASSUME Login, Reinicia
  PROVE  PasoDurable
<1>1. /\ Cargando' = {} /\ Vivos' = {} /\ UNCHANGED <<bbdd, fallos>>
      /\ ultimo' = bbdd /\ ahora' = bbdd /\ antes' = bbdd
  BY ReiniciaMarco
<1>2. Abiertos' = {}
  BY <1>1, AbiertosSon
<1>3. Durable!Corta
  BY <1>1, <1>2 DEF Durable!Corta
<1>. QED
  BY <1>3 DEF PasoDurable, Durable!Next

LEMMA CadaPasoDurable ==
  ASSUME Paciencia, Posiciones, Posiciones', [Next]_vars
  PROVE  PasoDurable
<1>1. /\ Login /\ Objetos /\ Orden /\ OrdenHistoria /\ Rezago
      /\ Login' /\ PerdidaAcotada' /\ Cerrados'
  <2>1. Cerrados'
    BY CierraAlDia, PTL
  <2>. QED
    BY <2>1 DEF Posiciones, Perdida
<1>2. CASE Tranquilo
  <2>1. Vivos' = Vivos
    BY <1>2 DEF Tranquilo, Vivos, Activo
  <2>2. Abiertos' = Abiertos
    BY <1>1, <1>2, <2>1, MismosAbiertos DEF Tranquilo
  <2>. QED
    BY <1>2, <2>2, DurableQuieto DEF Tranquilo
<1>3. ASSUME NEW t \in tareas, Registra(t) PROVE PasoDurable
  <2>1. /\ UNCHANGED <<personajes, bbdd, ultimo, ahora, antes, fallos>>
        /\ Cargando' = Cargando /\ Guardando' = Guardando
        /\ \A d \in Dirs : Activo(d)' = Activo(d)
    BY <1>1, <1>3, RegistraMarco
  <2>2. Vivos' = Vivos
    BY <2>1 DEF Vivos
  <2>3. Abiertos' = Abiertos
    BY <1>1, <2>1, <2>2, MismosAbiertos
  <2>. QED
    BY <2>1, <2>3, DurableQuieto
<1>. QED
  BY <1>1, <1>2, <1>3, Pasos, DurableEntra, DurableConsulta, DurableMueve, DurableLibera,
     DurableActiva, DurableLee, DurableEscribe, DurableAutoguardado, DurableReinicia

\* The sessions keep the positions as PosicionDurable says, for any number of users and
\* characters: the value and the row of each are one register, whose row only goes forward, is
\* never ahead, follows the auto-saves and is exact when the character is closed.
THEOREM PosicionesDurables ==
  ASSUME Impacientes = {}, Exclusivos = Ids
  PROVE  Spec => PosicionGuardada
<1>1. Init => Durable!Init
  <2>. SUFFICES ASSUME Init PROVE Durable!Init
    OBVIOUS
  <2>1. Vivos = {} /\ Cargando = {}
    BY DEF Init, Vivos, Cargando, Guardando, EnVuelo, Activo
  <2>2. Abiertos = {}
    BY <2>1, AbiertosSon
  <2>. QED
    BY <2>2 DEF Init, Durable!Init, Pos
<1>2. Posiciones /\ Posiciones' /\ [Next]_vars => [Durable!Next]_(Durable!vars)
  BY CadaPasoDurable DEF Paciencia, PasoDurable
<1>. QED
  BY <1>1, <1>2, PosicionesCorrectas, PTL DEF Spec, PosicionGuardada, Durable!Spec

=============================================================================
