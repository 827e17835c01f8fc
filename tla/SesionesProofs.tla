--------------------------- MODULE SesionesProofs ---------------------------
(* Proofs about Sesiones, for any addresses, characters and bounds. *)
EXTENDS Sesiones, TLAPS

-----------------------------------------------------------------------------
(* The inductive invariant *)

Punto == [x : 0..MaxMov, y : 0..MaxMov]
Coord == (0..MaxMov) \cup {SinLeer}

JugadorT == [idCuenta : Nat, personajeActivo : 0..Len(personajes)]
PersonajeT == [id : Ids, pos : Punto]
LoginT == [tipo : {"login"}, dir : Dirs, n : Nat \ {0}, vieja : BOOLEAN,
           paso : {"consulta", "put", "ok", "error"}]
CargarT == [tipo : {"cargar"}, jug : 1..Len(jugadores), id : Ids, vieja : BOOLEAN,
            leido : {<<>>} \cup {<<f>> : f \in Punto}]
GuardarT == [tipo : {"guardar"}, per : 1..Len(personajes), origen : {"auto", "final"},
             vieja : BOOLEAN, x : Coord, y : Coord]

\* TypeOK, with the coordinates bounded by the movements.
TipoServidor ==
  /\ sesionesKcp \subseteq Dirs
  /\ inact \in [Dirs -> 0..(Inactividad + 1)]
  /\ sesionesActivas \in [Dirs -> 0..Len(jugadores)]
  /\ jugadores \in Seq(JugadorT)
  /\ personajes \in Seq(PersonajeT)

TipoTareas == tareas \subseteq LoginT \cup CargarT \cup GuardarT

TipoClientes ==
  /\ respuestas \in [Dirs -> Seq({"S_LOGIN_OK", "S_LOGIN_ERROR"})]
  /\ cliente \in [Dirs -> Escenas]
  /\ elegido \in [Dirs -> Ids \cup {Nadie}]

TipoHistoria ==
  /\ bbdd \in [Ids -> Punto]
  /\ ultimo \in [Ids -> Punto] /\ ahora \in [Ids -> Punto] /\ antes \in [Ids -> Punto]
  /\ movs \in [Ids -> 0..MaxMov]
  /\ fallos \in 0..MaxFallos /\ reinicios \in 0..MaxReinicios

Tipos == TipoServidor /\ TipoTareas /\ TipoClientes /\ TipoHistoria

\* The player registered at an address has the account of its user.
CuentaPropia ==
  \A d \in Dirs : sesionesActivas[d] # Nadie =>
    jugadores[sesionesActivas[d]].idCuenta = Cuenta[d]

\* A login is over before its session is idle, and its player is registered
\* before S_LOGIN_OK is queued.
LoginEnPlazo ==
  \A t \in EnVuelo("login") :
    /\ t.dir \in sesionesKcp
    /\ inact[t.dir] <= 1 /\ (~t.vieja => inact[t.dir] = 0)
    /\ t.paso = "ok" => sesionesActivas[t.dir] # Nadie

\* Nor is it released while the reply is on its way or in use.
RespuestaVeraz ==
  \A d \in Dirs : \A i \in 1..Len(respuestas[d]) :
    respuestas[d][i] = "S_LOGIN_OK" => sesionesActivas[d] # Nadie

Acceso ==
  \A d \in Dirs : cliente[d] \in {"acceso", "lista", "mundo"} => sesionesActivas[d] # Nadie

Base == Tipos /\ CuentaPropia /\ LoginEnPlazo /\ RespuestaVeraz /\ SinFugas /\ Acceso

-----------------------------------------------------------------------------
(* One login of a patient user *)

Pacientes == Dirs \ Impacientes

\* Where a patient user is, at most one of its login, of its reply and of its player
\* is being made.
Fase(d) ==
  /\ cliente[d] = "nuevo" => d \notin sesionesKcp
  /\ cliente[d] # "registrar"
  /\ cliente[d] \notin {"espera", "fuera"} => Logins(d) = {}
  /\ cliente[d] # "espera" => respuestas[d] = <<>>
  /\ cliente[d] \in {"login", "colgado"} => sesionesActivas[d] = Nadie
  /\ respuestas[d] \in {<<>>, <<"S_LOGIN_OK">>, <<"S_LOGIN_ERROR">>}
  /\ respuestas[d] = <<"S_LOGIN_ERROR">> => sesionesActivas[d] = Nadie
  /\ \A t \in Logins(d) :
       /\ respuestas[d] = <<>>
       /\ t.paso # "ok" => sesionesActivas[d] = Nadie
       /\ \A s \in Logins(d) : s = t

Fases == \A d \in Pacientes : Fase(d)

\* No two addresses share a JugadorServidor, nor two of these a Personaje.
SinCompartir ==
  /\ \A d, e \in Dirs : sesionesActivas[d] = sesionesActivas[e] /\ sesionesActivas[d] # Nadie
       => d = e
  /\ \A i, j \in 1..Len(jugadores) :
       jugadores[i].personajeActivo = jugadores[j].personajeActivo
       /\ jugadores[i].personajeActivo # Nadie => i = j

Cargas(d) == {t \in EnVuelo("cargar") : t.jug = sesionesActivas[d]}

\* A player gets a character only from the choice its user made.
Eleccion(d) ==
  /\ cliente[d] \notin {"mundo", "fuera"} => Activo(d) = Nadie /\ Cargas(d) = {}
  /\ cliente[d] = "mundo" =>
       /\ \A t \in Cargas(d) : t.id = elegido[d]
       /\ Activo(d) # Nadie => personajes[Activo(d)].id = elegido[d]
  /\ cliente[d] = "mundo" /\ fallos = 0 => Activo(d) # Nadie \/ Cargas(d) # {}

Elecciones == \A d \in Pacientes : Eleccion(d)

Login == Base /\ Fases /\ SinCompartir /\ Elecciones

-----------------------------------------------------------------------------
(* Base is inductive *)

LEMMA Formas ==
  ASSUME TipoTareas, NEW t \in tareas
  PROVE  /\ t.tipo = "login" => t \in LoginT
         /\ t.tipo = "cargar" => t \in CargarT
         /\ t.tipo = "guardar" => t \in GuardarT
         /\ t.tipo \in {"login", "cargar", "guardar"}
  BY DEF TipoTareas, LoginT, CargarT, GuardarT

LEMMA InicioBase == Init => Base
  BY SesionesAssumption DEF Init, Base, Tipos, TipoServidor, TipoTareas, TipoClientes,
     TipoHistoria, CuentaPropia, LoginEnPlazo, RespuestaVeraz, SinFugas, Acceso, EnVuelo,
     Pos, Punto, Escenas, Nadie, Inactividad, JugadorT, PersonajeT

LEMMA ActivoTipo ==
  ASSUME TipoServidor, NEW d \in Dirs
  PROVE  /\ Activo(d) \in 0..Len(personajes)
         /\ Activo(d) # Nadie => /\ Activo(d) \in 1..Len(personajes)
                                /\ sesionesActivas[d] \in 1..Len(jugadores)
                                /\ jugadores[sesionesActivas[d]] \in JugadorT
                                /\ personajes[Activo(d)] \in PersonajeT
<1>1. sesionesActivas[d] \in 0..Len(jugadores) /\ Len(jugadores) \in Nat /\ Len(personajes) \in Nat
  BY DEF TipoServidor
<1>2. CASE sesionesActivas[d] = Nadie
  BY <1>1, <1>2 DEF Activo, Nadie
<1>3. CASE sesionesActivas[d] # Nadie
  <2>1. sesionesActivas[d] \in 1..Len(jugadores)
    BY <1>1, <1>3 DEF Nadie
  <2>2. jugadores[sesionesActivas[d]] \in JugadorT
    BY <2>1 DEF TipoServidor
  <2>3. Activo(d) \in 0..Len(personajes)
    BY <1>3, <2>2 DEF Activo, JugadorT
  <2>4. Activo(d) # Nadie => Activo(d) \in 1..Len(personajes)
    BY <1>1, <2>3 DEF Nadie
  <2>. QED
    BY <2>1, <2>2, <2>3, <2>4 DEF TipoServidor
<1>. QED
  BY <1>2, <1>3

LEMMA GuardarTipo ==
  ASSUME NEW p \in 1..Len(personajes), NEW o \in {"auto", "final"}, NEW v \in BOOLEAN
  PROVE  TareaGuardar(p, o, v) \in GuardarT
  BY DEF TareaGuardar, GuardarT, Coord

\* The tasks keep their type while the objects they point to stay.
LEMMA TareasCrecen ==
  ASSUME TipoServidor, TipoServidor', TipoTareas,
         NEW X, X \subseteq LoginT \cup CargarT \cup GuardarT, tareas' \subseteq tareas \cup X,
         Len(jugadores) <= Len(jugadores'), Len(personajes) <= Len(personajes')
  PROVE  TipoTareas'
<1>1. Len(jugadores) \in Nat /\ Len(jugadores') \in Nat /\ Len(personajes) \in Nat
      /\ Len(personajes') \in Nat
  BY DEF TipoServidor
<1>2. LoginT' = LoginT
  BY DEF LoginT
<1>3. CargarT \subseteq CargarT'
  BY <1>1 DEF CargarT, Punto
<1>4. GuardarT \subseteq GuardarT'
  BY <1>1 DEF GuardarT, Coord
<1>. QED
  BY <1>2, <1>3, <1>4 DEF TipoTareas

LEMMA AlimentaTipo ==
  ASSUME TipoServidor, NEW d \in Dirs, Alimenta(d),
         UNCHANGED <<sesionesActivas, jugadores, personajes>>
  PROVE  TipoServidor'
  BY DEF Alimenta, TipoServidor, Inactividad, JugadorT, PersonajeT

LEMMA PasoTipos == Tipos /\ [Next]_vars => Tipos'
<1>. SUFFICES ASSUME Tipos, [Next]_vars PROVE Tipos'
  OBVIOUS
<1>. USE DEF Tipos
<1>0. ASSUME UNCHANGED <<jugadores, personajes>>, TipoServidor', TipoClientes', TipoHistoria',
             NEW X, X \subseteq LoginT \cup CargarT \cup GuardarT, tareas' \subseteq tareas \cup X
      PROVE  Tipos'
  <2>1. Len(jugadores) <= Len(jugadores') /\ Len(personajes) <= Len(personajes')
    BY <1>0 DEF TipoServidor
  <2>. QED
    BY <1>0, <2>1, TareasCrecen
<1>1. ASSUME NEW d \in Dirs, \/ Conecta(d) \/ Sale(d) \/ IrRegistro(d) \/ Volver(d)
                              \/ Recibe(d) \/ MuestraLista(d)
      PROVE  Tipos'
  <2>1. UNCHANGED <<servidor, bbdd, tareas, historia, cuentas>>
    BY <1>1 DEF Conecta, Sale, IrRegistro, Volver, Recibe, MuestraLista
  <2>2. TipoServidor' /\ TipoHistoria'
    BY <2>1 DEF servidor, historia, cuentas, TipoServidor, TipoHistoria, JugadorT, PersonajeT
  <2>3. TipoClientes'
    <3>1. CASE Conecta(d) \/ IrRegistro(d) \/ Volver(d) \/ MuestraLista(d)
      BY <3>1 DEF Conecta, IrRegistro, Volver, MuestraLista, TipoClientes, Escenas
    <3>2. CASE Sale(d)
      BY <3>2 DEF Sale, TipoClientes, Escenas
    <3>3. CASE Recibe(d)
      <4>1. respuestas' \in [Dirs -> Seq({"S_LOGIN_OK", "S_LOGIN_ERROR"})]
        BY <3>3 DEF Recibe, TipoClientes
      <4>2. cliente' \in [Dirs -> Escenas]
        BY <3>3 DEF Recibe, TipoClientes, Escenas
      <4>. QED
        BY <3>3, <4>1, <4>2 DEF Recibe, TipoClientes
    <3>. QED
      BY <1>1, <3>1, <3>2, <3>3
  <2>. QED
    BY <1>0, <2>1, <2>2, <2>3 DEF servidor
<1>2. ASSUME NEW d \in Dirs, Datagrama(d) PROVE Tipos'
  BY <1>0, <1>2, AlimentaTipo DEF Datagrama, clientes, historia, cuentas, TipoClientes, TipoHistoria
<1>3. ASSUME NEW d \in Dirs, EnviaLogin(d) PROVE Tipos'
  <2>1. PICK n \in 1..MaxLogins : tareas' = tareas \cup {TareaLogin(d, n)}
    BY <1>3 DEF EnviaLogin
  <2>2. {TareaLogin(d, n)} \subseteq LoginT
    BY SesionesAssumption DEF TareaLogin, LoginT
  <2>3. TipoServidor' /\ UNCHANGED <<jugadores, personajes>>
    BY <1>3, AlimentaTipo DEF EnviaLogin
  <2>4. TipoClientes' /\ TipoHistoria'
    BY <1>3 DEF EnviaLogin, historia, cuentas, TipoClientes, TipoHistoria, Escenas
  <2>. QED
    BY <1>0, <2>1, <2>2, <2>3, <2>4
<1>4. ASSUME NEW d \in Dirs, NEW c \in Ids, Entra(d, c) PROVE Tipos'
  <2>1. TipoServidor' /\ UNCHANGED <<jugadores, personajes>>
    BY <1>4, AlimentaTipo DEF Entra
  <2>2. TipoClientes' /\ TipoHistoria'
    BY <1>4 DEF Entra, historia, cuentas, TipoClientes, TipoHistoria, Escenas
  <2>3. CASE sesionesActivas[d] = Nadie
    BY <1>0, <1>4, <2>1, <2>2, <2>3 DEF Entra
  <2>4. CASE sesionesActivas[d] # Nadie
    <3>1. sesionesActivas[d] \in 1..Len(jugadores)
      BY <2>4 DEF TipoServidor, Nadie
    <3>2. {TareaCargar(sesionesActivas[d], c)} \subseteq CargarT
      BY <3>1 DEF TareaCargar, CargarT
    <3>. QED
      BY <1>0, <1>4, <2>1, <2>2, <2>4, <3>2 DEF Entra
  <2>. QED
    BY <2>3, <2>4
<1>5. ASSUME NEW d \in Dirs, Mueve(d) PROVE Tipos'
  <2>1. UNCHANGED <<sesionesActivas, jugadores, bbdd, tareas, respuestas, clientes, ahora, antes,
                    fallos, reinicios>> /\ Alimenta(d)
    BY <1>5 DEF Mueve
  <2>2. CASE Activo(d) = Nadie
    <3>1. UNCHANGED <<personajes, ultimo, movs>>
      BY <1>5, <2>2 DEF Mueve
    <3>. QED
      BY <1>0, <2>1, <3>1, AlimentaTipo DEF clientes, TipoClientes, TipoHistoria
  <2>3. CASE Activo(d) # Nadie
    <3>. DEFINE p == Activo(d)
                c == personajes[p].id
                n == movs[c] + 1
    <3>1. p \in 1..Len(personajes) /\ personajes[p] \in PersonajeT
      BY <2>3, ActivoTipo
    <3>2. c \in Ids /\ movs[c] \in 0..MaxMov
      BY <3>1 DEF TipoHistoria, PersonajeT
    <3>3. /\ n <= MaxMov
          /\ personajes' = [personajes EXCEPT ![p] = [@ EXCEPT !.pos = Pos(n)]]
          /\ ultimo' = [ultimo EXCEPT ![c] = Pos(n)]
          /\ movs' = [movs EXCEPT ![c] = n]
      BY <1>5, <2>3 DEF Mueve
    <3>4. Pos(n) \in Punto /\ n \in 0..MaxMov
      BY <3>2, <3>3, SesionesAssumption DEF Pos, Punto
    <3>. HIDE DEF c, n, p
    <3>5. [personajes[p] EXCEPT !.pos = Pos(n)] \in PersonajeT
      BY <3>1, <3>4 DEF PersonajeT
    <3>6. personajes' \in Seq(PersonajeT) /\ Len(personajes') = Len(personajes)
      BY <3>1, <3>3, <3>5 DEF TipoServidor
    <3>7. TipoServidor'
      BY <2>1, <3>6 DEF Alimenta, TipoServidor, Inactividad, JugadorT, PersonajeT
    <3>8. TipoHistoria' /\ TipoClientes'
      BY <2>1, <3>2, <3>3, <3>4 DEF clientes, TipoHistoria, TipoClientes
    <3>9. TipoTareas'
      <4>1. Len(jugadores) <= Len(jugadores') /\ Len(personajes) <= Len(personajes')
        BY <2>1, <3>6 DEF TipoServidor
      <4>. QED
        BY <2>1, <3>7, <4>1, TareasCrecen
    <3>. QED
      BY <3>7, <3>8, <3>9
  <2>. QED
    BY <2>2, <2>3
<1>6. ASSUME NEW d \in Dirs, Libera(d) PROVE Tipos'
  <2>1. GuardadoFinal(d) \subseteq GuardarT
    BY ActivoTipo, GuardarTipo DEF GuardadoFinal
  <2>2. TipoServidor' /\ UNCHANGED <<jugadores, personajes>>
    BY <1>6 DEF Libera, TipoServidor, JugadorT, PersonajeT, Nadie, Inactividad
  <2>3. TipoClientes' /\ TipoHistoria'
    BY <1>6 DEF Libera, historia, cuentas, TipoClientes, TipoHistoria, Escenas
  <2>. QED
    BY <1>0, <1>6, <2>1, <2>2, <2>3 DEF Libera
<1>7. ASSUME NEW t \in tareas, NEW w, w \in LoginT \cup CargarT \cup GuardarT,
             tareas' \subseteq (tareas \ {t}) \cup {w},
             UNCHANGED <<servidor, clientes, historia, movs, reinicios>>,
             bbdd' \in [Ids -> Punto], fallos' \in 0..MaxFallos,
             respuestas' \in [Dirs -> Seq({"S_LOGIN_OK", "S_LOGIN_ERROR"})]
      PROVE  Tipos'
  <2>1. TipoServidor' /\ UNCHANGED <<jugadores, personajes>>
    BY <1>7 DEF servidor, TipoServidor, JugadorT, PersonajeT
  <2>2. TipoClientes' /\ TipoHistoria'
    BY <1>7 DEF clientes, historia, TipoClientes, TipoHistoria
  <2>. QED
    BY <1>0, <1>7, <2>1, <2>2
<1>8. ASSUME NEW t \in tareas, NEW e \in BOOLEAN, Autentica(t, e) PROVE Tipos'
  <2>1. [t EXCEPT !.paso = IF e THEN "put" ELSE "error"] \in LoginT
    BY <1>8, Formas DEF Autentica, LoginT
  <2>. QED
    BY <1>7, <1>8, <2>1 DEF Autentica, cuentas, TipoClientes, TipoHistoria
<1>9. ASSUME NEW t \in tareas, Registra(t) PROVE Tipos'
  <2>1. t \in LoginT /\ [t EXCEPT !.paso = "ok"] \in LoginT
    BY <1>9, Formas DEF Registra, LoginT
  <2>2. [idCuenta |-> Cuenta[t.dir], personajeActivo |-> Nadie] \in JugadorT
    BY <2>1, SesionesAssumption DEF LoginT, JugadorT, Nadie, TipoServidor
  <2>3. jugadores' \in Seq(JugadorT) /\ Len(jugadores') = Len(jugadores) + 1
        /\ Len(jugadores) \in Nat /\ personajes' = personajes
    BY <1>9, <2>2 DEF Registra, TipoServidor
  <2>4. sesionesActivas' \in [Dirs -> 0..Len(jugadores')]
    BY <1>9, <2>1, <2>3 DEF Registra, TipoServidor, LoginT
  <2>5. TipoServidor'
    BY <1>9, <2>3, <2>4 DEF Registra, TipoServidor, JugadorT, PersonajeT
  <2>6. TipoTareas'
    <3>1. Len(jugadores) <= Len(jugadores') /\ Len(personajes) <= Len(personajes')
      BY <2>3 DEF TipoServidor
    <3>. QED
      BY <1>9, <2>1, <2>5, <3>1, TareasCrecen DEF Registra
  <2>7. TipoClientes' /\ TipoHistoria'
    BY <1>9 DEF Registra, clientes, historia, cuentas, TipoClientes, TipoHistoria
  <2>. QED
    BY <2>5, <2>6, <2>7
<1>10. ASSUME NEW t \in tareas, RespondeLogin(t) PROVE Tipos'
  <2>1. t \in LoginT
    BY <1>10, Formas DEF RespondeLogin
  <2>2. Respuesta(t) \in Seq({"S_LOGIN_OK", "S_LOGIN_ERROR"})
    <3>1. \A S : \A r \in S : <<r>> \in Seq(S)
      OBVIOUS
    <3>. QED
      BY <3>1 DEF Respuesta
  <2>3. \A s \in Seq({"S_LOGIN_OK", "S_LOGIN_ERROR"}) :
          s \o Respuesta(t) \in Seq({"S_LOGIN_OK", "S_LOGIN_ERROR"})
    BY <2>2
  <2>4. respuestas' \in [Dirs -> Seq({"S_LOGIN_OK", "S_LOGIN_ERROR"})]
    BY <1>10, <2>1, <2>3 DEF RespondeLogin, TipoClientes, LoginT
  <2>. QED
    BY <1>7, <1>10, <2>1, <2>4 DEF RespondeLogin, cuentas, TipoHistoria
<1>11. ASSUME NEW t \in tareas, Consulta(t) PROVE Tipos'
  <2>1. t \in CargarT /\ bbdd[t.id] \in Punto
    BY <1>11, Formas DEF Consulta, CargarT, TipoHistoria
  <2>2. [t EXCEPT !.leido = <<bbdd[t.id]>>] \in CargarT
    BY <2>1 DEF CargarT
  <2>. QED
    BY <1>7, <1>11, <2>2 DEF Consulta, cuentas, TipoHistoria, TipoClientes
<1>12. ASSUME NEW t \in tareas, FallaConsulta(t) \/ FallaSQL(t) PROVE Tipos'
  <2>1. fallos' \in 0..MaxFallos
    BY <1>12, SesionesAssumption DEF FallaConsulta, FallaSQL, TipoHistoria
  <2>. QED
    BY <1>7, <1>12, <2>1 DEF FallaConsulta, FallaSQL, TipoTareas, TipoHistoria, TipoClientes
<1>13. ASSUME NEW t \in tareas, Activa(t) PROVE Tipos'
  <2>1. t \in CargarT /\ t.jug \in 1..Len(jugadores) /\ t.leido[1] \in Punto /\ t.id \in Ids
    BY <1>13, Formas DEF Activa, CargarT
  <2>2. Cargado(t) \in PersonajeT
    BY <2>1 DEF Cargado, PersonajeT
  <2>3. personajes' \in Seq(PersonajeT) /\ Len(personajes') = Len(personajes) + 1
        /\ Len(personajes) \in Nat
    BY <1>13, <2>2 DEF Activa, TipoServidor
  <2>4. /\ \A j \in JugadorT : [j EXCEPT !.personajeActivo = Len(personajes) + 1] \in JugadorT'
        /\ JugadorT \subseteq JugadorT'
    BY <2>3 DEF JugadorT
  <2>5. jugadores' = [jugadores EXCEPT ![t.jug] = [@ EXCEPT !.personajeActivo = Len(personajes) + 1]]
    BY <1>13 DEF Activa, Solicitante
  <2>6. jugadores' \in Seq(JugadorT') /\ Len(jugadores') = Len(jugadores)
    <3>1. jugadores \in Seq(JugadorT') /\ jugadores[t.jug] \in JugadorT
      BY <2>1, <2>4 DEF TipoServidor
    <3>. QED
      BY <2>1, <2>4, <2>5, <3>1
  <2>7. TipoServidor'
    BY <1>13, <2>3, <2>6 DEF Activa, TipoServidor, PersonajeT
  <2>8. TipoTareas'
    <3>1. Len(jugadores) <= Len(jugadores') /\ Len(personajes) <= Len(personajes')
      BY <2>3, <2>6 DEF TipoServidor
    <3>. QED
      BY <1>13, <2>1, <2>7, <3>1, TareasCrecen DEF Activa
  <2>9. TipoClientes' /\ TipoHistoria'
    BY <1>13 DEF Activa, clientes, historia, cuentas, TipoClientes, TipoHistoria
  <2>. QED
    BY <2>7, <2>8, <2>9
<1>14. ASSUME NEW t \in tareas, LeeX(t) \/ LeeY(t) PROVE Tipos'
  <2>1. t \in GuardarT
    BY <1>14, Formas DEF LeeX, LeeY
  <2>2. personajes[t.per].pos \in Punto
    <3>1. t.per \in 1..Len(personajes)
      BY <2>1 DEF GuardarT
    <3>2. personajes[t.per] \in PersonajeT
      BY <3>1 DEF TipoServidor
    <3>. QED
      BY <3>2 DEF PersonajeT
  <2>3. PICK c \in Coord : \/ tareas' = (tareas \ {t}) \cup {[t EXCEPT !.x = c]}
                          \/ tareas' = (tareas \ {t}) \cup {[t EXCEPT !.y = c]}
    BY <1>14, <2>2 DEF LeeX, LeeY, Punto, Coord
  <2>4. [t EXCEPT !.x = c] \in GuardarT /\ [t EXCEPT !.y = c] \in GuardarT
    BY <2>1 DEF GuardarT
  <2>. QED
    BY <1>7, <1>14, <2>3, <2>4 DEF LeeX, LeeY, cuentas, TipoHistoria, TipoClientes
<1>15. ASSUME NEW t \in tareas, Actualiza(t) PROVE Tipos'
  <2>1. t \in GuardarT
    BY <1>15, Formas DEF Actualiza, Leida
  <2>2. [x |-> t.x, y |-> t.y] \in Punto
    BY <1>15, <2>1 DEF Actualiza, Leida, GuardarT, Coord, Punto
  <2>3. bbdd' \in [Ids -> Punto]
    BY <1>15, <2>2 DEF Actualiza, TipoHistoria
  <2>. QED
    BY <1>7, <1>15, <2>3 DEF Actualiza, cuentas, TipoTareas, TipoHistoria, TipoClientes
<1>16. ASSUME Autoguardado PROVE Tipos'
  <2>1. GuardadoMasivo \subseteq GuardarT
    BY ActivoTipo, GuardarTipo DEF GuardadoMasivo
  <2>2. {[t EXCEPT !.vieja = TRUE] : t \in tareas} \subseteq LoginT \cup CargarT \cup GuardarT
    <3>. SUFFICES ASSUME NEW t \in tareas
                  PROVE  [t EXCEPT !.vieja = TRUE] \in LoginT \cup CargarT \cup GuardarT
      OBVIOUS
    <3>1. t \in LoginT => [t EXCEPT !.vieja = TRUE] \in LoginT
      BY DEF LoginT
    <3>2. t \in CargarT => [t EXCEPT !.vieja = TRUE] \in CargarT
      BY DEF CargarT
    <3>3. t \in GuardarT => [t EXCEPT !.vieja = TRUE] \in GuardarT
      BY DEF GuardarT
    <3>. QED
      BY <3>1, <3>2, <3>3 DEF TipoTareas
  <2>3. inact' \in [Dirs -> 0..(Inactividad + 1)]
    BY <1>16 DEF Autoguardado, TipoServidor, Inactividad
  <2>4. TipoServidor' /\ UNCHANGED <<jugadores, personajes>>
    BY <1>16, <2>3 DEF Autoguardado, TipoServidor, JugadorT, PersonajeT
  <2>5. TipoClientes' /\ TipoHistoria'
    BY <1>16 DEF Autoguardado, clientes, cuentas, TipoClientes, TipoHistoria
  <2>6. tareas' \subseteq tareas \cup
          ({[t EXCEPT !.vieja = TRUE] : t \in tareas} \cup GuardadoMasivo)
    BY <1>16 DEF Autoguardado
  <2>. QED
    BY <1>0, <2>1, <2>2, <2>4, <2>5, <2>6
<1>17. ASSUME Reinicia PROVE Tipos'
  <2>1. TipoServidor' /\ TipoTareas'
    BY <1>17 DEF Reinicia, TipoServidor, TipoTareas, Nadie, Inactividad, JugadorT, PersonajeT
  <2>2. TipoClientes' /\ TipoHistoria'
    BY <1>17, SesionesAssumption DEF Reinicia, TipoClientes, TipoHistoria, Escenas
  <2>. QED
    BY <2>1, <2>2
<1>18. CASE UNCHANGED vars
  <2>1. UNCHANGED <<sesionesKcp, inact, sesionesActivas, jugadores, personajes, bbdd, tareas,
                    respuestas, cliente, elegido, ultimo, ahora, antes, movs, fallos, reinicios>>
    BY <1>18 DEF vars, servidor, clientes, historia, cuentas
  <2>. QED
    BY <2>1 DEF TipoServidor, TipoTareas, TipoClientes, TipoHistoria, JugadorT, PersonajeT,
       LoginT, CargarT, GuardarT
<1>. QED
  BY <1>1, <1>2, <1>3, <1>4, <1>5, <1>6, <1>8, <1>9, <1>10, <1>11, <1>12, <1>13, <1>14, <1>15,
     <1>16, <1>17, <1>18 DEF Next, Tarea

\* What the client alone does leaves the server as it is.
SoloCliente(d) ==
  Conecta(d) \/ Sale(d) \/ IrRegistro(d) \/ Volver(d) \/ Recibe(d) \/ MuestraLista(d)

LEMMA SoloClienteMarco ==
  ASSUME NEW d \in Dirs, SoloCliente(d)
  PROVE  UNCHANGED <<sesionesKcp, inact, sesionesActivas, jugadores, personajes, bbdd, tareas,
                     ultimo, ahora, antes, movs, fallos, reinicios>>
  BY DEF SoloCliente, Conecta, Sale, IrRegistro, Volver, Recibe, MuestraLista, servidor, historia,
     cuentas

LEMMA PasoCuenta == Tipos /\ CuentaPropia /\ [Next]_vars => CuentaPropia'
<1>. SUFFICES ASSUME Tipos, CuentaPropia, [Next]_vars PROVE CuentaPropia'
  OBVIOUS
<1>1. ASSUME UNCHANGED <<sesionesActivas, jugadores>> PROVE CuentaPropia'
  BY <1>1 DEF CuentaPropia
<1>2. ASSUME NEW d \in Dirs, SoloCliente(d) PROVE CuentaPropia'
  BY <1>1, <1>2, SoloClienteMarco
<1>3. ASSUME NEW d \in Dirs, \/ Datagrama(d) \/ EnviaLogin(d) \/ Mueve(d)
                              \/ \E c \in Ids : Entra(d, c)
      PROVE  CuentaPropia'
  BY <1>1, <1>3 DEF Datagrama, EnviaLogin, Mueve, Entra
<1>4. ASSUME NEW d \in Dirs, Libera(d) PROVE CuentaPropia'
  BY <1>4 DEF Tipos, TipoServidor, Libera, CuentaPropia
<1>5. ASSUME NEW t \in tareas, Registra(t) PROVE CuentaPropia'
  <2>1. t.dir \in Dirs
    BY <1>5, Formas DEF Tipos, Registra, LoginT
  <2>2. /\ sesionesActivas' = [sesionesActivas EXCEPT ![t.dir] = Len(jugadores) + 1]
        /\ jugadores'[Len(jugadores) + 1] = [idCuenta |-> Cuenta[t.dir], personajeActivo |-> Nadie]
        /\ \A j \in 1..Len(jugadores) : jugadores'[j] = jugadores[j]
    BY <1>5 DEF Registra, Tipos, TipoServidor
  <2>. QED
    BY <2>1, <2>2 DEF CuentaPropia, Tipos, TipoServidor, Nadie
<1>6. ASSUME NEW t \in tareas, Activa(t) PROVE CuentaPropia'
  <2>1. t.jug \in 1..Len(jugadores)
    BY <1>6, Formas DEF Tipos, Activa, CargarT
  <2>2. \A j \in 1..Len(jugadores) : jugadores'[j].idCuenta = jugadores[j].idCuenta
    BY <1>6, <2>1 DEF Activa, Solicitante, Tipos, TipoServidor, JugadorT
  <2>. QED
    BY <1>6, <2>2 DEF Activa, CuentaPropia, Tipos, TipoServidor, Nadie
<1>7. ASSUME NEW t \in tareas, Tarea(t), ~Registra(t), ~Activa(t) PROVE CuentaPropia'
  BY <1>1, <1>7 DEF Tarea, Autentica, RespondeLogin, Consulta, FallaConsulta, LeeX, LeeY, Actualiza,
     FallaSQL, servidor
<1>8. CASE Autoguardado
  BY <1>1, <1>8 DEF Autoguardado
<1>9. CASE Reinicia
  BY <1>9 DEF Reinicia, CuentaPropia
<1>10. CASE UNCHANGED vars
  BY <1>1, <1>10 DEF vars, servidor
<1>. QED
  BY <1>2, <1>3, <1>4, <1>5, <1>6, <1>7, <1>8, <1>9, <1>10 DEF Next, SoloCliente

LEMMA PasoFugas == Base /\ [Next]_vars => SinFugas'
<1>. SUFFICES ASSUME Base, [Next]_vars PROVE SinFugas'
  OBVIOUS
<1>1. ASSUME sesionesKcp \subseteq sesionesKcp', UNCHANGED sesionesActivas PROVE SinFugas'
  BY <1>1 DEF Base, SinFugas
<1>2. ASSUME NEW d \in Dirs, SoloCliente(d) PROVE SinFugas'
  BY <1>1, <1>2, SoloClienteMarco
<1>3. ASSUME NEW d \in Dirs, \/ Datagrama(d) \/ EnviaLogin(d) \/ Mueve(d)
                              \/ \E c \in Ids : Entra(d, c)
      PROVE  SinFugas'
  BY <1>1, <1>3 DEF Datagrama, EnviaLogin, Mueve, Entra, Alimenta
<1>4. ASSUME NEW d \in Dirs, Libera(d) PROVE SinFugas'
  BY <1>4 DEF Base, Tipos, TipoServidor, Libera, SinFugas
<1>5. ASSUME NEW t \in tareas, Registra(t) PROVE SinFugas'
  <2>1. t.dir \in sesionesKcp /\ t.dir \in Dirs
    BY <1>5, Formas DEF Base, Tipos, LoginEnPlazo, EnVuelo, Registra, LoginT
  <2>. QED
    BY <1>5, <2>1 DEF Base, Tipos, TipoServidor, Registra, SinFugas
<1>6. ASSUME NEW t \in tareas, Tarea(t), ~Registra(t) PROVE SinFugas'
  BY <1>1, <1>6 DEF Tarea, Autentica, RespondeLogin, Consulta, FallaConsulta, Activa, LeeX, LeeY,
     Actualiza, FallaSQL, servidor
<1>7. CASE Autoguardado
  BY <1>1, <1>7 DEF Autoguardado
<1>8. CASE Reinicia
  BY <1>8 DEF Reinicia, SinFugas
<1>9. CASE UNCHANGED vars
  BY <1>1, <1>9 DEF vars, servidor
<1>. QED
  BY <1>2, <1>3, <1>4, <1>5, <1>6, <1>7, <1>8, <1>9 DEF Next, SoloCliente

LEMMA PasoPlazo == Base /\ [Next]_vars => LoginEnPlazo'
<1>. SUFFICES ASSUME Base, [Next]_vars PROVE LoginEnPlazo'
  OBVIOUS
<1>0. /\ sesionesKcp \subseteq Dirs /\ inact \in [Dirs -> 0..(Inactividad + 1)]
      /\ sesionesActivas \in [Dirs -> 0..Len(jugadores)] /\ Len(jugadores) \in Nat
      /\ \A t \in EnVuelo("login") : t \in LoginT /\ t.dir \in Dirs
  BY Formas DEF Base, Tipos, TipoServidor, EnVuelo, LoginT
<1>1. ASSUME EnVuelo("login")' \subseteq EnVuelo("login"), sesionesKcp \subseteq sesionesKcp',
             \A d \in Dirs : inact'[d] \in {0, inact[d]}, UNCHANGED sesionesActivas
      PROVE  LoginEnPlazo'
  BY <1>0, <1>1 DEF Base, LoginEnPlazo
<1>2. ASSUME NEW d \in Dirs, SoloCliente(d) PROVE LoginEnPlazo'
  BY <1>0, <1>1, <1>2, SoloClienteMarco DEF EnVuelo
<1>3. ASSUME NEW d \in Dirs, Alimenta(d)
      PROVE  sesionesKcp \subseteq sesionesKcp' /\ inact'[d] = 0 /\ d \in sesionesKcp'
             /\ \A e \in Dirs : inact'[e] \in {0, inact[e]}
  BY <1>0, <1>3 DEF Alimenta
<1>4. ASSUME NEW d \in Dirs, Datagrama(d) \/ Mueve(d) PROVE LoginEnPlazo'
  BY <1>1, <1>3, <1>4 DEF Datagrama, Mueve, EnVuelo
<1>5. ASSUME NEW d \in Dirs, NEW c \in Ids, Entra(d, c) PROVE LoginEnPlazo'
  <2>1. EnVuelo("login")' \subseteq EnVuelo("login")
    BY <1>5 DEF Entra, EnVuelo, TareaCargar
  <2>. QED
    BY <1>1, <1>3, <1>5, <2>1 DEF Entra
<1>6. ASSUME NEW d \in Dirs, EnviaLogin(d) PROVE LoginEnPlazo'
  <2>1. PICK n : tareas' = tareas \cup {TareaLogin(d, n)}
    BY <1>6 DEF EnviaLogin
  <2>2. Alimenta(d) /\ UNCHANGED sesionesActivas
    BY <1>6 DEF EnviaLogin
  <2>3. ASSUME NEW t \in EnVuelo("login")', t \notin EnVuelo("login")
        PROVE  t.dir = d /\ t.paso = "consulta"
    BY <2>1, <2>3 DEF EnVuelo, TareaLogin
  <2>. QED
    BY <1>0, <1>3, <2>2, <2>3 DEF Base, LoginEnPlazo
<1>7. ASSUME NEW d \in Dirs, Libera(d) PROVE LoginEnPlazo'
  <2>1. \A t \in EnVuelo("login") : t.dir # d
    BY <1>0, <1>7 DEF Libera, EstaInactiva, Base, LoginEnPlazo, Inactividad
  <2>2. EnVuelo("login")' \subseteq EnVuelo("login")
    BY <1>7 DEF Libera, EnVuelo, GuardadoFinal, TareaGuardar
  <2>. QED
    BY <1>0, <1>7, <2>1, <2>2 DEF Libera, Base, LoginEnPlazo
<1>8. ASSUME NEW t \in EnVuelo("login"), NEW p \in {"put", "error", "ok"},
             tareas' = (tareas \ {t}) \cup {[t EXCEPT !.paso = p]}
      PROVE  \A w \in EnVuelo("login")' : w \notin EnVuelo("login") =>
               w.dir = t.dir /\ w.vieja = t.vieja /\ w.paso = p
  <2>1. t \in LoginT /\ [t EXCEPT !.paso = p].dir = t.dir
        /\ [t EXCEPT !.paso = p].vieja = t.vieja /\ [t EXCEPT !.paso = p].paso = p
    BY <1>0 DEF LoginT
  <2>. QED
    BY <1>8, <2>1 DEF EnVuelo
<1>9. ASSUME NEW t \in tareas, NEW e \in BOOLEAN, Autentica(t, e) PROVE LoginEnPlazo'
  <2>1. t \in EnVuelo("login") /\ UNCHANGED <<sesionesKcp, inact, sesionesActivas>>
    BY <1>9 DEF Autentica, EnVuelo, servidor
  <2>2. \A w \in EnVuelo("login")' : w \notin EnVuelo("login") =>
          w.dir = t.dir /\ w.vieja = t.vieja /\ w.paso # "ok"
    <3>1. CASE e
      BY <1>8, <1>9, <2>1, <3>1 DEF Autentica
    <3>2. CASE ~e
      BY <1>8, <1>9, <2>1, <3>2 DEF Autentica
    <3>. QED
      BY <3>1, <3>2
  <2>. QED
    BY <2>1, <2>2 DEF Base, LoginEnPlazo
<1>10. ASSUME NEW t \in tareas, Registra(t) PROVE LoginEnPlazo'
  <2>1. t \in EnVuelo("login") /\ UNCHANGED <<sesionesKcp, inact>>
    BY <1>10 DEF Registra, EnVuelo
  <2>2. \A w \in EnVuelo("login")' : w \notin EnVuelo("login") =>
          w.dir = t.dir /\ w.vieja = t.vieja
    BY <1>8, <1>10, <2>1 DEF Registra
  <2>3. /\ sesionesActivas'[t.dir] # Nadie
        /\ \A d \in Dirs : sesionesActivas[d] # Nadie => sesionesActivas'[d] # Nadie
    BY <1>0, <1>10, <2>1 DEF Registra, Nadie
  <2>. QED
    BY <1>0, <2>1, <2>2, <2>3 DEF Base, LoginEnPlazo
<1>11. ASSUME NEW t \in tareas, \/ RespondeLogin(t) \/ FallaConsulta(t) \/ Activa(t)
                                 \/ Actualiza(t) \/ FallaSQL(t)
       PROVE  LoginEnPlazo'
  <2>1. /\ EnVuelo("login")' \subseteq EnVuelo("login")
        /\ UNCHANGED <<sesionesKcp, inact, sesionesActivas>>
    BY <1>11 DEF RespondeLogin, FallaConsulta, Activa, Actualiza, FallaSQL, EnVuelo, servidor
  <2>. QED
    BY <1>1, <2>1
<1>12. ASSUME NEW t \in tareas, Consulta(t) \/ LeeX(t) \/ LeeY(t) PROVE LoginEnPlazo'
  <2>1. t \in CargarT \cup GuardarT /\ UNCHANGED <<sesionesKcp, inact, sesionesActivas>>
    BY <1>12, Formas DEF Base, Tipos, Consulta, LeeX, LeeY, servidor
  <2>2. EnVuelo("login")' \subseteq EnVuelo("login")
    BY <1>12, <2>1 DEF Consulta, LeeX, LeeY, EnVuelo, CargarT, GuardarT
  <2>. QED
    BY <1>1, <2>1, <2>2
<1>13. CASE Autoguardado
  <2>1. /\ \A t \in tareas : ~t.vieja
        /\ UNCHANGED <<sesionesKcp, sesionesActivas>>
        /\ \A d \in Dirs : inact'[d] \in {inact[d], inact[d] + 1}
    BY <1>0, <1>13 DEF Autoguardado
  <2>2. ASSUME NEW w \in EnVuelo("login")'
        PROVE  \E t \in EnVuelo("login") : w.dir = t.dir /\ w.paso = t.paso /\ w.vieja
    <3>1. w \in tareas' /\ w.tipo = "login"
      BY DEF EnVuelo
    <3>2. w \notin GuardadoMasivo
      BY <3>1 DEF GuardadoMasivo, TareaGuardar
    <3>3. PICK t \in tareas : w = [t EXCEPT !.vieja = TRUE]
      BY <1>13, <3>1, <3>2 DEF Autoguardado
    <3>4. t \in LoginT
      <4>1. t \in LoginT \/ t \in CargarT \/ t \in GuardarT
        BY DEF Base, Tipos, TipoTareas
      <4>. QED
        BY <3>1, <3>3, <4>1 DEF CargarT, GuardarT
    <3>. QED
      BY <3>3, <3>4 DEF EnVuelo, LoginT
  <2>3. ASSUME NEW w \in EnVuelo("login")'
        PROVE  /\ w.dir \in sesionesKcp'
               /\ inact'[w.dir] <= 1 /\ (~w.vieja => inact'[w.dir] = 0)
               /\ w.paso = "ok" => sesionesActivas'[w.dir] # Nadie
    <3>1. PICK t \in EnVuelo("login") : w.dir = t.dir /\ w.paso = t.paso /\ w.vieja
      BY <2>2
    <3>2. t \in tareas /\ t.dir \in Dirs /\ ~t.vieja
      BY <1>0, <2>1 DEF EnVuelo
    <3>3. /\ t.dir \in sesionesKcp /\ inact[t.dir] = 0
          /\ t.paso = "ok" => sesionesActivas[t.dir] # Nadie
      BY <3>2 DEF Base, LoginEnPlazo
    <3>4. inact'[t.dir] <= 1
      BY <2>1, <3>2, <3>3
    <3>. QED
      BY <2>1, <3>1, <3>3, <3>4
  <2>. QED
    BY <2>3 DEF LoginEnPlazo
<1>14. CASE Reinicia
  BY <1>14 DEF Reinicia, LoginEnPlazo, EnVuelo
<1>15. CASE UNCHANGED vars
  BY <1>1, <1>0, <1>15 DEF vars, servidor, EnVuelo
<1>. QED
  BY <1>2, <1>4, <1>5, <1>6, <1>7, <1>9, <1>10, <1>11, <1>12, <1>13, <1>14, <1>15
     DEF Next, SoloCliente, Tarea

LEMMA PasoRespuesta == Base /\ [Next]_vars => RespuestaVeraz'
<1>. SUFFICES ASSUME Base, [Next]_vars PROVE RespuestaVeraz'
  OBVIOUS
<1>0. /\ sesionesActivas \in [Dirs -> 0..Len(jugadores)] /\ Len(jugadores) \in Nat
      /\ respuestas \in [Dirs -> Seq({"S_LOGIN_OK", "S_LOGIN_ERROR"})]
  BY DEF Base, Tipos, TipoServidor, TipoClientes
<1>1. ASSUME UNCHANGED <<respuestas, sesionesActivas>> PROVE RespuestaVeraz'
  BY <1>1 DEF Base, RespuestaVeraz
<1>2. ASSUME NEW d \in Dirs, SoloCliente(d) PROVE RespuestaVeraz'
  <2>1. UNCHANGED sesionesActivas
    BY <1>2, SoloClienteMarco
  <2>2. CASE UNCHANGED respuestas
    BY <1>1, <2>1, <2>2
  <2>3. CASE Sale(d)
    BY <1>0, <2>1, <2>3 DEF Sale, Base, RespuestaVeraz
  <2>4. CASE Recibe(d)
    <3>1. \A i \in 1..Len(respuestas'[d]) :
            i + 1 \in 1..Len(respuestas[d]) /\ respuestas'[d][i] = respuestas[d][i + 1]
      BY <1>0, <2>4 DEF Recibe
    <3>2. \A e \in Dirs : e # d => respuestas'[e] = respuestas[e]
      BY <1>0, <2>4 DEF Recibe
    <3>. QED
      BY <2>1, <3>1, <3>2 DEF Base, RespuestaVeraz
  <2>. QED
    BY <1>2, <2>2, <2>3, <2>4 DEF SoloCliente, Conecta, IrRegistro, Volver, MuestraLista
<1>3. ASSUME NEW d \in Dirs, \/ Datagrama(d) \/ EnviaLogin(d) \/ Mueve(d)
                              \/ \E c \in Ids : Entra(d, c)
      PROVE  RespuestaVeraz'
  BY <1>1, <1>3 DEF Datagrama, EnviaLogin, Mueve, Entra
<1>4. ASSUME NEW d \in Dirs, Libera(d) PROVE RespuestaVeraz'
  BY <1>0, <1>4 DEF Libera, Base, RespuestaVeraz
<1>5. ASSUME NEW t \in tareas, Registra(t) PROVE RespuestaVeraz'
  <2>1. \A d \in Dirs : sesionesActivas[d] # Nadie => sesionesActivas'[d] # Nadie
    BY <1>0, <1>5 DEF Registra, Nadie
  <2>. QED
    BY <1>5, <2>1 DEF Registra, Base, RespuestaVeraz
<1>6. ASSUME NEW t \in tareas, RespondeLogin(t) PROVE RespuestaVeraz'
  <2>. DEFINE d == t.dir
  <2>1. t \in EnVuelo("login") /\ d \in Dirs /\ UNCHANGED sesionesActivas
    BY <1>6, Formas DEF Base, Tipos, RespondeLogin, EnVuelo, LoginT, servidor
  <2>2. t.paso = "error" \/ sesionesActivas[d] # Nadie
    BY <1>6, <2>1 DEF Base, LoginEnPlazo, RespondeLogin, PuedeResponder
  <2>3. respuestas'[d] = respuestas[d] \/ respuestas'[d] = respuestas[d] \o Respuesta(t)
    BY <1>0, <1>6, <2>1 DEF RespondeLogin
  <2>4. \A e \in Dirs : e # d => respuestas'[e] = respuestas[e]
    BY <1>0, <1>6, <2>1 DEF RespondeLogin
  <2>. HIDE DEF d
  <2>5. CASE sesionesActivas[d] # Nadie
    BY <2>1, <2>4, <2>5 DEF Base, RespuestaVeraz
  <2>6. CASE t.paso = "error" /\ respuestas'[d] = respuestas[d] \o Respuesta(t)
    <3>1. respuestas'[d] = respuestas[d] \o <<"S_LOGIN_ERROR">>
      BY <2>6 DEF Respuesta
    <3>2. \A i \in 1..Len(respuestas'[d]) : respuestas'[d][i] = "S_LOGIN_OK" =>
            i \in 1..Len(respuestas[d]) /\ respuestas[d][i] = "S_LOGIN_OK"
      BY <1>0, <2>1, <3>1
    <3>. QED
      BY <2>1, <2>4, <3>2 DEF Base, RespuestaVeraz
  <2>7. CASE respuestas'[d] = respuestas[d]
    BY <2>1, <2>4, <2>7 DEF Base, RespuestaVeraz
  <2>. QED
    BY <2>2, <2>3, <2>5, <2>6, <2>7
<1>7. ASSUME NEW t \in tareas, Tarea(t), ~Registra(t), ~RespondeLogin(t) PROVE RespuestaVeraz'
  BY <1>1, <1>7 DEF Tarea, Autentica, Consulta, FallaConsulta, Activa, LeeX, LeeY, Actualiza,
     FallaSQL, servidor
<1>8. CASE Autoguardado
  BY <1>1, <1>8 DEF Autoguardado
<1>9. CASE Reinicia
  BY <1>9 DEF Reinicia, RespuestaVeraz
<1>10. CASE UNCHANGED vars
  BY <1>1, <1>10 DEF vars, servidor
<1>. QED
  BY <1>2, <1>3, <1>4, <1>5, <1>6, <1>7, <1>8, <1>9, <1>10 DEF Next, SoloCliente

LEMMA PasoAcceso == Base /\ [Next]_vars => Acceso'
<1>. SUFFICES ASSUME Base, [Next]_vars PROVE Acceso'
  OBVIOUS
<1>0. /\ sesionesActivas \in [Dirs -> 0..Len(jugadores)] /\ Len(jugadores) \in Nat
      /\ respuestas \in [Dirs -> Seq({"S_LOGIN_OK", "S_LOGIN_ERROR"})]
      /\ cliente \in [Dirs -> Escenas]
  BY DEF Base, Tipos, TipoServidor, TipoClientes
<1>1. ASSUME NEW d \in Dirs, UNCHANGED sesionesActivas,
             \A e \in Dirs : e # d => cliente'[e] = cliente[e],
             cliente'[d] \in {"acceso", "lista", "mundo"} =>
               cliente[d] \in {"acceso", "lista", "mundo"} \/ sesionesActivas[d] # Nadie
      PROVE  Acceso'
  BY <1>1 DEF Base, Acceso
<1>2. ASSUME UNCHANGED <<cliente, sesionesActivas>> PROVE Acceso'
  BY <1>2 DEF Base, Acceso
<1>3. ASSUME NEW d \in Dirs, SoloCliente(d), ~Recibe(d) PROVE Acceso'
  BY <1>0, <1>1, <1>3, SoloClienteMarco DEF SoloCliente, Conecta, Sale, IrRegistro, Volver,
     MuestraLista
<1>4. ASSUME NEW d \in Dirs, Recibe(d) PROVE Acceso'
  <2>1. /\ \A e \in Dirs : e # d => cliente'[e] = cliente[e]
        /\ cliente'[d] = IF cliente[d] \notin {"espera", "login"} THEN cliente[d]
                         ELSE IF Head(respuestas[d]) = "S_LOGIN_OK" THEN "acceso" ELSE "login"
        /\ UNCHANGED sesionesActivas
    BY <1>0, <1>4 DEF Recibe, servidor
  <2>2. 1 \in 1..Len(respuestas[d]) /\ Head(respuestas[d]) = respuestas[d][1]
    BY <1>0, <1>4 DEF Recibe
  <2>3. Head(respuestas[d]) = "S_LOGIN_OK" => sesionesActivas[d] # Nadie
    BY <2>2 DEF Base, RespuestaVeraz
  <2>. QED
    BY <1>1, <2>1, <2>3
<1>5. ASSUME NEW d \in Dirs, \/ Datagrama(d) \/ EnviaLogin(d) \/ Mueve(d)
                              \/ \E c \in Ids : Entra(d, c)
      PROVE  Acceso'
  BY <1>0, <1>1, <1>2, <1>5 DEF Datagrama, EnviaLogin, Mueve, Entra, clientes
<1>6. ASSUME NEW d \in Dirs, Libera(d) PROVE Acceso'
  <2>1. cliente'[d] \in {"fuera", "colgado"}
        /\ \A e \in Dirs : e # d => cliente'[e] = cliente[e] /\ sesionesActivas'[e] = sesionesActivas[e]
    BY <1>0, <1>6 DEF Libera
  <2>. QED
    BY <2>1 DEF Base, Acceso
<1>7. ASSUME NEW t \in tareas, Registra(t) PROVE Acceso'
  <2>1. \A d \in Dirs : sesionesActivas[d] # Nadie => sesionesActivas'[d] # Nadie
    BY <1>0, <1>7 DEF Registra, Nadie
  <2>. QED
    BY <1>7, <2>1 DEF Registra, clientes, Base, Acceso
<1>8. ASSUME NEW t \in tareas, Tarea(t), ~Registra(t) PROVE Acceso'
  BY <1>2, <1>8 DEF Tarea, Autentica, RespondeLogin, Consulta, FallaConsulta, Activa, LeeX, LeeY,
     Actualiza, FallaSQL, servidor, clientes
<1>9. CASE Autoguardado
  BY <1>2, <1>9 DEF Autoguardado, clientes
<1>10. CASE Reinicia
  BY <1>0, <1>10 DEF Reinicia, Acceso
<1>11. CASE UNCHANGED vars
  BY <1>2, <1>11 DEF vars, servidor, clientes
<1>. QED
  BY <1>3, <1>4, <1>5, <1>6, <1>7, <1>8, <1>9, <1>10, <1>11 DEF Next, SoloCliente

LEMMA PasoBase == Base /\ [Next]_vars => Base'
  BY PasoTipos, PasoCuenta, PasoPlazo, PasoRespuesta, PasoFugas, PasoAcceso DEF Base

-----------------------------------------------------------------------------
(* Theorems *)

THEOREM BaseCorrecta == Spec => []Base
  BY InicioBase, PasoBase, PTL DEF Spec

\* Type correctness.
THEOREM SesionesTipos == Spec => []TypeOK
<1>1. Base => TypeOK
  <2>. SUFFICES ASSUME Base PROVE TypeOK
    OBVIOUS
  <2>1. Punto \subseteq Fila /\ Coord \subseteq Nat \cup {SinLeer}
    BY SesionesAssumption DEF Punto, Fila, Coord
  <2>2. PersonajeT \subseteq [id : Ids, pos : Fila]
    BY <2>1 DEF PersonajeT
  <2>3. personajes \in Seq([id : Ids, pos : Fila])
    <3>1. \A S, T : S \subseteq T => Seq(S) \subseteq Seq(T)
      OBVIOUS
    <3>. QED
      BY <2>2, <3>1 DEF Base, Tipos, TipoServidor
  <2>4. GuardarT \subseteq [tipo : {"guardar"}, per : 1..Len(personajes),
                          origen : {"auto", "final"}, vieja : BOOLEAN,
                          x : Nat \cup {SinLeer}, y : Nat \cup {SinLeer}]
    BY <2>1 DEF GuardarT
  <2>5. bbdd \in [Ids -> Fila] /\ {ultimo, ahora, antes} \subseteq [Ids -> Fila]
    BY <2>1 DEF Base, Tipos, TipoHistoria
  <2>. HIDE DEF GuardarT
  <2>. QED
    BY <2>3, <2>4, <2>5 DEF Base, Tipos, TipoServidor, TipoTareas, TipoClientes, TipoHistoria,
       TypeOK, JugadorT, LoginT, CargarT, Punto
<1>. QED
  BY <1>1, BaseCorrecta, PTL

\* A client told S_LOGIN_OK is registered under its address with its own account as long as
\* the server keeps its session, however many logins its user starts.
THEOREM LoginSeguro == Spec => []LoginFirme
<1>1. Base => LoginFirme
  BY DEF Base, Acceso, CuentaPropia, LoginFirme
<1>. QED
  BY <1>1, BaseCorrecta, PTL

\* A player is never registered where no KCP session is left to release it.
THEOREM SinJugadoresPerdidos == Spec => []SinFugas
<1>1. Base => SinFugas
  BY DEF Base
<1>. QED
  BY <1>1, BaseCorrecta, PTL

-----------------------------------------------------------------------------
(* One login of a patient user *)

\* The tasks of a login, once the auto-save has marked all of them.
LEMMA Marcadas ==
  ASSUME Tipos, NEW w \in tareas', Autoguardado
  PROVE  \/ /\ w \in GuardarT /\ w.origen = "auto" /\ w.x = SinLeer /\ w.y = SinLeer
            /\ w.tipo = "guardar" /\ w.vieja /\ \E d \in Dirs : w.per = Activo(d) /\ Activo(d) # Nadie
         \/ \E t \in tareas : w = [t EXCEPT !.vieja = TRUE] /\ w.tipo = t.tipo /\ w.vieja
<1>1. CASE w \in GuardadoMasivo
  <2>1. PICK d \in Dirs : Activo(d) # Nadie /\ w = TareaGuardar(Activo(d), "auto", TRUE)
    BY <1>1 DEF GuardadoMasivo
  <2>2. w \in GuardarT
    BY <2>1, ActivoTipo, GuardarTipo DEF Tipos
  <2>. QED
    BY <2>1, <2>2 DEF TareaGuardar
<1>2. CASE w \notin GuardadoMasivo
  <2>1. PICK t \in tareas : w = [t EXCEPT !.vieja = TRUE]
    BY <1>2 DEF Autoguardado
  <2>2. t \in LoginT \/ t \in CargarT \/ t \in GuardarT
    BY DEF Tipos, TipoTareas
  <2>3. w.tipo = t.tipo /\ w.vieja
    BY <2>1, <2>2 DEF LoginT, CargarT, GuardarT
  <2>. QED
    BY <2>1, <2>3
<1>. QED
  BY <1>1, <1>2

LEMMA InicioFases == Init => Fases /\ SinCompartir /\ Elecciones
  BY DEF Init, Fases, Fase, Pacientes, Logins, EnVuelo, SinCompartir, Elecciones, Eleccion, Activo,
     Cargas, Nadie

LEMMA FaseIgual ==
  ASSUME NEW d \in Pacientes, Fase(d), cliente'[d] = cliente[d], respuestas'[d] = respuestas[d],
         sesionesActivas'[d] = sesionesActivas[d], Logins(d)' = Logins(d),
         d \in sesionesKcp' <=> d \in sesionesKcp
  PROVE  Fase(d)'
  BY DEF Fase

\* A task between two of its steps: it keeps what it was started with.
Sucesora(t, w) ==
  /\ w.tipo = t.tipo /\ w.vieja = t.vieja
  /\ t.tipo = "login" => w.dir = t.dir
  /\ t.tipo = "cargar" => w.jug = t.jug /\ w.id = t.id
  /\ t.tipo = "guardar" => w.per = t.per /\ w.origen = t.origen

LEMMA TareaMarco ==
  ASSUME Tipos, NEW t \in tareas, Tarea(t)
  PROVE  \/ tareas' = tareas \ {t}
         \/ \E w : Sucesora(t, w) /\ tareas' = (tareas \ {t}) \cup {w}
<1>1. t \in LoginT \/ t \in CargarT \/ t \in GuardarT
  BY DEF Tipos, TipoTareas
<1>2. \A p : /\ Sucesora(t, [t EXCEPT !.paso = p]) /\ Sucesora(t, [t EXCEPT !.leido = p])
             /\ Sucesora(t, [t EXCEPT !.x = p]) /\ Sucesora(t, [t EXCEPT !.y = p])
  BY <1>1 DEF Sucesora, LoginT, CargarT, GuardarT
<1>3. CASE Autentica(t, TRUE) \/ Autentica(t, FALSE) \/ Registra(t)
  BY <1>2, <1>3 DEF Autentica, Registra
<1>4. CASE Consulta(t)
  BY <1>2, <1>4 DEF Consulta
<1>5. CASE LeeX(t) \/ LeeY(t)
  BY <1>2, <1>5 DEF LeeX, LeeY
<1>. QED
  BY <1>3, <1>4, <1>5 DEF Tarea, RespondeLogin, FallaConsulta, Activa, Actualiza, FallaSQL

LEMMA PasoFase ==
  ASSUME Base, Base', Fases, [Next]_vars, NEW d \in Pacientes
  PROVE  Fase(d)'
<1>0. /\ d \in Dirs /\ d \notin Impacientes /\ Fase(d)
      /\ sesionesKcp \subseteq Dirs /\ inact \in [Dirs -> 0..(Inactividad + 1)]
      /\ sesionesActivas \in [Dirs -> 0..Len(jugadores)] /\ Len(jugadores) \in Nat
      /\ respuestas \in [Dirs -> Seq({"S_LOGIN_OK", "S_LOGIN_ERROR"})]
      /\ cliente \in [Dirs -> Escenas]
      /\ \A t \in Logins(d) : t \in LoginT /\ t \in tareas /\ t.tipo = "login" /\ t.dir = d
      /\ \A t \in Logins(d) : d \in sesionesKcp /\ inact[d] <= 1
      /\ sesionesActivas[d] # Nadie => d \in sesionesKcp
  BY Formas DEF Base, Tipos, TipoServidor, TipoClientes, Pacientes, Fases, Logins, EnVuelo,
     LoginEnPlazo, SinFugas
<1>1. ASSUME NEW e \in Dirs, SoloCliente(e) PROVE Fase(d)'
  <2>1. UNCHANGED <<sesionesKcp, sesionesActivas, tareas>> /\ Logins(d)' = Logins(d)
    BY <1>1, SoloClienteMarco DEF Logins, EnVuelo
  <2>2. CASE e # d
    <3>1. cliente'[d] = cliente[d] /\ respuestas'[d] = respuestas[d]
      BY <1>0, <1>1, <2>2 DEF SoloCliente, Conecta, Sale, IrRegistro, Volver, Recibe, MuestraLista
    <3>. QED
      BY <1>0, <2>1, <3>1, FaseIgual
  <2>3. CASE e = d
    <3>1. CASE Conecta(d)
      <4>1. cliente[d] = "fuera" /\ d \notin sesionesKcp /\ cliente'[d] = "nuevo"
            /\ respuestas' = respuestas
        BY <1>0, <3>1 DEF Conecta
      <4>. QED
        BY <1>0, <2>1, <4>1 DEF Fase
    <3>2. CASE Sale(d)
      <4>1. cliente'[d] = "fuera" /\ respuestas'[d] = <<>>
        BY <1>0, <3>2 DEF Sale
      <4>. QED
        BY <1>0, <2>1, <4>1 DEF Fase
    <3>3. CASE Recibe(d)
      <4>1. respuestas[d] # <<>> /\ cliente[d] = "espera" /\ Logins(d) = {}
        BY <1>0, <3>3 DEF Recibe, Fase
      <4>2. respuestas[d] = <<"S_LOGIN_OK">> \/ respuestas[d] = <<"S_LOGIN_ERROR">>
        BY <1>0, <4>1 DEF Fase
      <4>3. respuestas'[d] = <<>>
        <5>1. \A r : Tail(<<r>>) = <<>>
          OBVIOUS
        <5>2. respuestas'[d] = Tail(respuestas[d])
          BY <1>0, <3>3 DEF Recibe
        <5>. QED
          BY <4>2, <5>1, <5>2
      <4>4. cliente'[d] = IF Head(respuestas[d]) = "S_LOGIN_OK" THEN "acceso" ELSE "login"
        BY <1>0, <3>3, <4>1 DEF Recibe
      <4>. QED
        BY <1>0, <2>1, <4>1, <4>2, <4>3, <4>4 DEF Fase
    <3>4. CASE MuestraLista(d)
      <4>1. cliente[d] = "acceso" /\ cliente'[d] = "lista" /\ respuestas' = respuestas
        BY <1>0, <3>4 DEF MuestraLista
      <4>. QED
        BY <1>0, <2>1, <4>1 DEF Fase
    <3>5. ~IrRegistro(d) /\ ~Volver(d)
      BY <1>0 DEF IrRegistro, Volver, Fase
    <3>. QED
      BY <1>1, <2>3, <3>1, <3>2, <3>3, <3>4, <3>5 DEF SoloCliente
  <2>. QED
    BY <2>2, <2>3
<1>2. ASSUME NEW e \in Dirs, Datagrama(e) \/ Mueve(e) PROVE Fase(d)'
  <2>1. UNCHANGED <<sesionesActivas, tareas, respuestas, cliente>> /\ Logins(d)' = Logins(d)
        /\ sesionesKcp' = sesionesKcp \cup {e} /\ cliente[e] # "nuevo"
    BY <1>2 DEF Datagrama, Mueve, EnviaPosicion, Alimenta, clientes, Logins, EnVuelo
  <2>. QED
    BY <1>0, <2>1 DEF Fase
<1>3. ASSUME NEW e \in Dirs, NEW c \in Ids, Entra(e, c) PROVE Fase(d)'
  <2>1. UNCHANGED <<sesionesActivas, respuestas>> /\ sesionesKcp' = sesionesKcp \cup {e}
        /\ cliente[e] = "lista" /\ cliente' = [cliente EXCEPT ![e] = "mundo"]
    BY <1>3 DEF Entra, Alimenta
  <2>2. Logins(d)' = Logins(d)
    BY <1>3 DEF Entra, Logins, EnVuelo, TareaCargar
  <2>. QED
    BY <1>0, <2>1, <2>2 DEF Fase
<1>4. ASSUME NEW e \in Dirs, EnviaLogin(e) PROVE Fase(d)'
  <2>1. PICK n : tareas' = tareas \cup {TareaLogin(e, n)}
    BY <1>4 DEF EnviaLogin
  <2>2. UNCHANGED <<sesionesActivas, respuestas>> /\ sesionesKcp' = sesionesKcp \cup {e}
        /\ cliente[e] \in {"nuevo", "login"} /\ cliente' = [cliente EXCEPT ![e] = "espera"]
    BY <1>4 DEF EnviaLogin, Alimenta
  <2>3. CASE e # d
    <3>1. Logins(d)' = Logins(d)
      BY <2>1, <2>3 DEF Logins, EnVuelo, TareaLogin
    <3>. QED
      BY <1>0, <2>2, <2>3, <3>1, FaseIgual
  <2>4. CASE e = d
    <3>1. Logins(d) = {} /\ respuestas[d] = <<>> /\ sesionesActivas[d] = Nadie
      BY <1>0, <2>2, <2>4 DEF Fase
    <3>2. Logins(d)' = {TareaLogin(d, n)}
      BY <2>1, <2>4, <3>1 DEF Logins, EnVuelo, TareaLogin
    <3>. QED
      BY <1>0, <2>2, <2>4, <3>1, <3>2 DEF Fase
  <2>. QED
    BY <2>3, <2>4
<1>5. ASSUME NEW e \in Dirs, Libera(e) PROVE Fase(d)'
  <2>1. Logins(d)' = Logins(d)
    BY <1>5 DEF Libera, GuardadoFinal, TareaGuardar, Logins, EnVuelo
  <2>2. CASE e # d
    BY <1>0, <1>5, <2>1, <2>2, FaseIgual DEF Libera
  <2>3. CASE e = d
    <3>1. Logins(d) = {}
      <4>1. inact[d] \in Nat /\ inact[d] >= 2
        <5>1. inact[d] \in 0..3
          BY <1>0 DEF Inactividad
        <5>2. inact[d] >= 2
          BY <1>5, <2>3 DEF Libera, EstaInactiva, Inactividad
        <5>. QED
          BY <5>1, <5>2
      <4>2. \A t \in Logins(d) : inact[d] <= 1
        BY <1>0
      <4>. QED
        BY <4>1, <4>2
    <3>2. cliente'[d] \in {"fuera", "colgado"} /\ respuestas'[d] = <<>> /\ sesionesActivas'[d] = Nadie
          /\ d \notin sesionesKcp'
      BY <1>0, <1>5, <2>3 DEF Libera
    <3>. QED
      BY <2>1, <3>1, <3>2 DEF Fase
  <2>. QED
    BY <2>2, <2>3
<1>6. ASSUME NEW t \in tareas, Tarea(t), t \notin Logins(d) PROVE Fase(d)'
  <2>1. Logins(d)' = Logins(d)
    <3>1. CASE tareas' = tareas \ {t}
      BY <1>6, <3>1 DEF Logins, EnVuelo
    <3>2. ASSUME NEW w, Sucesora(t, w), tareas' = (tareas \ {t}) \cup {w}
          PROVE  Logins(d)' = Logins(d)
      BY <1>6, <3>2 DEF Sucesora, Logins, EnVuelo
    <3>. QED
      BY <1>6, <3>1, <3>2, TareaMarco DEF Base
  <2>2. UNCHANGED <<cliente, sesionesKcp>>
    BY <1>6 DEF Tarea, Autentica, Registra, RespondeLogin, Consulta, FallaConsulta, Activa, LeeX,
       LeeY, Actualiza, FallaSQL, servidor, clientes
  <2>3. sesionesActivas'[d] = sesionesActivas[d] /\ respuestas'[d] = respuestas[d]
    <3>1. CASE Registra(t) \/ RespondeLogin(t)
      <4>1. t.dir \in Dirs /\ t.dir # d
        BY <1>6, <3>1, Formas DEF Registra, RespondeLogin, Logins, EnVuelo, Base, Tipos, LoginT
      <4>. QED
        BY <1>0, <3>1, <4>1 DEF Registra, RespondeLogin, servidor
    <3>2. CASE ~(Registra(t) \/ RespondeLogin(t))
      BY <1>6, <3>2 DEF Tarea, Autentica, Consulta, FallaConsulta, Activa, LeeX, LeeY, Actualiza,
         FallaSQL, servidor
    <3>. QED
      BY <3>1, <3>2
  <2>. QED
    BY <1>0, <2>1, <2>2, <2>3, FaseIgual
<1>7. ASSUME NEW t \in Logins(d), Tarea(t) PROVE Fase(d)'
  <2>1. Logins(d) = {t} /\ respuestas[d] = <<>> /\ cliente[d] \in {"espera", "fuera"}
        /\ t \in LoginT /\ t.dir = d /\ (t.paso # "ok" => sesionesActivas[d] = Nadie)
    BY <1>0 DEF Fase
  <2>2. ASSUME NEW p, p # "vacio", tareas' = (tareas \ {t}) \cup {[t EXCEPT !.paso = p]}
        PROVE  Logins(d)' = {[t EXCEPT !.paso = p]} /\ [t EXCEPT !.paso = p].paso = p
    <3>1. [t EXCEPT !.paso = p].tipo = "login" /\ [t EXCEPT !.paso = p].dir = d
          /\ [t EXCEPT !.paso = p].paso = p
      BY <2>1 DEF LoginT
    <3>. QED
      BY <2>1, <2>2, <3>1 DEF Logins, EnVuelo
  <2>3. CASE Autentica(t, TRUE) \/ Autentica(t, FALSE)
    <3>1. PICK p \in {"put", "error"} : tareas' = (tareas \ {t}) \cup {[t EXCEPT !.paso = p]}
      BY <2>3 DEF Autentica
    <3>2. Logins(d)' = {[t EXCEPT !.paso = p]}
      BY <2>2, <3>1
    <3>. QED
      BY <1>0, <2>1, <2>3, <3>2 DEF Autentica, servidor, clientes, Fase
  <2>4. CASE Registra(t)
    <3>1. Logins(d)' = {[t EXCEPT !.paso = "ok"]} /\ [t EXCEPT !.paso = "ok"].paso = "ok"
      BY <2>2, <2>4 DEF Registra
    <3>. QED
      BY <1>0, <2>1, <2>4, <3>1 DEF Registra, clientes, Fase
  <2>5. CASE RespondeLogin(t)
    <3>1. Logins(d)' = {} /\ UNCHANGED <<sesionesActivas, cliente, sesionesKcp>>
      BY <2>1, <2>5 DEF RespondeLogin, Logins, EnVuelo, servidor, clientes
    <3>2. respuestas'[d] = IF cliente[d] = "fuera" THEN <<>> ELSE Respuesta(t)
      <4>1. \A S : \A r \in S : <<>> \o <<r>> = <<r>>
        OBVIOUS
      <4>2. <<>> \o Respuesta(t) = Respuesta(t)
        BY <4>1 DEF Respuesta
      <4>. QED
        BY <1>0, <2>1, <2>5, <4>2 DEF RespondeLogin
    <3>3. \/ Respuesta(t) = <<"S_LOGIN_OK">>
          \/ Respuesta(t) = <<"S_LOGIN_ERROR">> /\ sesionesActivas[d] = Nadie
      BY <2>1 DEF Respuesta
    <3>. QED
      BY <1>0, <2>1, <3>1, <3>2, <3>3 DEF Fase
  <2>. QED
    BY <1>0, <1>7, <2>3, <2>4, <2>5 DEF Tarea, Consulta, FallaConsulta, Activa, LeeX, LeeY, Actualiza,
       FallaSQL, Leida
<1>8. CASE Autoguardado
  <2>1. UNCHANGED <<sesionesKcp, sesionesActivas, respuestas, cliente>>
    BY <1>8 DEF Autoguardado, clientes
  <2>2. ASSUME NEW w \in Logins(d)'
        PROVE  \E t \in Logins(d) : w = [t EXCEPT !.vieja = TRUE] /\ w.paso = t.paso
    <3>1. w \in tareas' /\ w.tipo = "login" /\ w.dir = d
      BY DEF Logins, EnVuelo
    <3>2. PICK t \in tareas : w = [t EXCEPT !.vieja = TRUE] /\ w.tipo = t.tipo
      BY <1>8, <3>1, Marcadas DEF Base
    <3>3. t \in LoginT
      BY <3>1, <3>2, Formas DEF Base, Tipos
    <3>. QED
      BY <3>1, <3>2, <3>3 DEF Logins, EnVuelo, LoginT
  <2>. QED
    BY <1>0, <2>1, <2>2 DEF Fase
<1>9. CASE Reinicia
  <2>1. cliente'[d] \in {"nuevo", "fuera", "colgado"} /\ respuestas'[d] = <<>>
        /\ sesionesActivas'[d] = Nadie /\ sesionesKcp' = {} /\ Logins(d)' = {}
    BY <1>0, <1>9 DEF Reinicia, Logins, EnVuelo
  <2>. QED
    BY <2>1 DEF Fase
<1>10. CASE UNCHANGED vars
  BY <1>0, <1>10, FaseIgual DEF vars, servidor, clientes, Logins, EnVuelo
<1>. QED
  BY <1>1, <1>2, <1>3, <1>4, <1>5, <1>6, <1>7, <1>8, <1>9, <1>10 DEF Next, SoloCliente

LEMMA PasoCompartir == Base /\ SinCompartir /\ [Next]_vars => SinCompartir'
<1>. SUFFICES ASSUME Base, SinCompartir, [Next]_vars PROVE SinCompartir'
  OBVIOUS
<1>0. /\ sesionesActivas \in [Dirs -> 0..Len(jugadores)] /\ Len(jugadores) \in Nat
      /\ jugadores \in Seq(JugadorT) /\ Len(personajes) \in Nat
      /\ \A j \in 1..Len(jugadores) : jugadores[j].personajeActivo \in 0..Len(personajes)
  <2>1. \A j \in 1..Len(jugadores) : jugadores[j] \in JugadorT
    BY DEF Base, Tipos, TipoServidor
  <2>2. \A j \in 1..Len(jugadores) : jugadores[j].personajeActivo \in 0..Len(personajes)
    BY <2>1 DEF JugadorT
  <2>. QED
    BY <2>2 DEF Base, Tipos, TipoServidor
<1>1. ASSUME UNCHANGED <<sesionesActivas, jugadores>> PROVE SinCompartir'
  BY <1>1 DEF SinCompartir
<1>2. ASSUME NEW d \in Dirs, SoloCliente(d) PROVE SinCompartir'
  BY <1>1, <1>2, SoloClienteMarco
<1>3. ASSUME NEW d \in Dirs, \/ Datagrama(d) \/ EnviaLogin(d) \/ Mueve(d)
                             \/ \E c \in Ids : Entra(d, c)
      PROVE  SinCompartir'
  BY <1>1, <1>3 DEF Datagrama, EnviaLogin, Mueve, Entra
<1>4. ASSUME NEW d \in Dirs, Libera(d) PROVE SinCompartir'
  BY <1>0, <1>4 DEF Libera, SinCompartir
<1>5. ASSUME NEW t \in tareas, Registra(t) PROVE SinCompartir'
  <2>1. t.dir \in Dirs
    BY <1>5, Formas DEF Base, Tipos, Registra, LoginT
  <2>2. /\ sesionesActivas' = [sesionesActivas EXCEPT ![t.dir] = Len(jugadores) + 1]
        /\ Len(jugadores') = Len(jugadores) + 1
        /\ jugadores'[Len(jugadores) + 1] = [idCuenta |-> Cuenta[t.dir], personajeActivo |-> Nadie]
        /\ \A j \in 1..Len(jugadores) : jugadores'[j] = jugadores[j]
    BY <1>0, <1>5 DEF Registra
  <2>3. \A d, e \in Dirs : sesionesActivas'[d] = sesionesActivas'[e] /\ sesionesActivas'[d] # Nadie
          => d = e
    BY <1>0, <2>1, <2>2 DEF SinCompartir
  <2>4. ASSUME NEW i \in 1..Len(jugadores'), NEW j \in 1..Len(jugadores'),
               jugadores'[i].personajeActivo = jugadores'[j].personajeActivo,
               jugadores'[i].personajeActivo # Nadie
        PROVE  i = j
    <3>1. i \in 1..Len(jugadores) /\ j \in 1..Len(jugadores)
      BY <1>0, <2>2, <2>4
    <3>. QED
      BY <2>2, <2>4, <3>1 DEF SinCompartir
  <2>. QED
    BY <2>3, <2>4 DEF SinCompartir
<1>6. ASSUME NEW t \in tareas, Activa(t) PROVE SinCompartir'
  <2>1. t.jug \in 1..Len(jugadores)
    BY <1>6, Formas DEF Base, Tipos, Activa, CargarT
  <2>2. /\ Len(jugadores') = Len(jugadores) /\ UNCHANGED sesionesActivas
        /\ \A j \in 1..Len(jugadores) :
             jugadores'[j].personajeActivo =
               IF j = t.jug THEN Len(personajes) + 1 ELSE jugadores[j].personajeActivo
    BY <1>0, <1>6, <2>1 DEF Activa, Solicitante, JugadorT
  <2>. QED
    BY SMTT(30), <1>0, <2>1, <2>2 DEF SinCompartir
<1>7. ASSUME NEW t \in tareas, Tarea(t), ~Registra(t), ~Activa(t) PROVE SinCompartir'
  BY <1>1, <1>7 DEF Tarea, Autentica, RespondeLogin, Consulta, FallaConsulta, LeeX, LeeY, Actualiza,
     FallaSQL, servidor
<1>8. CASE Autoguardado
  BY <1>1, <1>8 DEF Autoguardado
<1>9. CASE Reinicia
  BY <1>9 DEF Reinicia, SinCompartir
<1>10. CASE UNCHANGED vars
  BY <1>1, <1>10 DEF vars, servidor
<1>. QED
  BY <1>2, <1>3, <1>4, <1>5, <1>6, <1>7, <1>8, <1>9, <1>10 DEF Next, SoloCliente

LEMMA EleccionIgual ==
  ASSUME NEW d \in Pacientes, Eleccion(d), cliente'[d] = cliente[d], elegido'[d] = elegido[d],
         Activo(d)' = Activo(d),
         Activo(d) # Nadie => personajes'[Activo(d)].id = personajes[Activo(d)].id,
         \A w \in Cargas(d)' : \E t \in Cargas(d) : w.id = t.id,
         fallos' = 0 => fallos = 0 /\ (Cargas(d) # {} => Cargas(d)' # {})
  PROVE  Eleccion(d)'
  BY DEF Eleccion

LEMMA PasoEleccion ==
  ASSUME Base, Fases, SinCompartir, Elecciones, [Next]_vars, NEW d \in Pacientes
  PROVE  Eleccion(d)'
<1>0. /\ d \in Dirs /\ d \notin Impacientes /\ Eleccion(d) /\ Fase(d)
      /\ sesionesActivas \in [Dirs -> 0..Len(jugadores)] /\ Len(jugadores) \in Nat
      /\ jugadores \in Seq(JugadorT) /\ Len(personajes) \in Nat
      /\ cliente \in [Dirs -> Escenas] /\ elegido \in [Dirs -> Ids \cup {Nadie}]
      /\ fallos \in Nat
      /\ Activo(d) # Nadie => sesionesActivas[d] \in 1..Len(jugadores) /\ Activo(d) \in 1..Len(personajes)
      /\ \A t \in EnVuelo("cargar") : t \in CargarT /\ t.jug \in 1..Len(jugadores)
  BY SMTT(30), Formas, ActivoTipo, SesionesAssumption
     DEF Base, Tipos, TipoServidor, TipoClientes, TipoHistoria, Pacientes, Elecciones, Fases, EnVuelo,
         CargarT
<1>1. sesionesActivas[d] = Nadie => Activo(d) = Nadie /\ Cargas(d) = {}
  BY <1>0 DEF Activo, Cargas, Nadie
<1>2. ASSUME UNCHANGED <<sesionesActivas, jugadores>> PROVE Activo(d)' = Activo(d)
  BY <1>2 DEF Activo
<1>3. ASSUME NEW e \in Dirs, SoloCliente(e) PROVE Eleccion(d)'
  <2>1. /\ UNCHANGED <<sesionesKcp, sesionesActivas, jugadores, personajes, tareas, fallos>>
        /\ Activo(d)' = Activo(d) /\ Cargas(d)' = Cargas(d)
    BY <1>2, <1>3, SoloClienteMarco DEF Cargas, EnVuelo
  <2>2. CASE cliente'[d] = cliente[d] /\ elegido'[d] = elegido[d]
    BY <1>0, <2>1, <2>2, EleccionIgual
  <2>3. CASE Conecta(e) /\ e = d
    <3>1. sesionesActivas[d] = Nadie /\ cliente'[d] = "nuevo"
      BY <1>0, <2>3 DEF Conecta, Base, SinFugas
    <3>. QED
      BY <1>1, <2>1, <3>1 DEF Eleccion
  <2>4. CASE Sale(e) /\ e = d
    <3>1. cliente'[d] = "fuera"
      BY <1>0, <2>4 DEF Sale
    <3>. QED
      BY <3>1 DEF Eleccion
  <2>5. CASE \/ (IrRegistro(e) \/ Volver(e) \/ MuestraLista(e)) /\ e = d
             \/ Recibe(e) /\ e = d /\ cliente[d] \in {"espera", "login"}
    <3>1. cliente[d] \notin {"mundo", "fuera"} /\ cliente'[d] \notin {"mundo", "fuera"}
      BY <1>0, <2>5 DEF IrRegistro, Volver, MuestraLista, Recibe
    <3>. QED
      BY <1>0, <2>1, <3>1 DEF Eleccion
  <2>6. \/ cliente'[d] = cliente[d] /\ elegido'[d] = elegido[d]
        \/ e = d /\ (Conecta(e) \/ Sale(e) \/ IrRegistro(e) \/ Volver(e) \/ MuestraLista(e))
        \/ e = d /\ Recibe(e) /\ cliente[d] \in {"espera", "login"}
    BY <1>0, <1>3 DEF SoloCliente, Conecta, Sale, IrRegistro, Volver, MuestraLista, Recibe
  <2>. QED
    BY <2>2, <2>3, <2>4, <2>5, <2>6
<1>4. ASSUME NEW e \in Dirs, Datagrama(e) PROVE Eleccion(d)'
  <2>1. UNCHANGED <<sesionesActivas, jugadores, personajes, tareas, fallos, cliente, elegido>>
    BY <1>4 DEF Datagrama, clientes, cuentas
  <2>. QED
    BY <1>0, <1>2, <2>1, EleccionIgual DEF Cargas, EnVuelo
<1>5. ASSUME NEW e \in Dirs, Mueve(e) PROVE Eleccion(d)'
  <2>1. UNCHANGED <<sesionesActivas, jugadores, tareas, fallos, cliente, elegido>>
    BY <1>5 DEF Mueve, clientes
  <2>2. Activo(d) # Nadie => personajes'[Activo(d)].id = personajes[Activo(d)].id
    <3>1. CASE Activo(e) = Nadie
      BY <1>5, <3>1 DEF Mueve
    <3>2. CASE Activo(e) # Nadie
      <4>1. PICK q : personajes' = [personajes EXCEPT ![Activo(e)] = [@ EXCEPT !.pos = q]]
        BY <1>5, <3>2 DEF Mueve
      <4>2. \A p \in 1..Len(personajes) : personajes[p] \in PersonajeT
        BY DEF Base, Tipos, TipoServidor
      <4>3. \A p \in 1..Len(personajes) : personajes'[p].id = personajes[p].id
        BY <4>1, <4>2 DEF Base, Tipos, TipoServidor, PersonajeT
      <4>. QED
        BY <1>0, <4>3
    <3>. QED
      BY <3>1, <3>2
  <2>. QED
    BY <1>0, <1>2, <2>1, <2>2, EleccionIgual DEF Cargas, EnVuelo
<1>6. ASSUME NEW e \in Dirs, EnviaLogin(e) PROVE Eleccion(d)'
  <2>1. /\ UNCHANGED <<sesionesActivas, jugadores, personajes, fallos, elegido>>
        /\ cliente[e] \in {"nuevo", "login"} /\ cliente' = [cliente EXCEPT ![e] = "espera"]
    BY <1>6 DEF EnviaLogin, cuentas
  <2>2. Cargas(d)' = Cargas(d) /\ Activo(d)' = Activo(d)
    BY <1>2, <1>6, <2>1 DEF EnviaLogin, TareaLogin, Cargas, EnVuelo
  <2>. QED
    BY <1>0, <2>1, <2>2 DEF Eleccion
<1>7. ASSUME NEW e \in Dirs, NEW c \in Ids, Entra(e, c) PROVE Eleccion(d)'
  <2>1. /\ UNCHANGED <<sesionesActivas, jugadores, personajes, fallos>>
        /\ cliente[e] = "lista" /\ cliente' = [cliente EXCEPT ![e] = "mundo"]
        /\ elegido' = [elegido EXCEPT ![e] = c]
        /\ tareas' = tareas \cup {TareaCargar(sesionesActivas[e], c)}
    BY <1>7 DEF Entra, cuentas, Base, Acceso
  <2>2. Activo(d)' = Activo(d)
    BY <1>2, <2>1
  <2>3. CASE e # d
    <3>1. sesionesActivas[e] # sesionesActivas[d]
      BY <1>0, <2>1, <2>3 DEF Base, Acceso, SinCompartir
    <3>2. Cargas(d)' = Cargas(d)
      BY <2>1, <3>1 DEF Cargas, EnVuelo, TareaCargar
    <3>. QED
      BY <1>0, <2>1, <2>2, <2>3, <3>2, EleccionIgual
  <2>4. CASE e = d
    <3>1. Cargas(d) = {} /\ Activo(d) = Nadie
      BY <1>0, <2>1, <2>4 DEF Eleccion
    <3>2. Cargas(d)' = {TareaCargar(sesionesActivas[d], c)}
      BY <2>1, <2>4, <3>1 DEF Cargas, EnVuelo, TareaCargar
    <3>3. TareaCargar(sesionesActivas[d], c).id = c /\ elegido'[d] = c /\ cliente'[d] = "mundo"
      BY <1>0, <2>1, <2>4 DEF TareaCargar
    <3>. QED
      BY <2>2, <3>1, <3>2, <3>3 DEF Eleccion
  <2>. QED
    BY <2>3, <2>4
<1>8. ASSUME NEW e \in Dirs, Libera(e) PROVE Eleccion(d)'
  <2>1. /\ UNCHANGED <<jugadores, personajes, fallos, elegido>>
        /\ sesionesActivas' = [sesionesActivas EXCEPT ![e] = Nadie]
        /\ cliente' = [cliente EXCEPT ![e] = IF @ = "fuera" THEN @ ELSE "colgado"]
    BY <1>8 DEF Libera, cuentas
  <2>2. EnVuelo("cargar")' = EnVuelo("cargar")
    BY <1>8 DEF Libera, GuardadoFinal, TareaGuardar, EnVuelo
  <2>3. CASE e # d
    BY <1>0, <2>1, <2>2, <2>3, EleccionIgual DEF Cargas, Activo
  <2>4. CASE e = d
    <3>1. sesionesActivas'[d] = Nadie /\ cliente'[d] # "mundo"
      BY <1>0, <2>1, <2>4
    <3>2. Activo(d)' = Nadie /\ Cargas(d)' = {}
      BY <1>0, <2>2, <3>1 DEF Activo, Cargas, Nadie
    <3>. QED
      BY <3>1, <3>2 DEF Eleccion
  <2>. QED
    BY <2>3, <2>4
<1>9. ASSUME NEW t \in tareas, Registra(t) PROVE Eleccion(d)'
  <2>1. t \in LoginT /\ t.dir \in Dirs /\ t \in Logins(t.dir)
    BY <1>9, Formas DEF Base, Tipos, Registra, LoginT, Logins, EnVuelo
  <2>2. /\ UNCHANGED <<personajes, fallos, cliente, elegido>>
        /\ sesionesActivas' = [sesionesActivas EXCEPT ![t.dir] = Len(jugadores) + 1]
        /\ jugadores'[Len(jugadores) + 1] = [idCuenta |-> Cuenta[t.dir], personajeActivo |-> Nadie]
        /\ \A j \in 1..Len(jugadores) : jugadores'[j] = jugadores[j]
    BY <1>0, <1>9 DEF Registra, clientes, cuentas
  <2>3. EnVuelo("cargar")' = EnVuelo("cargar")
    <3>1. [t EXCEPT !.paso = "ok"].tipo = "login"
      BY <2>1 DEF LoginT
    <3>. QED
      BY <1>9, <3>1 DEF Registra, EnVuelo
  <2>4. CASE t.dir # d
    <3>1. sesionesActivas'[d] = sesionesActivas[d]
      BY <1>0, <2>1, <2>2, <2>4
    <3>2. Activo(d)' = Activo(d) /\ Cargas(d)' = Cargas(d)
      BY <1>0, <2>2, <2>3, <3>1 DEF Activo, Cargas, Nadie
    <3>. QED
      BY <1>0, <2>2, <3>2, EleccionIgual
  <2>5. CASE t.dir = d
    <3>1. cliente[d] # "mundo"
      BY <1>0, <2>1, <2>5 DEF Fase
    <3>2. sesionesActivas'[d] = Len(jugadores) + 1 /\ Len(jugadores) + 1 # Nadie
      BY <1>0, <2>1, <2>2, <2>5 DEF Nadie
    <3>3. Activo(d)' = Nadie /\ Cargas(d)' = {}
      BY <1>0, <2>2, <2>3, <3>2 DEF Activo, Cargas
    <3>. QED
      BY <2>2, <3>1, <3>3 DEF Eleccion
  <2>. QED
    BY <2>4, <2>5
<1>10. ASSUME NEW t \in tareas, Activa(t) PROVE Eleccion(d)'
  <2>1. t \in CargarT /\ t.jug \in 1..Len(jugadores) /\ t \in EnVuelo("cargar")
    BY <1>10, Formas DEF Base, Tipos, Activa, CargarT, EnVuelo
  <2>2. /\ UNCHANGED <<sesionesActivas, fallos, cliente, elegido>> /\ tareas' = tareas \ {t}
        /\ personajes'[Len(personajes) + 1].id = t.id
        /\ \A p \in 1..Len(personajes) : personajes'[p] = personajes[p]
        /\ \A j \in 1..Len(jugadores) :
             jugadores'[j].personajeActivo =
               IF j = t.jug THEN Len(personajes) + 1 ELSE jugadores[j].personajeActivo
    <3>1. /\ personajes' = Append(personajes, Cargado(t)) /\ Cargado(t).id = t.id
          /\ personajes \in Seq(PersonajeT)
      BY <1>10 DEF Activa, Cargado, Base, Tipos, TipoServidor
    <3>2. jugadores' = [jugadores EXCEPT ![t.jug] = [@ EXCEPT !.personajeActivo = Len(personajes) + 1]]
      BY <1>10 DEF Activa, Solicitante
    <3>3. \A j \in 1..Len(jugadores) : jugadores[j] \in JugadorT
      BY <1>0
    <3>4. \A j \in 1..Len(jugadores) :
            jugadores'[j].personajeActivo =
              IF j = t.jug THEN Len(personajes) + 1 ELSE jugadores[j].personajeActivo
      BY SMTT(30), <1>0, <2>1, <3>2, <3>3 DEF JugadorT
    <3>5. /\ personajes'[Len(personajes) + 1] = Cargado(t)
          /\ \A p \in 1..Len(personajes) : personajes'[p] = personajes[p]
      BY <3>1
    <3>. QED
      BY <1>10, <3>1, <3>4, <3>5 DEF Activa, clientes, cuentas
  <2>3. CASE t.jug # sesionesActivas[d]
    <3>1. Cargas(d)' = Cargas(d)
      BY <2>2, <2>3 DEF Cargas, EnVuelo
    <3>2. Activo(d)' = Activo(d)
      BY <1>0, <2>2, <2>3 DEF Activo, Nadie
    <3>. QED
      BY <1>0, <2>2, <3>1, <3>2, EleccionIgual
  <2>4. CASE t.jug = sesionesActivas[d]
    <3>1. Activo(d)' = Len(personajes) + 1 /\ Len(personajes) + 1 # Nadie
      BY <1>0, <2>1, <2>2, <2>4 DEF Activo, Nadie
    <3>2. t \in Cargas(d) /\ cliente[d] \in {"mundo", "fuera"}
      BY <1>0, <2>1, <2>4 DEF Cargas, Eleccion
    <3>3. Cargas(d)' \subseteq Cargas(d)
      BY <2>2 DEF Cargas, EnVuelo
    <3>. QED
      BY <1>0, <2>2, <3>1, <3>2, <3>3 DEF Eleccion
  <2>. QED
    BY <2>3, <2>4
<1>11. ASSUME NEW t \in tareas, Tarea(t), ~Registra(t), ~Activa(t) PROVE Eleccion(d)'
  <2>1. UNCHANGED <<sesionesActivas, jugadores, personajes, cliente, elegido>>
    BY <1>11 DEF Tarea, Autentica, RespondeLogin, Consulta, FallaConsulta, LeeX, LeeY, Actualiza,
       FallaSQL, servidor, clientes
  <2>2. fallos' = fallos \/ fallos' = fallos + 1
    BY <1>11 DEF Tarea, Autentica, RespondeLogin, Consulta, FallaConsulta, LeeX, LeeY, Actualiza,
       FallaSQL, cuentas
  <2>3. \A w \in Cargas(d)' : \E v \in Cargas(d) : w.id = v.id
    <3>1. CASE tareas' = tareas \ {t}
      BY <2>1, <3>1 DEF Cargas, EnVuelo
    <3>2. ASSUME NEW s, Sucesora(t, s), tareas' = (tareas \ {t}) \cup {s}
          PROVE  \A w \in Cargas(d)' : \E v \in Cargas(d) : w.id = v.id
      BY <2>1, <3>2 DEF Sucesora, Cargas, EnVuelo
    <3>. QED
      BY <1>11, <3>1, <3>2, TareaMarco DEF Base
  <2>4. Cargas(d) # {} => Cargas(d)' # {} \/ fallos' = fallos + 1
    <3>1. CASE t.tipo # "cargar" /\ tareas' = tareas \ {t}
      BY <2>1, <3>1 DEF Cargas, EnVuelo
    <3>2. ASSUME NEW s, Sucesora(t, s), tareas' = (tareas \ {t}) \cup {s}
          PROVE  Cargas(d) # {} => Cargas(d)' # {}
      BY <2>1, <3>2 DEF Sucesora, Cargas, EnVuelo
    <3>3. t.tipo = "cargar" => Consulta(t) \/ FallaConsulta(t)
      BY <1>11 DEF Tarea, Autentica, RespondeLogin, LeeX, LeeY, Actualiza, FallaSQL, Leida
    <3>4. CASE FallaConsulta(t)
      BY <3>4 DEF FallaConsulta
    <3>5. CASE Consulta(t)
      <4>1. t \in CargarT
        BY <3>5, Formas DEF Consulta, Base, Tipos
      <4>2. Sucesora(t, [t EXCEPT !.leido = <<bbdd[t.id]>>])
        BY <3>5, <4>1 DEF Consulta, Sucesora, CargarT
      <4>. QED
        BY <3>2, <3>5, <4>2 DEF Consulta
    <3>. QED
      BY <1>11, <3>1, <3>2, <3>3, <3>4, <3>5, TareaMarco DEF Base
  <2>5. fallos' = 0 => fallos' = fallos /\ (Cargas(d) # {} => Cargas(d)' # {})
    BY <1>0, <2>2, <2>4
  <2>. QED
    BY <1>0, <1>2, <2>1, <2>3, <2>5, EleccionIgual
<1>12. CASE Autoguardado
  <2>1. UNCHANGED <<sesionesActivas, jugadores, personajes, fallos, cliente, elegido>>
    BY <1>12 DEF Autoguardado, clientes, cuentas
  <2>2. ASSUME NEW w \in Cargas(d)' PROVE \E t \in Cargas(d) : w.id = t.id
    <3>1. w \in tareas' /\ w.tipo = "cargar" /\ w.jug = sesionesActivas[d]
      BY <2>1 DEF Cargas, EnVuelo
    <3>2. PICK t \in tareas : w = [t EXCEPT !.vieja = TRUE] /\ w.tipo = t.tipo
      BY <1>12, <3>1, Marcadas DEF Base
    <3>3. t \in CargarT
      BY <3>1, <3>2, Formas DEF Base, Tipos
    <3>. QED
      BY <3>1, <3>2, <3>3 DEF Cargas, EnVuelo, CargarT
  <2>3. ASSUME NEW t \in Cargas(d) PROVE [t EXCEPT !.vieja = TRUE] \in Cargas(d)'
    <3>1. t \in tareas /\ t.tipo = "cargar" /\ t.jug = sesionesActivas[d] /\ t \in CargarT
      BY <1>0 DEF Cargas, EnVuelo
    <3>2. [t EXCEPT !.vieja = TRUE] \in tareas'
      BY <1>12, <3>1 DEF Autoguardado
    <3>. QED
      BY <2>1, <3>1, <3>2 DEF Cargas, EnVuelo, CargarT
  <2>. QED
    BY <1>0, <1>2, <2>1, <2>2, <2>3, EleccionIgual
<1>13. CASE Reinicia
  <2>1. cliente'[d] # "mundo" /\ sesionesActivas'[d] = Nadie /\ tareas' = {}
    BY <1>0, <1>13 DEF Reinicia
  <2>2. Activo(d)' = Nadie /\ Cargas(d)' = {}
    BY <2>1 DEF Activo, Cargas, EnVuelo
  <2>. QED
    BY <2>1, <2>2 DEF Eleccion
<1>14. CASE UNCHANGED vars
  <2>1. UNCHANGED <<sesionesActivas, jugadores, personajes, tareas, fallos, cliente, elegido>>
    BY <1>14 DEF vars, servidor, clientes, cuentas
  <2>. QED
    BY <1>0, <1>2, <2>1, EleccionIgual DEF Cargas, EnVuelo
<1>. QED
  BY <1>3, <1>4, <1>5, <1>6, <1>7, <1>8, <1>9, <1>10, <1>11, <1>12, <1>13, <1>14
     DEF Next, SoloCliente

LEMMA PasoLogin == Login /\ [Next]_vars => Login'
<1>. SUFFICES ASSUME Login, [Next]_vars PROVE Login'
  OBVIOUS
<1>1. Base' /\ SinCompartir'
  BY PasoBase, PasoCompartir DEF Login
<1>2. Fases'
  BY <1>1, PasoFase DEF Login, Fases, Pacientes
<1>3. Elecciones'
  BY PasoEleccion DEF Login, Elecciones, Pacientes
<1>. QED
  BY <1>1, <1>2, <1>3 DEF Login

THEOREM LoginCorrecto == Spec => []Login
<1>1. Init => Login
  BY InicioBase, InicioFases DEF Login
<1>. QED
  BY <1>1, PasoLogin, PTL DEF Spec

\* The movements of a client in the world move the character its user chose, if every
\* user waits at the login scene for the answer.
THEOREM MovimientosDelElegido ==
  ASSUME Impacientes = {}
  PROVE  Spec => []MovimientosLlegan
<1>1. Login => MovimientosLlegan
  <2>. SUFFICES ASSUME Login, NEW d \in Dirs, cliente[d] = "mundo", fallos = 0
                PROVE  \/ \E t \in EnVuelo("cargar") : t.jug = sesionesActivas[d] /\ t.id = elegido[d]
                       \/ Activo(d) # Nadie /\ personajes[Activo(d)].id = elegido[d]
    BY DEF MovimientosLlegan
  <2>1. Eleccion(d)
    BY DEF Login, Elecciones, Pacientes
  <2>. QED
    BY <2>1 DEF Eleccion, Cargas
<1>. QED
  BY <1>1, LoginCorrecto, PTL
=============================================================================
