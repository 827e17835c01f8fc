--------------------------- MODULE RegistroProofs ---------------------------
(* Proofs about Registro, for any users, correos, requests and failures. *)
EXTENDS Registro, TLAPS

-----------------------------------------------------------------------------
(* The inductive invariant *)

TareaT == [cli : Usuarios, op : {"registro", "login"}, correo : Correos, n : Nat,
           paso : {"sql", "ok", "error"}]

RespuestaT == [op : {"registro", "login"}, exito : BOOLEAN, correo : Correos]

\* TypeOK, with the domains it leaves out.
Tipos ==
  /\ TypeOK
  /\ tareas \subseteq TareaT
  /\ respuestas \in [Usuarios -> Seq(RespuestaT)]
  /\ peticiones \in [Usuarios -> Nat]

\* A statement that succeeded did so for the user whose password the row has, and no
\* row is ever given to another user.
TareasVeraces == \A t \in tareas : t.paso = "ok" => jugadores[t.correo] = t.cli

\* So are the replies, and S_LOGIN_OK is queued after the session is set.
RespuestasVeraces ==
  \A u \in Usuarios : \A i \in 1..Len(respuestas[u]) :
    respuestas[u][i].exito =>
      /\ jugadores[respuestas[u][i].correo] = u
      /\ respuestas[u][i].op = "login" => sesion[u] # Nadie

\* The registration scene of u is blocked, on a request of the correo c.
Bloqueado(u, c) ==
  /\ escena[u] = "registro" /\ activos[u] = FALSE /\ temporizador[u] = FALSE
  /\ formulario[u] = c

\* A prudent user has at most one registration under way, in the pool or in a reply,
\* and is still at the form it was made of.
UnRegistroDe(u) ==
  /\ \A t \in tareas : t.cli = u /\ t.op = "registro" =>
       /\ Bloqueado(u, t.correo)
       /\ \A v \in tareas : v.cli = u /\ v.op = "registro" => v = t
       /\ \A i \in 1..Len(respuestas[u]) : respuestas[u][i].op = "login"
  /\ \A i \in 1..Len(respuestas[u]) : respuestas[u][i].op = "registro" =>
       /\ Bloqueado(u, respuestas[u][i].correo)
       /\ \A j \in 1..Len(respuestas[u]) : respuestas[u][j].op = "registro" => j = i

UnRegistro == \A u \in Prudentes : UnRegistroDe(u)

\* The announcement is about a correo.
AnuncioDeAlgo == \A u \in Prudentes : etiqueta[u] = "exito" => formulario[u] \in Correos

IInv ==
  Tipos /\ TareasVeraces /\ RespuestasVeraces /\ UnRegistro
  /\ AnuncioVeraz /\ AnuncioDeAlgo /\ SesionPropia

-----------------------------------------------------------------------------
(* Sequences *)

\* What a sequence has after one more element.
LEMMA AlFinal ==
  ASSUME NEW S, NEW s \in Seq(S), NEW r \in S
  PROVE  /\ s \o <<r>> \in Seq(S) /\ Len(s \o <<r>>) = Len(s) + 1 /\ Len(s) \in Nat
         /\ \A i \in 1..Len(s) : (s \o <<r>>)[i] = s[i]
         /\ (s \o <<r>>)[Len(s) + 1] = r
  OBVIOUS

\* What it has without the first.
LEMMA AlResto ==
  ASSUME NEW S, NEW s \in Seq(S), s # <<>>
  PROVE  /\ Tail(s) \in Seq(S) /\ Head(s) = s[1] /\ 1 \in 1..Len(s) /\ Len(s) \in Nat
         /\ \A i \in 1..Len(Tail(s)) : i + 1 \in 1..Len(s) /\ Tail(s)[i] = s[i + 1]
  OBVIOUS

-----------------------------------------------------------------------------
(* The steps *)

LEMMA InicioIInv == Init => IInv
<1>. SUFFICES ASSUME Init PROVE IInv
  OBVIOUS
<1>1. Tipos
  BY RegistroAssumption DEF Init, Tipos, TypeOK
<1>2. RespuestasVeraces /\ UnRegistro
  BY RegistroAssumption DEF Init, RespuestasVeraces, UnRegistro, UnRegistroDe
<1>. QED
  BY <1>1, <1>2, RegistroAssumption DEF Init, IInv, TareasVeraces, AnuncioVeraz, AnuncioDeAlgo,
     SesionPropia

\* A form that is enabled has no registration under way.
LEMMA ActivoLibre ==
  ASSUME IInv, NEW u \in Prudentes,
         activos[u] \/ temporizador[u] \/ escena[u] # "registro"
  PROVE  /\ \A t \in tareas : ~(t.cli = u /\ t.op = "registro")
         /\ \A i \in 1..Len(respuestas[u]) : respuestas[u][i].op # "registro"
  BY DEF IInv, UnRegistro, UnRegistroDe, Bloqueado

\* A change of scene, which only a form with no registration under way makes.
LEMMA AbrePaso ==
  ASSUME IInv, NEW u \in Usuarios, NEW e \in {"login", "registro"}, Abre(u, e),
         UNCHANGED <<servidor, respuestas, peticiones>>,
         activos[u] \/ temporizador[u] \/ escena[u] # "registro"
  PROVE  IInv'
<1>1. /\ escena \in [Usuarios -> {"login", "registro", "seleccion"}]
      /\ activos \in [Usuarios -> BOOLEAN] /\ temporizador \in [Usuarios -> BOOLEAN]
      /\ formulario \in [Usuarios -> Correos \cup {Nadie}]
      /\ etiqueta \in [Usuarios -> {"nada", "espera", "exito", "error"}]
  BY DEF IInv, Tipos, TypeOK
<1>2. /\ escena' = [escena EXCEPT ![u] = e]
      /\ activos' = [activos EXCEPT ![u] = TRUE]
      /\ formulario' = [formulario EXCEPT ![u] = Nadie]
      /\ etiqueta' = [etiqueta EXCEPT ![u] = "nada"]
      /\ temporizador' = [temporizador EXCEPT ![u] = FALSE]
  BY DEF Abre
<1>3. UNCHANGED <<jugadores, tareas, sesion, fallos, respuestas, peticiones>>
  BY DEF servidor
<1>4. Tipos'
  BY <1>1, <1>2, <1>3 DEF IInv, Tipos, TypeOK
<1>5. ASSUME NEW v \in Usuarios, v # u
      PROVE  /\ escena'[v] = escena[v] /\ activos'[v] = activos[v]
             /\ formulario'[v] = formulario[v] /\ etiqueta'[v] = etiqueta[v]
             /\ temporizador'[v] = temporizador[v]
  BY <1>1, <1>2, <1>5
<1>6. UnRegistro'
  <2>. SUFFICES ASSUME NEW v \in Prudentes PROVE UnRegistroDe(v)'
    BY DEF UnRegistro
  <2>1. CASE v = u
    BY <1>3, <2>1, ActivoLibre DEF UnRegistroDe
  <2>2. CASE v # u
    <3>1. UnRegistroDe(v) /\ v \in Usuarios
      BY RegistroAssumption DEF IInv, UnRegistro
    <3>2. \A c : Bloqueado(v, c) => Bloqueado(v, c)'
      BY <1>5, <2>2, <3>1 DEF Bloqueado
    <3>. QED
      BY <1>3, <3>1, <3>2 DEF UnRegistroDe
  <2>. QED
    BY <2>1, <2>2
<1>7. AnuncioVeraz' /\ AnuncioDeAlgo'
  <2>. SUFFICES ASSUME NEW v \in Prudentes, etiqueta'[v] = "exito"
                PROVE  jugadores[formulario'[v]] = v /\ formulario'[v] \in Correos
    BY <1>3 DEF AnuncioVeraz, AnuncioDeAlgo
  <2>1. v \in Usuarios /\ v # u
    BY <1>1, <1>2, RegistroAssumption
  <2>. QED
    BY <1>5, <2>1 DEF IInv, AnuncioVeraz, AnuncioDeAlgo
<1>8. SesionPropia'
  <2>. SUFFICES ASSUME NEW v \in Usuarios, escena'[v] = "seleccion"
                PROVE  sesion[v] # Nadie
    BY <1>3 DEF IInv, SesionPropia
  <2>1. v # u
    BY <1>1, <1>2
  <2>. QED
    BY <1>5, <2>1 DEF IInv, SesionPropia
<1>9. TareasVeraces' /\ RespuestasVeraces'
  BY <1>3 DEF IInv, TareasVeraces, RespuestasVeraces
<1>. QED
  BY <1>4, <1>6, <1>7, <1>8, <1>9 DEF IInv

\* A statement is run: its task passes to a result, and no row changes hands.
LEMMA PasaPaso ==
  ASSUME IInv, NEW t \in tareas, NEW paso \in {"ok", "error"},
         tareas' = Pasa(t, paso),
         jugadores' \in [Correos -> Usuarios \cup {Nadie}],
         \A c \in Correos : jugadores[c] # Nadie => jugadores'[c] = jugadores[c],
         paso = "ok" => jugadores'[t.correo] = t.cli,
         fallos' \in 0..MaxFallos,
         UNCHANGED <<sesion, respuestas, pantalla, peticiones>>
  PROVE  IInv'
<1>. DEFINE t2 == [t EXCEPT !.paso = paso]
<1>1. /\ t \in TareaT
      /\ t2 \in TareaT /\ t2.cli = t.cli /\ t2.op = t.op /\ t2.correo = t.correo
      /\ t2.paso = paso /\ t2.n = t.n
  BY DEF IInv, Tipos, TareaT
<1>. HIDE DEF t2
<1>2. \A v : v \in tareas' <=> v = t2 \/ (v \in tareas /\ v # t)
  BY DEF Pasa, t2
<1>3. UNCHANGED <<sesion, respuestas, peticiones, escena, activos, formulario, etiqueta,
                  temporizador>>
  BY DEF pantalla
<1>4. \A u \in Usuarios, c \in Correos : jugadores[c] = u => jugadores'[c] = u
  BY RegistroAssumption
<1>5. Tipos'
  <2>1. \A v \in tareas' :
          /\ v \in TareaT
          /\ v.cli \in Usuarios /\ v.op \in {"registro", "login"} /\ v.correo \in Correos
          /\ v.n \in 1..MaxPeticiones[v.cli] /\ v.paso \in {"sql", "ok", "error"}
    BY <1>1, <1>2 DEF IInv, Tipos, TypeOK
  <2>. QED
    BY <1>3, <2>1 DEF IInv, Tipos, TypeOK
<1>6. TareasVeraces'
  <2>. SUFFICES ASSUME NEW v \in tareas', v.paso = "ok" PROVE jugadores'[v.correo] = v.cli
    BY DEF TareasVeraces
  <2>1. CASE v = t2
    BY <1>1, <2>1
  <2>2. CASE v \in tareas
    BY SMTT(30), <1>4, <2>2 DEF IInv, TareasVeraces, Tipos, TareaT
  <2>. QED
    BY <1>2, <2>1, <2>2
<1>7. ASSUME NEW u \in Usuarios, NEW i \in 1..Len(respuestas[u])
      PROVE  respuestas[u][i].correo \in Correos
  BY <1>7 DEF IInv, Tipos, TypeOK
<1>8. RespuestasVeraces'
  BY <1>3, <1>4, <1>7 DEF IInv, RespuestasVeraces
<1>9. UnRegistro'
  <2>. SUFFICES ASSUME NEW u \in Prudentes PROVE UnRegistroDe(u)'
    BY DEF UnRegistro
  <2>1. UnRegistroDe(u) /\ \A c : Bloqueado(u, c)' <=> Bloqueado(u, c)
    BY <1>3 DEF IInv, UnRegistro, Bloqueado
  <2>2. ASSUME NEW v \in tareas', v.cli = u, v.op = "registro"
        PROVE  /\ Bloqueado(u, v.correo)
               /\ \A w \in tareas' : w.cli = u /\ w.op = "registro" => w = v
               /\ \A i \in 1..Len(respuestas[u]) : respuestas[u][i].op = "login"
    <3>1. PICK v0 \in tareas : /\ v0.cli = u /\ v0.op = "registro" /\ v0.correo = v.correo
                               /\ v = t2 => v0 = t
                               /\ v # t2 => v0 = v
      BY <1>1, <1>2, <2>2
    <3>2. /\ Bloqueado(u, v0.correo)
          /\ \A w \in tareas : w.cli = u /\ w.op = "registro" => w = v0
          /\ \A i \in 1..Len(respuestas[u]) : respuestas[u][i].op = "login"
      BY <2>1, <3>1 DEF UnRegistroDe
    <3>3. ASSUME NEW w \in tareas', w.cli = u, w.op = "registro" PROVE w = v
      BY <1>1, <1>2, <3>1, <3>2, <3>3
    <3>. QED
      BY <3>1, <3>2, <3>3
  <2>. QED
    BY <1>3, <2>1, <2>2 DEF UnRegistroDe
<1>10. ASSUME NEW u \in Prudentes, etiqueta[u] = "exito" PROVE jugadores'[formulario[u]] = u
  <2>1. jugadores[formulario[u]] = u /\ u \in Usuarios /\ u # Nadie
    BY <1>10, RegistroAssumption DEF IInv, AnuncioVeraz
  <2>2. formulario[u] \in Correos
    BY <1>10 DEF IInv, AnuncioDeAlgo
  <2>. QED
    BY <1>4, <2>1, <2>2
<1>11. SesionPropia'
  BY <1>3, <1>4, <1>7 DEF IInv, SesionPropia, Tipos, TypeOK
<1>. QED
  BY <1>3, <1>5, <1>6, <1>8, <1>9, <1>10, <1>11 DEF IInv, AnuncioVeraz,
     AnuncioDeAlgo

\* A request: the form of a prudent user has no registration under way when it is sent.
LEMMA PidePaso ==
  ASSUME IInv, NEW u \in Usuarios, NEW op \in {"registro", "login"}, NEW c \in Correos,
         Pide(u, op, c), escena[u] = op,
         u \in Prudentes /\ op = "registro" => ~temporizador[u]
  PROVE  IInv'
<1>. DEFINE t == [cli |-> u, op |-> op, correo |-> c, n |-> peticiones[u] + 1, paso |-> "sql"]
<1>1. /\ escena \in [Usuarios -> {"login", "registro", "seleccion"}]
      /\ activos \in [Usuarios -> BOOLEAN] /\ temporizador \in [Usuarios -> BOOLEAN]
      /\ formulario \in [Usuarios -> Correos \cup {Nadie}]
      /\ etiqueta \in [Usuarios -> {"nada", "espera", "exito", "error"}]
      /\ peticiones \in [Usuarios -> Nat]
  BY DEF IInv, Tipos, TypeOK
<1>2. /\ activos[u]
      /\ peticiones' = [peticiones EXCEPT ![u] = @ + 1]
      /\ activos' = [activos EXCEPT ![u] = FALSE]
      /\ formulario' = [formulario EXCEPT ![u] = c]
      /\ etiqueta' = [etiqueta EXCEPT ![u] = "espera"]
      /\ UNCHANGED <<jugadores, sesion, fallos, respuestas, escena, temporizador>>
  BY DEF Pide
<1>3. peticiones'[u] = peticiones[u] + 1 /\ peticiones[u] + 1 \in 1..MaxPeticiones[u]
  <2>1. peticiones[u] < MaxPeticiones[u] /\ peticiones[u] \in Nat /\ MaxPeticiones[u] \in Nat
    BY <1>1, RegistroAssumption DEF Pide
  <2>. QED
    BY <1>1, <1>2, <2>1
<1>4. tareas' = tareas \cup {t}
  BY <1>3 DEF Pide
<1>5. /\ t \in TareaT /\ t.cli = u /\ t.op = op /\ t.correo = c /\ t.paso = "sql"
      /\ t.n \in 1..MaxPeticiones[u]
  BY <1>3 DEF TareaT
<1>. HIDE DEF t
<1>6. Tipos'
  <2>1. \A v \in tareas' :
          /\ v \in TareaT
          /\ v.cli \in Usuarios /\ v.op \in {"registro", "login"} /\ v.correo \in Correos
          /\ v.n \in 1..MaxPeticiones[v.cli] /\ v.paso \in {"sql", "ok", "error"}
    BY <1>4, <1>5 DEF IInv, Tipos, TypeOK
  <2>2. \A v \in Usuarios : peticiones'[v] \in 0..MaxPeticiones[v]
    BY <1>1, <1>2, <1>3 DEF IInv, Tipos, TypeOK
  <2>3. peticiones' \in [Usuarios -> Nat]
    BY <1>1, <1>2
  <2>. QED
    BY <1>1, <1>2, <2>1, <2>2, <2>3 DEF IInv, Tipos, TypeOK
<1>7. TareasVeraces'
  BY <1>2, <1>4, <1>5 DEF IInv, TareasVeraces
<1>8. RespuestasVeraces' /\ SesionPropia'
  BY <1>2 DEF IInv, RespuestasVeraces, SesionPropia
<1>9. UnRegistro'
  <2>. SUFFICES ASSUME NEW v \in Prudentes PROVE UnRegistroDe(v)'
    BY DEF UnRegistro
  <2>1. v \in Usuarios /\ UnRegistroDe(v)
    BY RegistroAssumption DEF IInv, UnRegistro
  <2>2. CASE v # u
    <3>1. \A e : Bloqueado(v, e) => Bloqueado(v, e)'
      BY <1>1, <1>2, <2>1, <2>2 DEF Bloqueado
    <3>. QED
      BY <1>2, <1>4, <1>5, <2>1, <2>2, <3>1 DEF UnRegistroDe
  <2>3. CASE v = u
    <3>1. /\ \A w \in tareas : ~(w.cli = u /\ w.op = "registro")
          /\ \A i \in 1..Len(respuestas[u]) : respuestas[u][i].op # "registro"
      BY <1>2, <2>3, ActivoLibre
    <3>2. op = "registro" => Bloqueado(u, c)'
      BY <1>1, <1>2, <2>3 DEF Bloqueado
    <3>3. \A i \in 1..Len(respuestas[u]) : respuestas[u][i].op = "login"
      <4>1. respuestas[u] \in Seq(RespuestaT)
        BY DEF IInv, Tipos
      <4>2. \A i \in 1..Len(respuestas[u]) : respuestas[u][i] \in RespuestaT
        BY <4>1
      <4>. QED
        BY <3>1, <4>2 DEF RespuestaT
    <3>. QED
      BY <1>2, <1>4, <1>5, <2>3, <3>1, <3>2, <3>3 DEF UnRegistroDe
  <2>. QED
    BY <2>2, <2>3
<1>10. AnuncioVeraz' /\ AnuncioDeAlgo'
  <2>. SUFFICES ASSUME NEW v \in Prudentes, etiqueta'[v] = "exito"
                PROVE  jugadores[formulario'[v]] = v /\ formulario'[v] \in Correos
    BY <1>2 DEF AnuncioVeraz, AnuncioDeAlgo
  <2>1. v \in Usuarios /\ v # u
    BY <1>1, <1>2, RegistroAssumption
  <2>2. etiqueta'[v] = etiqueta[v] /\ formulario'[v] = formulario[v]
    BY <1>1, <1>2, <2>1
  <2>. QED
    BY <2>2 DEF IInv, AnuncioVeraz, AnuncioDeAlgo
<1>. QED
  BY <1>6, <1>7, <1>8, <1>9, <1>10 DEF IInv

\* A callback: the reply takes the place of the task.
LEMMA RespondePaso ==
  ASSUME IInv, NEW t \in tareas, Responde(t)
  PROVE  IInv'
<1>. DEFINE u == t.cli
            r == [op |-> t.op, exito |-> t.paso = "ok", correo |-> t.correo]
<1>1. /\ t.cli \in Usuarios /\ t.op \in {"registro", "login"} /\ t.correo \in Correos
      /\ respuestas \in [Usuarios -> Seq(RespuestaT)] /\ sesion \in [Usuarios -> Correos \cup {Nadie}]
  BY DEF IInv, Tipos, TypeOK
<1>2. /\ r \in RespuestaT /\ r.op = t.op /\ r.correo = t.correo
      /\ r.exito => t.paso = "ok"
  BY <1>1 DEF RespuestaT
<1>3. /\ tareas' = tareas \ {t}
      /\ sesion' = IF t.op = "login" /\ t.paso = "ok"
                   THEN [sesion EXCEPT ![u] = t.correo] ELSE sesion
      /\ respuestas' = [respuestas EXCEPT ![u] = respuestas[u] \o <<r>>]
      /\ UNCHANGED <<jugadores, fallos, peticiones, escena, activos, formulario, etiqueta,
                     temporizador>>
  BY DEF Responde, Contesta, pantalla
<1>. HIDE DEF r
<1>. DEFINE s == respuestas[u]
<1>4. s \in Seq(RespuestaT) /\ u \in Usuarios
  BY <1>1
<1>5. /\ s \o <<r>> \in Seq(RespuestaT) /\ Len(s \o <<r>>) = Len(s) + 1 /\ Len(s) \in Nat
      /\ \A i \in 1..Len(s) : (s \o <<r>>)[i] = s[i]
      /\ (s \o <<r>>)[Len(s) + 1] = r
  BY <1>2, <1>4, AlFinal
<1>6. /\ respuestas' \in [Usuarios -> Seq(RespuestaT)]
      /\ respuestas'[u] = s \o <<r>>
      /\ \A v \in Usuarios \ {u} : respuestas'[v] = respuestas[v]
  BY <1>1, <1>3, <1>4, <1>5
<1>7. /\ \A i \in 1..Len(respuestas'[u]) :
           \/ i \in 1..Len(s) /\ respuestas'[u][i] = s[i]
           \/ i = Len(s) + 1 /\ respuestas'[u][i] = r
      /\ \A i \in 1..Len(s) : respuestas'[u][i] = s[i]
  BY <1>5, <1>6
<1>. HIDE DEF s
<1>8. /\ sesion' \in [Usuarios -> Correos \cup {Nadie}]
      /\ \A v \in Usuarios : sesion[v] # Nadie => sesion'[v] # Nadie
      /\ \A v \in Usuarios : sesion'[v] = sesion[v] \/ (v = u /\ sesion'[v] = t.correo /\ t.paso = "ok")
      /\ t.op = "login" /\ t.paso = "ok" => sesion'[u] = t.correo /\ sesion'[u] # Nadie
  BY <1>1, <1>3, RegistroAssumption
<1>9. Tipos'
  <2>1. \A v \in Usuarios : \A i \in 1..Len(respuestas'[v]) : respuestas'[v][i].correo \in Correos
    <3>. SUFFICES ASSUME NEW v \in Usuarios, NEW i \in 1..Len(respuestas'[v])
                  PROVE  respuestas'[v][i] \in RespuestaT
      BY DEF RespuestaT
    <3>1. respuestas'[v] \in Seq(RespuestaT)
      BY <1>6
    <3>. QED
      BY <3>1
  <2>. QED
    BY <1>3, <1>6, <1>8, <2>1 DEF IInv, Tipos, TypeOK
<1>10. TareasVeraces'
  BY <1>3 DEF IInv, TareasVeraces
<1>11. \A v \in Usuarios : \A i \in 1..Len(respuestas[v]) :
         respuestas[v][i].exito =>
            /\ jugadores[respuestas[v][i].correo] = v
            /\ respuestas[v][i].op = "login" => sesion'[v] # Nadie
  BY <1>8 DEF IInv, RespuestasVeraces
<1>12. r.exito => jugadores[r.correo] = u /\ (r.op = "login" => sesion'[u] # Nadie)
  BY <1>2, <1>8 DEF IInv, TareasVeraces
<1>13. RespuestasVeraces'
  <2>. SUFFICES ASSUME NEW v \in Usuarios, NEW i \in 1..Len(respuestas'[v]), respuestas'[v][i].exito
                PROVE  /\ jugadores[respuestas'[v][i].correo] = v
                       /\ respuestas'[v][i].op = "login" => sesion'[v] # Nadie
    BY <1>3 DEF RespuestasVeraces
  <2>1. CASE v # u
    BY <1>6, <1>11, <2>1
  <2>2. CASE v = u
    BY SMTT(30), <1>7, <1>11, <1>12, <2>2 DEF s
  <2>. QED
    BY <2>1, <2>2
<1>14. UnRegistro'
  <2>. SUFFICES ASSUME NEW v \in Prudentes PROVE UnRegistroDe(v)'
    BY DEF UnRegistro
  <2>1. v \in Usuarios /\ UnRegistroDe(v) /\ \A c : Bloqueado(v, c)' <=> Bloqueado(v, c)
    BY <1>3, RegistroAssumption DEF IInv, UnRegistro, Bloqueado
  <2>2. CASE v # u
    BY <1>3, <1>6, <2>1, <2>2 DEF UnRegistroDe
  <2>3. CASE v = u /\ t.op = "registro"
    <3>1. /\ Bloqueado(u, t.correo)
          /\ \A w \in tareas : w.cli = u /\ w.op = "registro" => w = t
          /\ \A i \in 1..Len(s) : s[i].op = "login"
      BY <2>1, <2>3 DEF UnRegistroDe, s
    <3>2. \A i \in 1..Len(respuestas'[u]) : respuestas'[u][i].op = "registro" =>
            i = Len(s) + 1 /\ respuestas'[u][i] = r
      BY <1>7, <3>1
    <3>3. \A w \in tareas' : ~(w.cli = u /\ w.op = "registro")
      BY <1>3, <3>1
    <3>4. \A i \in 1..Len(respuestas'[u]) : respuestas'[u][i].op = "registro" =>
            /\ Bloqueado(u, respuestas'[u][i].correo)
            /\ \A j \in 1..Len(respuestas'[u]) : respuestas'[u][j].op = "registro" => j = i
      BY <1>2, <3>1, <3>2
    <3>. QED
      BY <2>1, <2>3, <3>3, <3>4 DEF UnRegistroDe
  <2>4. CASE v = u /\ t.op = "login"
    <3>1. \A i \in 1..Len(respuestas'[u]) :
            \/ respuestas'[u][i].op = "login"
            \/ i \in 1..Len(s) /\ respuestas'[u][i] = s[i]
      BY <1>2, <1>7, <2>4
    <3>2. ASSUME NEW i \in 1..Len(respuestas'[u]), respuestas'[u][i].op = "registro"
          PROVE  /\ Bloqueado(u, respuestas'[u][i].correo)
                 /\ \A j \in 1..Len(respuestas'[u]) : respuestas'[u][j].op = "registro" => j = i
      <4>1. i \in 1..Len(s) /\ respuestas'[u][i] = s[i]
        BY <3>1, <3>2
      <4>2. \A j \in 1..Len(respuestas'[u]) : respuestas'[u][j].op = "registro" =>
              j \in 1..Len(s) /\ respuestas'[u][j] = s[j]
        BY <3>1
      <4>. QED
        BY <2>1, <2>4, <3>2, <4>1, <4>2 DEF UnRegistroDe, s
    <3>3. ASSUME NEW w \in tareas', w.cli = u, w.op = "registro"
          PROVE  /\ Bloqueado(u, w.correo)
                 /\ \A x \in tareas' : x.cli = u /\ x.op = "registro" => x = w
                 /\ \A i \in 1..Len(respuestas'[u]) : respuestas'[u][i].op = "login"
      <4>1. w \in tareas
        BY <1>3
      <4>2. /\ Bloqueado(u, w.correo)
            /\ \A x \in tareas : x.cli = u /\ x.op = "registro" => x = w
            /\ \A i \in 1..Len(s) : s[i].op = "login"
        BY <2>1, <2>4, <3>3, <4>1 DEF UnRegistroDe, s
      <4>. QED
        BY <1>3, <3>1, <4>2
    <3>. QED
      BY <2>1, <2>4, <3>2, <3>3 DEF UnRegistroDe
  <2>. QED
    BY <1>1, <2>2, <2>3, <2>4
<1>15. AnuncioVeraz' /\ AnuncioDeAlgo'
  BY <1>3 DEF IInv, AnuncioVeraz, AnuncioDeAlgo
<1>16. SesionPropia'
  <2>. SUFFICES ASSUME NEW v \in Usuarios
                PROVE  /\ sesion'[v] # Nadie => jugadores[sesion'[v]] = v
                       /\ escena[v] = "seleccion" => sesion'[v] # Nadie
    BY <1>3, <1>13 DEF SesionPropia, RespuestasVeraces
  <2>1. t.paso = "ok" => jugadores[t.correo] = u
    BY DEF IInv, TareasVeraces
  <2>. QED
    BY <1>8, <2>1 DEF IInv, SesionPropia
<1>. QED
  BY <1>9, <1>10, <1>13, <1>14, <1>15, <1>16 DEF IInv

\* A reply: the registration it answers was the only one of a prudent user.
LEMMA RecibePaso ==
  ASSUME IInv, NEW u \in Usuarios, Recibe(u)
  PROVE  IInv'
<1>. DEFINE s == respuestas[u]
            r == Head(s)
<1>1. /\ escena \in [Usuarios -> {"login", "registro", "seleccion"}]
      /\ activos \in [Usuarios -> BOOLEAN] /\ temporizador \in [Usuarios -> BOOLEAN]
      /\ formulario \in [Usuarios -> Correos \cup {Nadie}]
      /\ etiqueta \in [Usuarios -> {"nada", "espera", "exito", "error"}]
      /\ respuestas \in [Usuarios -> Seq(RespuestaT)]
  BY DEF IInv, Tipos, TypeOK
<1>2. /\ s # <<>> /\ s \in Seq(RespuestaT)
      /\ respuestas' = [respuestas EXCEPT ![u] = Tail(s)]
      /\ UNCHANGED <<jugadores, tareas, sesion, fallos, peticiones>>
  BY <1>1 DEF Recibe, servidor
<1>3. /\ Tail(s) \in Seq(RespuestaT) /\ r = s[1] /\ 1 \in 1..Len(s) /\ r \in RespuestaT
      /\ \A i \in 1..Len(Tail(s)) : i + 1 \in 1..Len(s) /\ Tail(s)[i] = s[i + 1] /\ i \in Nat \ {0}
  <2>1. /\ Tail(s) \in Seq(RespuestaT) /\ Head(s) = s[1] /\ 1 \in 1..Len(s)
        /\ \A i \in 1..Len(Tail(s)) : i + 1 \in 1..Len(s) /\ Tail(s)[i] = s[i + 1]
    BY <1>2, AlResto
  <2>. QED
    BY <1>2, <2>1
<1>4. /\ respuestas' \in [Usuarios -> Seq(RespuestaT)]
      /\ respuestas'[u] = Tail(s)
      /\ \A v \in Usuarios \ {u} : respuestas'[v] = respuestas[v]
      /\ \A i \in 1..Len(respuestas'[u]) :
           i + 1 \in 1..Len(s) /\ respuestas'[u][i] = s[i + 1] /\ i \in Nat \ {0}
  BY <1>1, <1>2, <1>3
<1>5. \/ UNCHANGED <<escena, activos, formulario, etiqueta, temporizador>>
      \/ r.op = escena[u] /\ r.op = "login" /\ r.exito /\ Abre(u, "seleccion")
      \/ /\ r.op = escena[u] /\ ~(r.op = "login" /\ r.exito)
         /\ activos' = [activos EXCEPT ![u] = TRUE]
         /\ etiqueta' = [etiqueta EXCEPT ![u] = IF r.exito THEN "exito" ELSE "error"]
         /\ temporizador' = [temporizador EXCEPT ![u] = @ \/ r.exito]
         /\ UNCHANGED <<escena, formulario>>
  BY DEF Recibe, Muestra, pantalla
<1>. HIDE DEF r
<1>6. /\ escena' \in [Usuarios -> {"login", "registro", "seleccion"}]
      /\ activos' \in [Usuarios -> BOOLEAN] /\ temporizador' \in [Usuarios -> BOOLEAN]
      /\ formulario' \in [Usuarios -> Correos \cup {Nadie}]
      /\ etiqueta' \in [Usuarios -> {"nada", "espera", "exito", "error"}]
  <2>1. r.exito \in BOOLEAN
    BY <1>3 DEF RespuestaT
  <2>. QED
    BY <1>1, <1>5, <2>1 DEF Abre
<1>7. ASSUME NEW v \in Usuarios, v # u
      PROVE  /\ escena'[v] = escena[v] /\ activos'[v] = activos[v]
             /\ formulario'[v] = formulario[v] /\ etiqueta'[v] = etiqueta[v]
             /\ temporizador'[v] = temporizador[v]
  BY <1>1, <1>5, <1>7 DEF Abre
<1>8. Tipos'
  <2>1. \A v \in Usuarios : \A i \in 1..Len(respuestas'[v]) : respuestas'[v][i].correo \in Correos
    <3>. SUFFICES ASSUME NEW v \in Usuarios, NEW i \in 1..Len(respuestas'[v])
                  PROVE  respuestas'[v][i] \in RespuestaT
      BY DEF RespuestaT
    <3>1. respuestas'[v] \in Seq(RespuestaT)
      BY <1>4
    <3>. QED
      BY <3>1
  <2>. QED
    BY <1>2, <1>4, <1>6, <2>1 DEF IInv, Tipos, TypeOK
<1>9. RespuestasVeraces'
  <2>. SUFFICES ASSUME NEW v \in Usuarios, NEW i \in 1..Len(respuestas'[v]), respuestas'[v][i].exito
                PROVE  /\ jugadores[respuestas'[v][i].correo] = v
                       /\ respuestas'[v][i].op = "login" => sesion[v] # Nadie
    BY <1>2 DEF RespuestasVeraces
  <2>1. CASE v # u
    BY <1>4, <2>1 DEF IInv, RespuestasVeraces
  <2>2. CASE v = u
    <3>1. i + 1 \in 1..Len(s) /\ respuestas'[v][i] = s[i + 1]
      BY <1>4, <2>2
    <3>2. s[i + 1].exito => /\ jugadores[s[i + 1].correo] = u
                            /\ s[i + 1].op = "login" => sesion[u] # Nadie
      BY <3>1 DEF IInv, RespuestasVeraces
    <3>. QED
      BY <2>2, <3>1, <3>2
  <2>. QED
    BY <2>1, <2>2
<1>10. r.exito => jugadores[r.correo] = u /\ (r.op = "login" => sesion[u] # Nadie)
  BY <1>3 DEF IInv, RespuestasVeraces
<1>11. ASSUME u \in Prudentes, r.op = escena[u]
       PROVE  /\ \A t \in tareas : ~(t.cli = u /\ t.op = "registro")
              /\ \A i \in 1..Len(respuestas'[u]) : respuestas'[u][i].op # "registro"
              /\ r.op = "registro" => formulario[u] = r.correo
  <2>1. UnRegistroDe(u)
    BY <1>11 DEF IInv, UnRegistro
  <2>2. CASE escena[u] = "registro"
    <3>1. /\ Bloqueado(u, s[1].correo)
          /\ \A j \in 1..Len(s) : s[j].op = "registro" => j = 1
          /\ \A t \in tareas : ~(t.cli = u /\ t.op = "registro")
      BY <1>3, <1>11, <2>1, <2>2 DEF UnRegistroDe
    <3>2. ASSUME NEW i \in 1..Len(respuestas'[u]) PROVE respuestas'[u][i].op # "registro"
      <4>1. i + 1 \in 1..Len(s) /\ i + 1 # 1 /\ respuestas'[u][i] = s[i + 1]
        BY <1>4, <3>2
      <4>. QED
        BY <3>1, <4>1
    <3>. QED
      BY <1>3, <3>1, <3>2 DEF Bloqueado
  <2>3. CASE escena[u] # "registro"
    BY <1>4, <1>11, <2>3, ActivoLibre
  <2>. QED
    BY <2>2, <2>3
<1>12. UnRegistro'
  <2>. SUFFICES ASSUME NEW v \in Prudentes PROVE UnRegistroDe(v)'
    BY DEF UnRegistro
  <2>1. v \in Usuarios /\ UnRegistroDe(v)
    BY RegistroAssumption DEF IInv, UnRegistro
  <2>2. CASE v # u
    <3>1. \A c : Bloqueado(v, c) => Bloqueado(v, c)'
      BY <1>7, <2>1, <2>2 DEF Bloqueado
    <3>. QED
      BY <1>2, <1>4, <2>1, <2>2, <3>1 DEF UnRegistroDe
  <2>3. CASE v = u /\ r.op = escena[u]
    BY <1>2, <1>11, <2>3 DEF UnRegistroDe
  <2>4. CASE v = u /\ UNCHANGED <<escena, activos, formulario, etiqueta, temporizador>>
    <3>1. \A c : Bloqueado(u, c)' <=> Bloqueado(u, c)
      BY <2>4 DEF Bloqueado
    <3>2. ASSUME NEW i \in 1..Len(respuestas'[u]), respuestas'[u][i].op = "registro"
          PROVE  /\ Bloqueado(u, respuestas'[u][i].correo)
                 /\ \A j \in 1..Len(respuestas'[u]) : respuestas'[u][j].op = "registro" => j = i
      <4>1. /\ Bloqueado(u, s[i + 1].correo)
            /\ \A j \in 1..Len(s) : s[j].op = "registro" => j = i + 1
        BY <1>4, <2>1, <2>4, <3>2 DEF UnRegistroDe
      <4>2. ASSUME NEW j \in 1..Len(respuestas'[u]), respuestas'[u][j].op = "registro"
            PROVE  j = i
        <5>1. j + 1 = i + 1 /\ i \in Nat /\ j \in Nat
          BY <1>4, <4>1, <4>2
        <5>. QED
          BY <5>1
      <4>. QED
        BY <1>4, <4>1, <4>2
    <3>3. ASSUME NEW w \in tareas, w.cli = u, w.op = "registro"
          PROVE  /\ Bloqueado(u, w.correo)
                 /\ \A x \in tareas : x.cli = u /\ x.op = "registro" => x = w
                 /\ \A i \in 1..Len(respuestas'[u]) : respuestas'[u][i].op = "login"
      BY <1>4, <2>1, <2>4, <3>3 DEF UnRegistroDe
    <3>. QED
      BY <1>2, <2>4, <3>1, <3>2, <3>3 DEF UnRegistroDe
  <2>. QED
    BY <1>5, <2>2, <2>3, <2>4
<1>13. AnuncioVeraz' /\ AnuncioDeAlgo'
  <2>. SUFFICES ASSUME NEW v \in Prudentes, etiqueta'[v] = "exito"
                PROVE  jugadores[formulario'[v]] = v /\ formulario'[v] \in Correos
    BY <1>2 DEF AnuncioVeraz, AnuncioDeAlgo
  <2>1. v \in Usuarios
    BY RegistroAssumption
  <2>2. CASE etiqueta'[v] = etiqueta[v] /\ formulario'[v] = formulario[v]
    BY <2>2 DEF IInv, AnuncioVeraz, AnuncioDeAlgo
  <2>3. CASE ~(etiqueta'[v] = etiqueta[v] /\ formulario'[v] = formulario[v])
    <3>1. v = u
      BY <1>7, <2>1, <2>3
    <3>2. r.op = escena[u] /\ r.op # "login" /\ r.exito /\ formulario'[u] = formulario[u]
      BY <1>1, <1>5, <2>3, <3>1 DEF Abre
    <3>3. r.op = "registro" /\ r.correo \in Correos
      BY <1>3, <3>2 DEF RespuestaT
    <3>. QED
      BY <1>10, <1>11, <3>1, <3>2, <3>3
  <2>. QED
    BY <2>2, <2>3
<1>14. SesionPropia'
  <2>. SUFFICES ASSUME NEW v \in Usuarios, escena'[v] = "seleccion"
                PROVE  sesion[v] # Nadie
    BY <1>2, <1>9 DEF IInv, SesionPropia, RespuestasVeraces
  <2>1. CASE escena'[v] = escena[v]
    BY <2>1 DEF IInv, SesionPropia
  <2>2. CASE escena'[v] # escena[v]
    BY <1>5, <1>7, <1>10, <2>2
  <2>. QED
    BY <2>1, <2>2
<1>15. TareasVeraces'
  BY <1>2 DEF IInv, TareasVeraces
<1>. QED
  BY <1>8, <1>9, <1>12, <1>13, <1>14, <1>15 DEF IInv

LEMMA PasoIInv == IInv /\ [Next]_vars => IInv'
<1>. SUFFICES ASSUME IInv, [Next]_vars PROVE IInv'
  OBVIOUS
<1>1. ASSUME NEW u \in Usuarios, NEW c \in Correos, PulsaRegistro(u, c) PROVE IInv'
  BY <1>1, PidePaso DEF PulsaRegistro
<1>2. ASSUME NEW u \in Usuarios, NEW c \in Correos, PulsaLogin(u, c) PROVE IInv'
  BY <1>2, PidePaso DEF PulsaLogin
<1>3. ASSUME NEW u \in Usuarios, IrARegistro(u) PROVE IInv'
  BY <1>3, AbrePaso DEF IrARegistro
<1>4. ASSUME NEW u \in Usuarios, Volver(u) PROVE IInv'
  BY <1>4, AbrePaso DEF Volver
<1>5. ASSUME NEW u \in Usuarios, Redirige(u) PROVE IInv'
  BY <1>5, AbrePaso DEF Redirige
<1>6. ASSUME NEW u \in Usuarios, Recibe(u) PROVE IInv'
  BY <1>6, RecibePaso
<1>7. ASSUME NEW t \in tareas PROVE /\ t.cli \in Usuarios /\ t.correo \in Correos
                                    /\ jugadores \in [Correos -> Usuarios \cup {Nadie}]
                                    /\ fallos \in 0..MaxFallos
  BY <1>7 DEF IInv, Tipos, TypeOK
<1>8. ASSUME NEW t \in tareas, Libre(t.correo), Inserta(t)
      PROVE  /\ jugadores' \in [Correos -> Usuarios \cup {Nadie}]
             /\ \A c \in Correos : jugadores[c] # Nadie => jugadores'[c] = jugadores[c]
             /\ jugadores'[t.correo] = t.cli
  BY <1>7, <1>8 DEF Libre, Inserta
<1>9. ASSUME NEW t \in tareas, Registra(t) PROVE IInv'
  <2>1. CASE Libre(t.correo)
    BY <1>7, <1>8, <1>9, <2>1, PasaPaso DEF Registra
  <2>2. CASE ~Libre(t.correo)
    <3>1. tareas' = Pasa(t, "error") /\ UNCHANGED jugadores
          /\ UNCHANGED <<sesion, fallos, respuestas, pantalla, peticiones>>
      BY <1>9, <2>2 DEF Registra
    <3>. QED
      BY <1>7, <3>1, PasaPaso
  <2>. QED
    BY <2>1, <2>2
<1>10. ASSUME NEW t \in tareas, Autentica(t) PROVE IInv'
  <2>1. /\ UNCHANGED <<jugadores, sesion, fallos, respuestas, pantalla, peticiones>>
        /\ \/ tareas' = Pasa(t, "ok") /\ jugadores[t.correo] = t.cli
           \/ tareas' = Pasa(t, "error")
    BY <1>10 DEF Autentica, Coincide
  <2>. QED
    BY <1>7, <2>1, PasaPaso
<1>11. ASSUME NEW t \in tareas, FallaSQL(t) PROVE IInv'
  <2>1. fallos' \in 0..MaxFallos
    BY <1>7, <1>11, RegistroAssumption DEF FallaSQL
  <2>2. tareas' = Pasa(t, "error") /\ UNCHANGED <<sesion, respuestas, pantalla, peticiones>>
    BY <1>11 DEF FallaSQL, TrasFallo
  <2>3. UNCHANGED jugadores \/ (Libre(t.correo) /\ Inserta(t))
    BY <1>11 DEF FallaSQL
  <2>. QED
    BY <1>7, <1>8, <2>1, <2>2, <2>3, PasaPaso
<1>12. ASSUME NEW t \in tareas, Responde(t) PROVE IInv'
  BY <1>12, RespondePaso
<1>13. CASE UNCHANGED vars
  <2>1. UNCHANGED <<jugadores, tareas, sesion, fallos, respuestas, peticiones, escena, activos,
                    formulario, etiqueta, temporizador>>
    BY <1>13 DEF vars, servidor, pantalla
  <2>. QED
    BY <2>1 DEF IInv, Tipos, TypeOK, TareasVeraces, RespuestasVeraces, UnRegistro, UnRegistroDe,
       Bloqueado, AnuncioVeraz, AnuncioDeAlgo, SesionPropia
<1>. QED
  BY <1>1, <1>2, <1>3, <1>4, <1>5, <1>6, <1>9, <1>10, <1>11, <1>12, <1>13 DEF Next, Ejecuta

-----------------------------------------------------------------------------
(* Theorems *)

THEOREM RegistroCorrecto == Spec => []IInv
  BY InicioIInv, PasoIInv, PTL DEF Spec

\* Type correctness.
THEOREM RegistroTipos == Spec => []TypeOK
<1>1. IInv => TypeOK
  BY DEF IInv, Tipos
<1>. QED
  BY <1>1, RegistroCorrecto, PTL

\* A prudent user is told of success only of the correo that the user can log in with.
THEOREM AnunciosVeraces == Spec => []AnuncioVeraz
<1>1. IInv => AnuncioVeraz
  BY DEF IInv
<1>. QED
  BY <1>1, RegistroCorrecto, PTL

\* A session, or a success on its way, is of the account with the user's password.
THEOREM SesionesPropias == Spec => []SesionPropia
<1>1. IInv => SesionPropia
  BY DEF IInv
<1>. QED
  BY <1>1, RegistroCorrecto, PTL
=============================================================================
