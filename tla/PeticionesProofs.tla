-------------------------- MODULE PeticionesProofs --------------------------
(***************************************************************************)
(* Proofs about Peticiones: types, and that the list and the selection of a *)
(* user who waits for answers agree with the table, for any number of users, *)
(* characters, names and requests under way.                                *)
(*                                                                          *)
(* The argument: a user who waits has at most one list or deletion under     *)
(* way, and none outside the selection scene (UnaEspera).  So nothing deletes *)
(* a row of theirs between the statement of a list and the moment it is      *)
(* shown, and a list that was asked for after a creation was confirmed has    *)
(* it (Vista).                                                               *)
(***************************************************************************)
EXTENDS Peticiones, FiniteSetTheorems, TLAPS

Ops == {"lista", "crear", "eliminar"}
Lentas == {"lista", "eliminar"}
Escenas == {"seleccion", "creacion", "mundo"}

Encargo ==
  [cli : Clientes, op : Ops, dato : Nombres \cup (1..MaxIds) \cup {Ninguno},
   hecho : BOOLEAN, res : SUBSET (1..MaxIds), n : 1..MaxVuelo]

Respuesta == [op : Ops, res : SUBSET (1..MaxIds)]

\* TypeOK, with the domains of the functions and the fields of the records.
Tipos ==
  /\ personajes \subseteq [id : 1..MaxIds, jugador_id : Clientes, nombre : Nombres]
  /\ siguiente \in 1..(MaxIds + 1)
  /\ tareas \subseteq Encargo
  /\ \A t \in tareas : t.op = "crear" => t.dato \in Nombres
  /\ respuestas \in [Clientes -> Seq(Respuesta)]
  /\ escena \in [Clientes -> Escenas]
  /\ lista \in [Clientes -> SUBSET (1..MaxIds)]
  /\ seleccionado \in [Clientes -> (1..MaxIds) \cup {Ninguno}]
  /\ confirmar \in [Clientes -> BOOLEAN]
  /\ creados \in [Clientes -> SUBSET (1..MaxIds)]
  /\ borrados \in [Clientes -> SUBSET (1..MaxIds)]
  /\ fallos \in 0..MaxFallos

\* The requests of a client under way fit in its bound, and the rows that are still
\* to be created in theirs.
Creando == {t \in tareas : t.op = "crear" /\ ~t.hecho}

CuentaDe(c) ==
  /\ IsFiniteSet(DeCliente(c))
  /\ Cardinality(DeCliente(c)) + Len(respuestas[c]) <= MaxVuelo

Cuenta ==
  /\ \A c \in Clientes : CuentaDe(c)
  /\ IsFiniteSet(Creando)
  /\ siguiente + Cardinality(Creando) <= MaxIds + 1

\* Lists and deletions of c, in the pool and on their way back.
TareasLentas(c) == {t \in tareas : t.cli = c /\ t.op \in Lentas}
RespLentas(c) == {i \in 1..Len(respuestas[c]) : respuestas[c][i].op \in Lentas}

\* There is one at most, and none outside the selection scene.
UnaEspera(c) ==
  /\ \A t, u \in TareasLentas(c) : t = u
  /\ \A i, j \in RespLentas(c) : i = j
  /\ TareasLentas(c) = {} \/ RespLentas(c) = {}
  /\ escena[c] # "seleccion" => TareasLentas(c) = {} /\ RespLentas(c) = {}

\* What the database has answered to c and c has not been told.
EnPool(c) == {[op |-> t.op, res |-> t.res] : t \in {x \in tareas : x.cli = c /\ x.hecho}}
EnCola(c) == {respuestas[c][i] : i \in 1..Len(respuestas[c])}
Dicho(c) == EnPool(c) \cup EnCola(c)

\* Rows of c that were deleted, whether c knows or not.
Borrandose(c) == UNION {r.res : r \in {x \in Dicho(c) : x.op = "eliminar"}}
Idas(c) == borrados[c] \cup Borrandose(c)

\* Ids are not used twice.
Gastadas == \A r \in personajes : r.id < siguiente

GastadasDe(c) == Idas(c) \cap IdsDe(c) = {} /\ \A n \in Idas(c) : n < siguiente

\* Whatever c was told, or is going to be told, that it created is in the table or
\* was deleted.
CreadasDe(c) ==
  /\ creados[c] \subseteq IdsDe(c) \cup Idas(c)
  /\ \A r \in Dicho(c) : r.op = "crear" => r.res \subseteq IdsDe(c) \cup Idas(c)

\* A list under way finds nothing selected, and what it brings is up to date.
ListaEnCamino(c) ==
  /\ \A t \in TareasLentas(c) : t.op = "lista" => seleccionado[c] = Ninguno
  /\ \A r \in Dicho(c) : r.op = "lista" =>
       /\ seleccionado[c] = Ninguno
       /\ r.res \subseteq IdsDe(c)
       /\ creados[c] \ borrados[c] \subseteq r.res

\* A deletion under way is of a row that is there, and succeeds.
BorradoEnCamino(c) ==
  /\ \A t \in TareasLentas(c) : t.op = "eliminar" /\ ~t.hecho => t.dato \in IdsDe(c)
  /\ \A r \in Dicho(c) : r.op = "eliminar" => r.res # {}

\* With nothing under way, what the selection scene shows is in the table.
Mostrado(c) ==
  (escena[c] = "seleccion" /\ TareasLentas(c) = {} /\ RespLentas(c) = {}) =>
    /\ lista[c] \subseteq IdsDe(c)
    /\ creados[c] \ borrados[c] \subseteq lista[c]
    /\ seleccionado[c] \in IdsDe(c) \cup {Ninguno}

Vista(c) ==
  /\ GastadasDe(c) /\ CreadasDe(c)
  /\ ListaEnCamino(c) /\ BorradoEnCamino(c) /\ Mostrado(c)

\* TLC checks it on peticiones_paciente.
IInv ==
  /\ Tipos /\ Cuenta /\ Gastadas
  /\ \A c \in Pacientes : UnaEspera(c) /\ (fallos = 0 => Vista(c))
-----------------------------------------------------------------------------
(* Types and bounds *)

\* What Tipos says of a task.
LEMMA Formas ==
  ASSUME Tipos, NEW t \in tareas
  PROVE  /\ t \in Encargo /\ t.cli \in Clientes /\ t.op \in Ops /\ t.hecho \in BOOLEAN
         /\ t.res \in SUBSET (1..MaxIds) /\ t.n \in 1..MaxVuelo
         /\ t.dato \in Nombres \cup (1..MaxIds) \cup {Ninguno}
  BY DEF Tipos, Encargo

\* A client with k tasks has a free number among the first k + 1.
LEMMA NumeroLibre ==
  ASSUME NEW c \in Clientes, IsFiniteSet(DeCliente(c))
  PROVE  Numero(c) \in 1..(Cardinality(DeCliente(c)) + 1)
<1>. DEFINE ts == DeCliente(c)
            k == Cardinality(DeCliente(c))
            libre(n) == \A t \in ts : t.n # n
<1>1. k \in Nat
  BY FS_CardinalityType
<1>2. \E n \in 1..(k + 1) : libre(n)
  <2>. SUFFICES ASSUME \A n \in 1..(k + 1) : \E t \in ts : t.n = n
                PROVE  FALSE
    OBVIOUS
  <2>. DEFINE f == [n \in 1..(k + 1) |-> CHOOSE t \in ts : t.n = n]
  <2>1. \A n \in 1..(k + 1) : f[n] \in ts /\ f[n].n = n
    OBVIOUS
  <2>2. f \in [1..(k + 1) -> ts]
    BY <2>1
  <2>3. IsFiniteSet(1..(k + 1)) /\ Cardinality(1..(k + 1)) = k + 1
    <3>1. 1 \in Int /\ k + 1 \in Int
      BY <1>1
    <3>. QED
      BY <1>1, <3>1, FS_Interval
  <2>. HIDE DEF f
  <2>4. \E x, y \in 1..(k + 1) : x # y /\ f[x] = f[y]
    <3>1. PICK S : S = 1..(k + 1)
      OBVIOUS
    <3>2. IsFiniteSet(S) /\ IsFiniteSet(ts) /\ Cardinality(ts) < Cardinality(S) /\ f \in [S -> ts]
      BY <1>1, <2>2, <2>3, <3>1
    <3>3. \E x, y \in S : x # y /\ f[x] = f[y]
      <4>. HIDE DEF ts, k, libre
      <4>. QED
        BY <3>2, FS_PigeonHole
    <3>. QED
      BY <3>1, <3>3
  <2>. QED
    BY <2>1, <2>4
<1>. QED
  BY <1>2 DEF Numero

\* A set of tasks without one, or with one more.
LEMMA Contar ==
  ASSUME NEW S, IsFiniteSet(S), NEW x
  PROVE  /\ IsFiniteSet(S \cup {x}) /\ IsFiniteSet(S \ {x})
         /\ Cardinality(S) \in Nat
         /\ Cardinality(S \cup {x}) \in Nat /\ Cardinality(S \ {x}) \in Nat
         /\ Cardinality(S \cup {x}) <= Cardinality(S) + 1
         /\ x \in S => Cardinality(S \ {x}) = Cardinality(S) - 1
<1>1. /\ Cardinality(S) \in Nat /\ IsFiniteSet(S \cup {x}) /\ IsFiniteSet(S \ {x})
      /\ Cardinality(S \cup {x}) = IF x \in S THEN Cardinality(S) ELSE Cardinality(S) + 1
      /\ Cardinality(S \ {x}) = IF x \in S THEN Cardinality(S) - 1 ELSE Cardinality(S)
  BY FS_CardinalityType, FS_AddElement, FS_RemoveElement
<1>2. Cardinality(S \cup {x}) \in Nat /\ Cardinality(S \ {x}) \in Nat
  BY <1>1, FS_CardinalityType
<1>. QED
  BY <1>1, <1>2

\* A request adds a task.
LEMMA AgregaPaso ==
  ASSUME Tipos, Cuenta, NEW c \in Clientes, NEW op \in Ops,
         NEW dato \in Nombres \cup (1..MaxIds) \cup {Ninguno}, op = "crear" => dato \in Nombres,
         Cardinality(DeCliente(c)) + 1 <= MaxVuelo,
         tareas' = tareas \cup {Tarea(c, op, dato)}
  PROVE  /\ tareas' \subseteq Encargo
         /\ \A t \in tareas' : t.op = "crear" => t.dato \in Nombres
         /\ \A d \in Clientes \ {c} : DeCliente(d)' = DeCliente(d)
         /\ IsFiniteSet(DeCliente(c)') /\ Cardinality(DeCliente(c)') \in Nat
         /\ Cardinality(DeCliente(c)') <= Cardinality(DeCliente(c)) + 1
         /\ IsFiniteSet(Creando') /\ Cardinality(Creando') \in Nat
         /\ op # "crear" => Creando' = Creando
         /\ op = "crear" => Cardinality(Creando') <= Cardinality(Creando) + 1
<1>. DEFINE x == Tarea(c, op, dato)
<1>1. Numero(c) \in 1..MaxVuelo
  <2>1. Numero(c) \in 1..(Cardinality(DeCliente(c)) + 1) /\ Cardinality(DeCliente(c)) \in Nat
    BY NumeroLibre, FS_CardinalityType DEF Cuenta, CuentaDe
  <2>. QED
    BY <2>1, PeticionesAssumption
<1>2. x \in Encargo /\ x.cli = c /\ x.op = op /\ x.dato = dato /\ x.hecho = FALSE
  BY <1>1 DEF Tarea, Encargo
<1>. HIDE DEF x
<1>3. tareas' = tareas \cup {x}
  BY DEF x
<1>4. tareas' \subseteq Encargo /\ \A t \in tareas' : t.op = "crear" => t.dato \in Nombres
  BY <1>2, <1>3 DEF Tipos
<1>5. /\ DeCliente(c)' = DeCliente(c) \cup {x}
      /\ \A d \in Clientes \ {c} : DeCliente(d)' = DeCliente(d)
  BY <1>2, <1>3 DEF DeCliente
<1>6. Creando' = IF op = "crear" THEN Creando \cup {x} ELSE Creando
  BY <1>2, <1>3 DEF Creando
<1>7. IsFiniteSet(DeCliente(c)) /\ IsFiniteSet(Creando)
  BY DEF Cuenta, CuentaDe
<1>8. /\ IsFiniteSet(DeCliente(c)') /\ Cardinality(DeCliente(c)') \in Nat
      /\ Cardinality(DeCliente(c)') <= Cardinality(DeCliente(c)) + 1
  <2>1. /\ IsFiniteSet(DeCliente(c) \cup {x}) /\ Cardinality(DeCliente(c) \cup {x}) \in Nat
        /\ Cardinality(DeCliente(c) \cup {x}) <= Cardinality(DeCliente(c)) + 1
    BY <1>7, Contar
  <2>. QED
    BY ZenonT(40), <1>5, <2>1
<1>9. /\ IsFiniteSet(Creando') /\ Cardinality(Creando') \in Nat
      /\ op # "crear" => Creando' = Creando
      /\ op = "crear" => Cardinality(Creando') <= Cardinality(Creando) + 1
  <2>1. CASE op = "crear"
    BY <1>6, <1>7, <2>1, Contar
  <2>2. CASE op # "crear"
    BY <1>6, <1>7, <2>2, FS_CardinalityType
  <2>. QED
    BY <2>1, <2>2
<1>. QED
  BY <1>4, <1>5, <1>8, <1>9

\* A statement is executed.
LEMMA HechaPaso ==
  ASSUME Tipos, Cuenta, NEW t \in tareas, ~t.hecho, NEW res \in SUBSET (1..MaxIds),
         tareas' = Hecha(t, res)
  PROVE  /\ tareas' \subseteq Encargo
         /\ \A x \in tareas' : x.op = "crear" => x.dato \in Nombres
         /\ \A d \in Clientes \ {t.cli} : DeCliente(d)' = DeCliente(d)
         /\ IsFiniteSet(DeCliente(t.cli)') /\ Cardinality(DeCliente(t.cli)') \in Nat
         /\ Cardinality(DeCliente(t.cli)') <= Cardinality(DeCliente(t.cli))
         /\ IsFiniteSet(Creando') /\ Cardinality(Creando') \in Nat
         /\ t.op # "crear" => Creando' = Creando
         /\ t.op = "crear" => Cardinality(Creando') = Cardinality(Creando) - 1
<1>. DEFINE x == [t EXCEPT !.hecho = TRUE, !.res = res]
            ts == DeCliente(t.cli)
<1>1. x \in Encargo /\ x.cli = t.cli /\ x.op = t.op /\ x.dato = t.dato /\ x.hecho = TRUE
  BY Formas DEF Encargo
<1>2. t.cli \in Clientes /\ t \in ts
  BY Formas DEF DeCliente
<1>. HIDE DEF x
<1>3. tareas' = (tareas \ {t}) \cup {x}
  BY DEF Hecha, x
<1>4. tareas' \subseteq Encargo /\ \A y \in tareas' : y.op = "crear" => y.dato \in Nombres
  BY <1>1, <1>3 DEF Tipos
<1>5. /\ ts' = (ts \ {t}) \cup {x}
      /\ \A d \in Clientes \ {t.cli} : DeCliente(d)' = DeCliente(d)
  BY <1>1, <1>3 DEF DeCliente
<1>6. Creando' = IF t.op = "crear" THEN Creando \ {t} ELSE Creando
  BY <1>1, <1>3 DEF Creando
<1>7. IsFiniteSet(ts) /\ IsFiniteSet(Creando) /\ (t.op = "crear" => t \in Creando)
  BY <1>2 DEF Cuenta, CuentaDe, Creando
<1>8. IsFiniteSet(ts') /\ Cardinality(ts') \in Nat /\ Cardinality(ts') <= Cardinality(ts)
  <2>1. /\ IsFiniteSet(ts \ {t}) /\ Cardinality(ts \ {t}) = Cardinality(ts) - 1
        /\ Cardinality(ts) \in Nat
    BY <1>2, <1>7, Contar
  <2>2. /\ IsFiniteSet((ts \ {t}) \cup {x}) /\ Cardinality((ts \ {t}) \cup {x}) \in Nat
        /\ Cardinality((ts \ {t}) \cup {x}) <= Cardinality(ts \ {t}) + 1
    BY <2>1, Contar
  <2>. QED
    BY <1>5, <2>1, <2>2
<1>9. /\ IsFiniteSet(Creando') /\ Cardinality(Creando') \in Nat
      /\ t.op = "crear" => Cardinality(Creando') = Cardinality(Creando) - 1
  BY <1>6, <1>7, Contar
<1>. QED
  BY <1>4, <1>5, <1>6, <1>8, <1>9

\* What keeps the bounds.
LEMMA CuentaIgual ==
  ASSUME Tipos, Cuenta, siguiente' \in Nat,
         IsFiniteSet(Creando'), Cardinality(Creando') \in Nat,
         siguiente' + Cardinality(Creando') <= siguiente + Cardinality(Creando)
           \/ siguiente' + Cardinality(Creando') <= MaxIds + 1,
         \A c \in Clientes :
           /\ IsFiniteSet(DeCliente(c)')
           /\ Cardinality(DeCliente(c)') + Len(respuestas'[c]) <= MaxVuelo
  PROVE  Cuenta'
<1>1. Cardinality(Creando) \in Nat /\ siguiente \in Nat /\ MaxIds \in Nat
  BY FS_CardinalityType, PeticionesAssumption DEF Tipos, Cuenta
<1>. QED
  BY <1>1 DEF Cuenta, CuentaDe

LEMMA Numeros ==
  ASSUME Tipos, Cuenta
  PROVE  /\ MaxIds \in Nat /\ MaxVuelo \in Nat /\ MaxFallos \in Nat
         /\ siguiente \in Nat /\ siguiente >= 1 /\ fallos \in Nat
         /\ Cardinality(Creando) \in Nat
         /\ siguiente + Cardinality(Creando) <= MaxIds + 1
         /\ \A c \in Clientes :
              /\ Cardinality(DeCliente(c)) \in Nat
              /\ respuestas[c] \in Seq(Respuesta) /\ Len(respuestas[c]) \in Nat
              /\ Cardinality(DeCliente(c)) + Len(respuestas[c]) <= MaxVuelo
<1>1. Cardinality(Creando) \in Nat /\ \A c \in Clientes : Cardinality(DeCliente(c)) \in Nat
  BY FS_CardinalityType DEF Cuenta, CuentaDe
<1>. QED
  BY <1>1, PeticionesAssumption DEF Tipos, Cuenta, CuentaDe

LEMMA UsuarioTipos ==
  ASSUME Tipos, Cuenta, NEW c \in Clientes, Usuario(c)
  PROVE  Tipos' /\ Cuenta'
<1>. DEFINE ts == DeCliente(c)
<1>0. /\ \A d \in Clientes : CuentaDe(d)
      /\ IsFiniteSet(Creando) /\ Cardinality(Creando) \in Nat
  BY Numeros DEF Cuenta
<1>1. ASSUME UNCHANGED <<tareas, respuestas, siguiente>> PROVE Cuenta'
  BY <1>1 DEF Cuenta, CuentaDe, Creando, DeCliente
<1>2. ASSUME NEW id \in lista[c], Elige(c, id) PROVE Tipos' /\ Cuenta'
  <2>1. id \in 1..MaxIds
    BY DEF Tipos
  <2>. QED
    BY <1>1, <1>2, <2>1 DEF Elige, Tipos, servidor, historia
<1>3. CASE IrACrear(c) \/ EntraMundo(c)
  BY <1>1, <1>3 DEF IrACrear, EntraMundo, Tipos, servidor, historia, Escenas
<1>4. CASE TocaRasgo(c)
  BY <1>1, <1>4 DEF TocaRasgo, Tipos, servidor, historia
<1>5. ASSUME NEW op \in Ops, NEW dato \in Nombres \cup (1..MaxIds) \cup {Ninguno},
             op = "crear" => dato \in Nombres /\ siguiente + Cardinality(Creando) <= MaxIds,
             tareas' = tareas \cup {Tarea(c, op, dato)}, Cabe(c),
             UNCHANGED <<respuestas, siguiente>>
      PROVE  /\ tareas' \subseteq Encargo
             /\ \A t \in tareas' : t.op = "crear" => t.dato \in Nombres
             /\ Cuenta'
  <2>1. /\ Cardinality(ts) \in Nat /\ Len(respuestas[c]) \in Nat
        /\ Cardinality(ts) + Len(respuestas[c]) + 1 <= MaxVuelo
    BY <1>5, Numeros DEF Cabe
  <2>2. Cardinality(ts) + 1 <= MaxVuelo
    BY SMTT(30), <2>1, Numeros
  <2>3. /\ tareas' \subseteq Encargo
        /\ \A t \in tareas' : t.op = "crear" => t.dato \in Nombres
        /\ \A d \in Clientes \ {c} : DeCliente(d)' = DeCliente(d)
        /\ IsFiniteSet(ts') /\ Cardinality(ts') \in Nat
        /\ Cardinality(ts') <= Cardinality(ts) + 1
        /\ IsFiniteSet(Creando') /\ Cardinality(Creando') \in Nat
        /\ op # "crear" => Creando' = Creando
        /\ op = "crear" => Cardinality(Creando') <= Cardinality(Creando) + 1
    BY <1>5, <2>2, AgregaPaso
  <2>4. siguiente' + Cardinality(Creando') <= MaxIds + 1
    BY <1>5, <2>3, Numeros
  <2>5. ASSUME NEW d \in Clientes
        PROVE  /\ IsFiniteSet(DeCliente(d)')
               /\ Cardinality(DeCliente(d)') + Len(respuestas'[d]) <= MaxVuelo
    <3>1. CASE d = c
      BY SMTT(30), <1>5, <2>1, <2>3, <3>1, Numeros
    <3>2. CASE d # c
      BY <1>0, <1>5, <2>3, <3>2 DEF CuentaDe
    <3>. QED
      BY <3>1, <3>2
  <2>. QED
    BY <1>5, <2>3, <2>4, <2>5, CuentaIgual, Numeros
<1>6. CASE Elimina(c)
  <2>1. seleccionado[c] \in 1..MaxIds
    BY <1>6 DEF Elimina, Tipos
  <2>2. /\ tareas' \subseteq Encargo
        /\ \A t \in tareas' : t.op = "crear" => t.dato \in Nombres
        /\ Cuenta'
    BY <1>5, <1>6, <2>1 DEF Elimina, Ops
  <2>. QED
    BY <1>6, <2>2 DEF Elimina, Tipos, pantalla, historia
<1>7. ASSUME NEW n \in Nombres, Confirma(c, n) PROVE Tipos' /\ Cuenta'
  <2>1. siguiente + Cardinality(Creando) <= MaxIds
    BY <1>7 DEF Confirma, PorCrear, Creando
  <2>2. /\ tareas' \subseteq Encargo
        /\ \A t \in tareas' : t.op = "crear" => t.dato \in Nombres
        /\ Cuenta'
    BY <1>5, <1>7, <2>1 DEF Confirma, Ops
  <2>. QED
    BY <1>7, <2>2 DEF Confirma, Tipos, historia
<1>8. CASE Vuelve(c)
  <2>1. /\ tareas' \subseteq Encargo
        /\ \A t \in tareas' : t.op = "crear" => t.dato \in Nombres
        /\ Cuenta'
    BY <1>5, <1>8 DEF Vuelve, AbreSeleccion, Ops
  <2>. QED
    BY <1>8, <2>1 DEF Vuelve, AbreSeleccion, Tipos, historia, Escenas
<1>. QED
  BY <1>2, <1>3, <1>4, <1>6, <1>7, <1>8 DEF Usuario

\* The ids of a client's rows.
LEMMA IdsTipo == ASSUME Tipos, NEW c PROVE IdsDe(c) \in SUBSET (1..MaxIds)
  BY DEF Tipos, IdsDe

LEMMA FilasTipo == ASSUME Tipos, NEW t PROVE {r.id : r \in Filas(t)} \in SUBSET (1..MaxIds)
  BY DEF Tipos, Filas

\* A row that is still to be created has an id.
LEMMA HayId ==
  ASSUME Tipos, Cuenta, NEW t \in tareas, ~t.hecho, t.op = "crear"
  PROVE  siguiente \in 1..MaxIds
<1>1. t \in Creando /\ IsFiniteSet(Creando)
  BY DEF Creando, Cuenta
<1>2. /\ Cardinality(Creando \ {t}) = Cardinality(Creando) - 1
      /\ Cardinality(Creando \ {t}) \in Nat /\ Cardinality(Creando) \in Nat
  BY <1>1, Contar
<1>3. Cardinality(Creando) >= 1
  BY <1>2
<1>. QED
  BY <1>3, Numeros

LEMMA EjecutaTipos ==
  ASSUME Tipos, Cuenta, NEW t \in tareas, Ejecuta(t)
  PROVE  Tipos' /\ Cuenta'
<1>0. /\ \A d \in Clientes : CuentaDe(d)
      /\ IsFiniteSet(Creando) /\ Cardinality(Creando) \in Nat
      /\ t.cli \in Clientes /\ siguiente \in Nat
  BY Numeros, Formas DEF Cuenta
<1>1. ASSUME ~t.hecho, NEW res \in SUBSET (1..MaxIds), tareas' = Hecha(t, res),
             UNCHANGED respuestas,
             siguiente' = siguiente \/ (siguiente' = siguiente + 1 /\ t.op = "crear")
      PROVE  /\ tareas' \subseteq Encargo
             /\ \A x \in tareas' : x.op = "crear" => x.dato \in Nombres
             /\ Cuenta' /\ siguiente' \in 1..(MaxIds + 1)
  <2>1. /\ tareas' \subseteq Encargo
        /\ \A x \in tareas' : x.op = "crear" => x.dato \in Nombres
        /\ \A d \in Clientes \ {t.cli} : DeCliente(d)' = DeCliente(d)
        /\ IsFiniteSet(DeCliente(t.cli)') /\ Cardinality(DeCliente(t.cli)') \in Nat
        /\ Cardinality(DeCliente(t.cli)') <= Cardinality(DeCliente(t.cli))
        /\ IsFiniteSet(Creando') /\ Cardinality(Creando') \in Nat
        /\ t.op # "crear" => Creando' = Creando
        /\ t.op = "crear" => Cardinality(Creando') = Cardinality(Creando) - 1
    BY <1>1, HechaPaso
  <2>2. /\ siguiente' + Cardinality(Creando') <= siguiente + Cardinality(Creando)
        /\ siguiente' \in Nat /\ siguiente' >= 1
    BY SMTT(30), <1>0, <1>1, <2>1, Numeros
  <2>3. siguiente' \in 1..(MaxIds + 1)
    BY <2>1, <2>2, Numeros
  <2>4. ASSUME NEW d \in Clientes
        PROVE  /\ IsFiniteSet(DeCliente(d)')
               /\ Cardinality(DeCliente(d)') + Len(respuestas'[d]) <= MaxVuelo
    <3>1. CASE d = t.cli
      BY SMTT(30), <1>1, <2>1, <3>1, Numeros
    <3>2. CASE d # t.cli
      BY <1>0, <1>1, <2>1, <3>2 DEF CuentaDe
    <3>. QED
      BY <3>1, <3>2
  <2>. QED
    BY <2>1, <2>2, <2>3, <2>4, CuentaIgual
<1>2. CASE Carga(t)
  <2>1. /\ tareas' \subseteq Encargo
        /\ \A x \in tareas' : x.op = "crear" => x.dato \in Nombres
        /\ Cuenta' /\ siguiente' \in 1..(MaxIds + 1)
    BY <1>1, <1>2, IdsTipo DEF Carga
  <2>. QED
    BY <1>2, <2>1 DEF Carga, Tipos, pantalla, historia
<1>3. ASSUME ~t.hecho, t.op = "crear"
      PROVE  siguiente \in 1..MaxIds /\ t.dato \in Nombres
  BY <1>3, HayId DEF Tipos
<1>4. CASE Crea(t)
  <2>1. /\ ~t.hecho /\ t.op = "crear" /\ UNCHANGED <<fallos, respuestas, pantalla, historia>>
        /\ siguiente' = siguiente + 1
        /\ \E res \in SUBSET {siguiente} : tareas' = Hecha(t, res)
        /\ personajes' \subseteq
             personajes \cup {[id |-> siguiente, jugador_id |-> t.cli, nombre |-> t.dato]}
    BY <1>4 DEF Crea
  <2>2. siguiente \in 1..MaxIds /\ t.dato \in Nombres
    BY <1>3, <2>1
  <2>3. /\ tareas' \subseteq Encargo
        /\ \A x \in tareas' : x.op = "crear" => x.dato \in Nombres
        /\ Cuenta' /\ siguiente' \in 1..(MaxIds + 1)
    <3>1. PICK res \in SUBSET {siguiente} : tareas' = Hecha(t, res)
      BY <2>1
    <3>2. res \in SUBSET (1..MaxIds)
      BY <2>2
    <3>. QED
      BY <1>1, <2>1, <3>1, <3>2
  <2>4. personajes' \subseteq [id : 1..MaxIds, jugador_id : Clientes, nombre : Nombres]
    BY <1>0, <2>1, <2>2 DEF Tipos
  <2>. QED
    BY <2>1, <2>3, <2>4 DEF Tipos, pantalla, historia
<1>5. CASE Borra(t)
  <2>1. /\ tareas' \subseteq Encargo
        /\ \A x \in tareas' : x.op = "crear" => x.dato \in Nombres
        /\ Cuenta' /\ siguiente' \in 1..(MaxIds + 1)
    BY <1>1, <1>5, FilasTipo DEF Borra
  <2>. QED
    BY <1>5, <2>1 DEF Borra, Tipos, pantalla, historia
<1>6. CASE FallaSQL(t)
  <2>1. /\ ~t.hecho /\ tareas' = Hecha(t, {}) /\ fallos' \in 0..MaxFallos
        /\ UNCHANGED <<respuestas, pantalla, historia>>
    BY <1>6, Numeros DEF FallaSQL
  <2>2. siguiente' = siguiente \/ (siguiente' = siguiente + 1 /\ t.op = "crear")
    BY <1>6 DEF FallaSQL
  <2>3. /\ tareas' \subseteq Encargo
        /\ \A x \in tareas' : x.op = "crear" => x.dato \in Nombres
        /\ Cuenta' /\ siguiente' \in 1..(MaxIds + 1)
    BY <1>1, <2>1, <2>2
  <2>4. personajes' \subseteq [id : 1..MaxIds, jugador_id : Clientes, nombre : Nombres]
    BY <1>0, <1>3, <1>6, <2>1 DEF FallaSQL, Tipos
  <2>. QED
    BY <2>1, <2>3, <2>4 DEF Tipos, pantalla, historia
<1>7. CASE Responde(t)
  <2>. DEFINE c == t.cli
              r == [op |-> t.op, res |-> t.res]
  <2>1. /\ tareas' = tareas \ {t} /\ t.hecho
        /\ respuestas' = [respuestas EXCEPT ![c] = @ \o <<r>>]
        /\ UNCHANGED <<personajes, siguiente, fallos, pantalla, historia>>
    BY <1>7 DEF Responde, Contesta
  <2>2. r \in Respuesta /\ c \in Clientes
    BY Formas DEF Respuesta
  <2>. HIDE DEF r
  <2>3. respuestas' \in [Clientes -> Seq(Respuesta)] /\ Len(respuestas'[c]) = Len(respuestas[c]) + 1
    BY <2>1, <2>2, Numeros DEF Tipos
  <2>4. Creando' = Creando
    BY <2>1 DEF Creando
  <2>5. ASSUME NEW d \in Clientes
        PROVE  /\ IsFiniteSet(DeCliente(d)')
               /\ Cardinality(DeCliente(d)') + Len(respuestas'[d]) <= MaxVuelo
    <3>1. CASE d = c
      <4>1. DeCliente(c)' = DeCliente(c) \ {t} /\ t \in DeCliente(c) /\ IsFiniteSet(DeCliente(c))
        BY <1>0, <2>1 DEF DeCliente, CuentaDe
      <4>2. IsFiniteSet(DeCliente(c)') /\ Cardinality(DeCliente(c)') = Cardinality(DeCliente(c)) - 1
        BY <4>1, Contar
      <4>3. /\ Cardinality(DeCliente(c)) \in Nat /\ Len(respuestas[c]) \in Nat
            /\ Cardinality(DeCliente(c)) + Len(respuestas[c]) <= MaxVuelo
        BY <2>2, Numeros
      <4>. QED
        BY <2>3, <3>1, <4>2, <4>3, PeticionesAssumption
    <3>2. CASE d # c
      <4>1. DeCliente(d)' = DeCliente(d) /\ respuestas'[d] = respuestas[d]
        BY <2>1, <3>2 DEF DeCliente, Tipos
      <4>. QED
        BY <1>0, <4>1 DEF CuentaDe
    <3>. QED
      BY <3>1, <3>2
  <2>6. Cuenta'
    BY <1>0, <2>1, <2>4, <2>5, CuentaIgual
  <2>. QED
    BY <2>1, <2>3, <2>6 DEF Tipos, pantalla, historia
<1>. QED
  BY <1>2, <1>4, <1>5, <1>6, <1>7 DEF Ejecuta

\* The queue of replies without its head.
LEMMA Cola ==
  ASSUME NEW q \in Seq(Respuesta), q # <<>>
  PROVE  /\ Head(q) = q[1] /\ Head(q) \in Respuesta
         /\ Tail(q) \in Seq(Respuesta) /\ Len(Tail(q)) = Len(q) - 1 /\ Len(q) \in Nat
         /\ \A i \in 1..Len(Tail(q)) : i + 1 \in 1..Len(q) /\ Tail(q)[i] = q[i + 1]
  OBVIOUS

\* What Recibe does, with the reply named.
RecibeR(c, r) ==
  /\ respuestas[c] # <<>> /\ r = Head(respuestas[c])
  /\ RecibeLista(c, r) \/ RecibeCreacion(c, r) \/ RecibeBorrado(c, r) \/ Ignora(c, r)
  /\ respuestas' = [respuestas EXCEPT ![c] = Tail(@)]
  /\ UNCHANGED <<personajes, siguiente, fallos>>

LEMMA RecibeEs ==
  ASSUME Tipos, NEW c \in Clientes, Recibe(c)
  PROVE  \E r \in Respuesta : RecibeR(c, r)
<1>1. respuestas[c] \in Seq(Respuesta) /\ respuestas[c] # <<>>
  BY DEF Tipos, Recibe
<1>2. Head(respuestas[c]) \in Respuesta
  BY <1>1, Cola
<1>. QED
  BY <1>2 DEF Recibe, RecibeR

LEMMA RecibeTipos ==
  ASSUME Tipos, Cuenta, NEW c \in Clientes, NEW r \in Respuesta, RecibeR(c, r)
  PROVE  Tipos' /\ Cuenta'
<1>. DEFINE ts == DeCliente(c)
<1>0. /\ \A d \in Clientes : CuentaDe(d)
      /\ IsFiniteSet(Creando) /\ Cardinality(Creando) \in Nat
      /\ Cardinality(ts) \in Nat /\ Len(respuestas[c]) \in Nat
      /\ Cardinality(ts) + Len(respuestas[c]) <= MaxVuelo /\ MaxVuelo \in Nat
      /\ siguiente \in Nat /\ respuestas \in [Clientes -> Seq(Respuesta)]
  BY Numeros DEF Cuenta, Tipos
<1>1. /\ respuestas' \in [Clientes -> Seq(Respuesta)]
      /\ Len(respuestas'[c]) = Len(respuestas[c]) - 1
      /\ \A d \in Clientes \ {c} : respuestas'[d] = respuestas[d]
      /\ Len(respuestas[c]) >= 1
  <2>1. respuestas[c] \in Seq(Respuesta) /\ respuestas[c] # <<>>
    BY <1>0 DEF RecibeR
  <2>2. Tail(respuestas[c]) \in Seq(Respuesta) /\ Len(Tail(respuestas[c])) = Len(respuestas[c]) - 1
    BY <2>1, Cola
  <2>3. Len(respuestas[c]) >= 1
    BY <2>1
  <2>. QED
    BY <1>0, <2>2, <2>3 DEF RecibeR
<1>2. UNCHANGED <<personajes, siguiente, fallos>>
  BY DEF RecibeR
<1>3. r.op \in Ops /\ r.res \in SUBSET (1..MaxIds)
  BY DEF Respuesta
<1>4. ASSUME UNCHANGED tareas PROVE Cuenta'
  <2>1. ASSUME NEW d \in Clientes
        PROVE  /\ IsFiniteSet(DeCliente(d)')
               /\ Cardinality(DeCliente(d)') + Len(respuestas'[d]) <= MaxVuelo
    <3>1. DeCliente(d)' = DeCliente(d)
      BY <1>4 DEF DeCliente
    <3>2. CASE d = c
      BY <1>0, <1>1, <3>1, <3>2 DEF CuentaDe
    <3>3. CASE d # c
      BY <1>0, <1>1, <3>1, <3>3 DEF CuentaDe
    <3>. QED
      BY <3>2, <3>3
  <2>2. Creando' = Creando
    BY <1>4 DEF Creando
  <2>. QED
    BY <1>0, <1>2, <2>1, <2>2, CuentaIgual
<1>5. ASSUME tareas' = tareas \cup {Tarea(c, "lista", Ninguno)}
      PROVE  /\ tareas' \subseteq Encargo
             /\ \A t \in tareas' : t.op = "crear" => t.dato \in Nombres
             /\ Cuenta'
  <2>1. Cardinality(ts) + 1 <= MaxVuelo
    BY <1>0, <1>1
  <2>2. /\ tareas' \subseteq Encargo
        /\ \A t \in tareas' : t.op = "crear" => t.dato \in Nombres
        /\ \A d \in Clientes \ {c} : DeCliente(d)' = DeCliente(d)
        /\ IsFiniteSet(ts') /\ Cardinality(ts') \in Nat
        /\ Cardinality(ts') <= Cardinality(ts) + 1
        /\ Creando' = Creando
    <3>1. "lista" \in Ops
      BY DEF Ops
    <3>. QED
      BY <1>5, <2>1, <3>1, AgregaPaso
  <2>3. ASSUME NEW d \in Clientes
        PROVE  /\ IsFiniteSet(DeCliente(d)')
               /\ Cardinality(DeCliente(d)') + Len(respuestas'[d]) <= MaxVuelo
    <3>1. CASE d = c
      BY <1>0, <1>1, <2>2, <3>1
    <3>2. CASE d # c
      BY <1>0, <1>1, <2>2, <3>2 DEF CuentaDe
    <3>. QED
      BY <3>1, <3>2
  <2>. QED
    BY <1>0, <1>2, <2>2, <2>3, CuentaIgual
<1>6. CASE RecibeLista(c, r)
  BY <1>1, <1>2, <1>3, <1>4, <1>6 DEF RecibeLista, Tipos, historia
<1>7. CASE RecibeCreacion(c, r)
  <2>1. CASE r.res # {}
    <3>1. /\ tareas' = tareas \cup {Tarea(c, "lista", Ninguno)}
          /\ escena' = [escena EXCEPT ![c] = "seleccion"]
          /\ lista' = [lista EXCEPT ![c] = {}]
          /\ seleccionado' = [seleccionado EXCEPT ![c] = Ninguno]
          /\ creados' = [creados EXCEPT ![c] = @ \cup r.res]
          /\ UNCHANGED <<confirmar, borrados>>
      BY <1>7, <2>1 DEF RecibeCreacion, AbreSeleccion
    <3>2. /\ escena' \in [Clientes -> Escenas] /\ lista' \in [Clientes -> SUBSET (1..MaxIds)]
          /\ seleccionado' \in [Clientes -> (1..MaxIds) \cup {Ninguno}]
          /\ creados' \in [Clientes -> SUBSET (1..MaxIds)]
      BY <1>3, <3>1 DEF Tipos, Escenas
    <3>. QED
      BY <1>1, <1>2, <1>5, <3>1, <3>2 DEF Tipos
  <2>2. CASE r.res = {}
    BY <1>1, <1>2, <1>4, <1>7, <2>2 DEF RecibeCreacion, Tipos
  <2>. QED
    BY <2>1, <2>2
<1>8. CASE RecibeBorrado(c, r)
  <2>1. CASE r.res # {}
    <3>1. /\ tareas' = tareas \cup {Tarea(c, "lista", Ninguno)}
          /\ seleccionado' = [seleccionado EXCEPT ![c] = Ninguno]
          /\ borrados' = [borrados EXCEPT ![c] = @ \cup r.res]
          /\ UNCHANGED <<escena, lista, confirmar, creados>>
      BY <1>8, <2>1 DEF RecibeBorrado, Recarga, TrasBorrar
    <3>2. /\ seleccionado' \in [Clientes -> (1..MaxIds) \cup {Ninguno}]
          /\ borrados' \in [Clientes -> SUBSET (1..MaxIds)]
      BY <1>3, <3>1 DEF Tipos
    <3>. QED
      BY <1>1, <1>2, <1>5, <3>1, <3>2 DEF Tipos
  <2>2. CASE r.res = {}
    BY <1>1, <1>2, <1>4, <1>8, <2>2 DEF RecibeBorrado, Tipos
  <2>. QED
    BY <2>1, <2>2
<1>9. CASE Ignora(c, r)
  BY <1>1, <1>2, <1>4, <1>9 DEF Ignora, Tipos, pantalla, historia
<1>. QED
  BY <1>6, <1>7, <1>8, <1>9 DEF RecibeR

LEMMA PasoTipos ==
  ASSUME Tipos, Cuenta, [Next]_vars
  PROVE  Tipos' /\ Cuenta'
<1>1. ASSUME NEW c \in Clientes, Recibe(c) PROVE Tipos' /\ Cuenta'
  BY <1>1, RecibeEs, RecibeTipos
<1>2. CASE UNCHANGED vars
  BY <1>2 DEF vars, servidor, pantalla, historia, Tipos, Cuenta, CuentaDe, DeCliente, Creando
<1>. QED
  BY <1>1, <1>2, UsuarioTipos, EjecutaTipos DEF Next

LEMMA InicioTipos == Init => Tipos /\ Cuenta
<1>. SUFFICES ASSUME Init PROVE Tipos /\ Cuenta
  OBVIOUS
<1>. DEFINE x(c) == [cli |-> c, op |-> "lista", dato |-> Ninguno, hecho |-> FALSE,
                     res |-> {}, n |-> 1]
<1>1. tareas = {x(c) : c \in Clientes} /\ \A c \in Clientes : x(c) \in Encargo /\ x(c).op = "lista"
  BY PeticionesAssumption DEF Init, Encargo, Ops
<1>2. Tipos
  BY <1>1, PeticionesAssumption DEF Init, Tipos, Escenas
<1>3. Creando = {}
  BY <1>1 DEF Creando
<1>4. ASSUME NEW c \in Clientes PROVE CuentaDe(c)
  <2>1. DeCliente(c) = {x(c)}
    BY DEF Init, DeCliente
  <2>2. IsFiniteSet(DeCliente(c)) /\ Cardinality(DeCliente(c)) = 1
    BY <2>1, FS_Singleton
  <2>. QED
    BY <1>2, <2>2, PeticionesAssumption DEF CuentaDe, Init
<1>. QED
  BY <1>2, <1>3, <1>4, FS_EmptySet, PeticionesAssumption DEF Cuenta, Init

THEOREM TiposSiempre == Spec => [](Tipos /\ Cuenta)
  BY InicioTipos, PasoTipos, PTL DEF Spec

\* Type correctness: a request of a client always fits in its bound, the ids in theirs,
\* and a number of a task is never over the number of requests under way.
THEOREM PeticionesTipos == Spec => []TypeOK
<1>1. Tipos /\ Cuenta => TypeOK
  <2>. SUFFICES ASSUME Tipos, Cuenta PROVE TypeOK
    OBVIOUS
  <2>1. \A t \in tareas : /\ t.cli \in Clientes /\ t.n \in 1..MaxVuelo
                          /\ t.res \subseteq 1..MaxIds /\ t.hecho \in BOOLEAN
                          /\ t.op \in {"lista", "crear", "eliminar"}
    BY Formas DEF Ops
  <2>2. ASSUME NEW c \in Clientes, NEW i \in 1..Len(respuestas[c])
        PROVE  respuestas[c][i].res \subseteq 1..MaxIds
    <3>1. respuestas[c] \in Seq(Respuesta)
      BY DEF Tipos
    <3>2. respuestas[c][i] \in Respuesta
      BY <3>1
    <3>. QED
      BY <3>2 DEF Respuesta
  <2>3. ASSUME NEW c \in Clientes
        PROVE  /\ escena[c] \in {"seleccion", "creacion", "mundo"}
               /\ lista[c] \subseteq 1..MaxIds
               /\ seleccionado[c] \in 1..MaxIds \cup {Ninguno}
               /\ confirmar[c] \in BOOLEAN
               /\ creados[c] \subseteq 1..MaxIds /\ borrados[c] \subseteq 1..MaxIds
    BY DEF Tipos, Escenas
  <2>. QED
    BY <2>1, <2>2, <2>3 DEF TypeOK, Tipos
<1>. QED
  BY <1>1, TiposSiempre, PTL

-----------------------------------------------------------------------------
(* What a client waits for *)

\* A client that waits for nothing has no list and no deletion under way.
LEMMA SinEspera ==
  ASSUME NEW c \in Clientes, ~Espera(c)
  PROVE  TareasLentas(c) = {} /\ RespLentas(c) = {}
  BY DEF Espera, TareasLentas, RespLentas, Lentas, DeCliente

LEMMA EsperaEs ==
  ASSUME NEW c \in Clientes, TareasLentas(c) = {}, RespLentas(c) = {}
  PROVE  ~Espera(c)
  BY DEF Espera, TareasLentas, RespLentas, Lentas, DeCliente

\* What c has been answered is of some request under way.
LEMMA DichoEs ==
  ASSUME Tipos, NEW c \in Clientes, NEW r \in Dicho(c)
  PROVE  /\ r \in Respuesta
         /\ \/ \E t \in tareas : /\ t.cli = c /\ t.hecho /\ r.op = t.op /\ r.res = t.res
                                 /\ r.op \in Lentas => t \in TareasLentas(c)
            \/ \E i \in 1..Len(respuestas[c]) :
                 r = respuestas[c][i] /\ (r.op \in Lentas => i \in RespLentas(c))
<1>1. CASE r \in EnPool(c)
  <2>1. PICK t \in tareas : t.cli = c /\ t.hecho /\ r = [op |-> t.op, res |-> t.res]
    BY <1>1 DEF EnPool
  <2>. QED
    BY <2>1, Formas DEF TareasLentas, Respuesta
<1>2. CASE r \in EnCola(c)
  <2>1. PICK i \in 1..Len(respuestas[c]) : r = respuestas[c][i]
    BY <1>2 DEF EnCola
  <2>2. respuestas[c] \in Seq(Respuesta)
    BY DEF Tipos
  <2>. QED
    BY <2>1, <2>2 DEF RespLentas
<1>. QED
  BY <1>1, <1>2 DEF Dicho

\* With nothing slow under way, only creations have been answered.
LEMMA SoloCreaciones ==
  ASSUME Tipos, NEW c \in Clientes, TareasLentas(c) = {}, RespLentas(c) = {}
  PROVE  (\A r \in Dicho(c) : r.op = "crear") /\ Borrandose(c) = {} /\ Idas(c) = borrados[c]
<1>1. \A r \in Dicho(c) : r.op = "crear"
  <2>. SUFFICES ASSUME NEW r \in Dicho(c) PROVE r.op \in Ops /\ r.op \notin Lentas
    BY DEF Ops, Lentas
  <2>. QED
    BY DichoEs DEF Respuesta
<1>. QED
  BY <1>1 DEF Borrandose, Idas

\* What a step leaves of the requests of c.
LEMMA EsperaIgual ==
  ASSUME NEW c \in Clientes, UnaEspera(c),
         TareasLentas(c)' = TareasLentas(c), RespLentas(c)' = RespLentas(c),
         escena'[c] = escena[c]
  PROVE  UnaEspera(c)'
  BY DEF UnaEspera

LEMMA VistaIgual ==
  ASSUME NEW c \in Clientes, Tipos, Vista(c), UNCHANGED fallos, siguiente' \in Nat, siguiente' >= siguiente,
         TareasLentas(c)' = TareasLentas(c), RespLentas(c)' = RespLentas(c),
         Dicho(c)' = Dicho(c), IdsDe(c)' = IdsDe(c),
         escena'[c] = escena[c], lista'[c] = lista[c], seleccionado'[c] = seleccionado[c],
         creados'[c] = creados[c], borrados'[c] = borrados[c]
  PROVE  Vista(c)'
<1>1. Borrandose(c)' = Borrandose(c) /\ Idas(c)' = Idas(c)
  BY DEF Borrandose, Idas
<1>2. GastadasDe(c)'
  <2>1. Idas(c) \subseteq Int /\ siguiente \in Int
    <3>1. \A r \in Dicho(c) : r.res \subseteq Int
      BY DichoEs DEF Respuesta
    <3>. QED
      BY <3>1 DEF Idas, Borrandose, Tipos
  <2>. QED
    BY <1>1, <2>1 DEF Vista, GastadasDe
<1>3. CreadasDe(c)' /\ ListaEnCamino(c)' /\ BorradoEnCamino(c)' /\ Mostrado(c)'
  BY <1>1 DEF Vista, CreadasDe, ListaEnCamino, BorradoEnCamino, Mostrado
<1>. QED
  BY <1>2, <1>3 DEF Vista

\* Nothing of c changes.
Quieto(c) ==
  /\ TareasLentas(c)' = TareasLentas(c) /\ RespLentas(c)' = RespLentas(c)
  /\ Dicho(c)' = Dicho(c) /\ IdsDe(c)' = IdsDe(c)
  /\ siguiente' \in Nat /\ siguiente' >= siguiente
  /\ escena'[c] = escena[c] /\ lista'[c] = lista[c] /\ seleccionado'[c] = seleccionado[c]
  /\ creados'[c] = creados[c] /\ borrados'[c] = borrados[c]

\* What a new task changes of c: nothing, if it is another client's.
LEMMA TareaNueva ==
  ASSUME NEW c \in Clientes, NEW d \in Clientes, NEW op, NEW dato,
         tareas' = tareas \cup {Tarea(d, op, dato)}
  PROVE  /\ EnPool(c)' = EnPool(c)
         /\ (d # c \/ op \notin Lentas) => TareasLentas(c)' = TareasLentas(c)
         /\ (d = c /\ op \in Lentas) => TareasLentas(c)' = TareasLentas(c) \cup {Tarea(d, op, dato)}
         /\ Tarea(d, op, dato).op = op /\ Tarea(d, op, dato).dato = dato
         /\ ~Tarea(d, op, dato).hecho
<1>1. Tarea(d, op, dato).cli = d /\ Tarea(d, op, dato).op = op /\ Tarea(d, op, dato).dato = dato
      /\ Tarea(d, op, dato).hecho = FALSE
  BY DEF Tarea
<1>2. EnPool(c)' = EnPool(c)
  BY <1>1 DEF EnPool
<1>. QED
  BY <1>1, <1>2 DEF TareasLentas

LEMMA UsuarioOtro ==
  ASSUME Tipos, NEW c \in Clientes, NEW d \in Clientes, d # c, Usuario(d)
  PROVE  Quieto(c) /\ UNCHANGED fallos
<1>1. /\ UNCHANGED <<personajes, siguiente, fallos, respuestas>>
      /\ creados'[c] = creados[c] /\ borrados'[c] = borrados[c]
      /\ escena'[c] = escena[c] /\ lista'[c] = lista[c] /\ seleccionado'[c] = seleccionado[c]
  BY DEF Usuario, Elige, Elimina, IrACrear, Vuelve, AbreSeleccion, EntraMundo, TocaRasgo, Confirma,
         servidor, pantalla, historia, Tipos
<1>2. UNCHANGED tareas \/ \E op, dato : tareas' = tareas \cup {Tarea(d, op, dato)}
  BY DEF Usuario, Elige, Elimina, IrACrear, Vuelve, AbreSeleccion, EntraMundo, TocaRasgo, Confirma,
         servidor, pantalla
<1>3. TareasLentas(c)' = TareasLentas(c) /\ EnPool(c)' = EnPool(c)
  <2>1. CASE UNCHANGED tareas
    BY <2>1 DEF TareasLentas, EnPool
  <2>2. ASSUME NEW op, NEW dato, tareas' = tareas \cup {Tarea(d, op, dato)}
        PROVE  TareasLentas(c)' = TareasLentas(c) /\ EnPool(c)' = EnPool(c)
    BY <2>2, TareaNueva
  <2>. QED
    BY <1>2, <2>1, <2>2
<1>4. EnCola(c)' = EnCola(c) /\ RespLentas(c)' = RespLentas(c) /\ IdsDe(c)' = IdsDe(c)
  BY <1>1 DEF EnCola, RespLentas, IdsDe
<1>. QED
  BY <1>1, <1>3, <1>4 DEF Quieto, Dicho, Tipos

\* What an executed statement of t changes of c.
LEMMA TareaHecha ==
  ASSUME Tipos, NEW c \in Clientes, NEW t \in tareas, NEW res \in SUBSET (1..MaxIds), ~t.hecho,
         tareas' = Hecha(t, res)
  PROVE  \E x : /\ x.cli = t.cli /\ x.op = t.op /\ x.dato = t.dato /\ x.hecho /\ x.res = res
                /\ x \in tareas' /\ tareas' = (tareas \ {t}) \cup {x}
                /\ t.cli # c => EnPool(c)' = EnPool(c) /\ TareasLentas(c)' = TareasLentas(c)
                /\ t.cli = c => EnPool(c)' = EnPool(c) \cup {[op |-> t.op, res |-> res]}
                /\ (t.cli = c /\ t.op \notin Lentas) => TareasLentas(c)' = TareasLentas(c)
                /\ (t.cli = c /\ t.op \in Lentas) =>
                     TareasLentas(c)' = (TareasLentas(c) \ {t}) \cup {x} /\ t \in TareasLentas(c)
<1>. DEFINE x == [t EXCEPT !.hecho = TRUE, !.res = res]
<1>1. /\ x.cli = t.cli /\ x.op = t.op /\ x.dato = t.dato /\ x.hecho = TRUE /\ x.res = res
      /\ tareas' = (tareas \ {t}) \cup {x}
  BY Formas DEF Encargo, Hecha
<1>. HIDE DEF x
<1>2. t.cli # c => EnPool(c)' = EnPool(c)
  BY <1>1 DEF EnPool
<1>3. t.cli = c => EnPool(c)' = EnPool(c) \cup {[op |-> t.op, res |-> res]}
  BY <1>1 DEF EnPool
<1>4. /\ t.cli # c \/ t.op \notin Lentas => TareasLentas(c)' = TareasLentas(c)
      /\ (t.cli = c /\ t.op \in Lentas) =>
           TareasLentas(c)' = (TareasLentas(c) \ {t}) \cup {x} /\ t \in TareasLentas(c)
  BY <1>1 DEF TareasLentas
<1>. QED
  BY <1>1, <1>2, <1>3, <1>4

LEMMA EjecutaOtra ==
  ASSUME Tipos, Cuenta, NEW c \in Clientes, NEW t \in tareas, t.cli # c, Ejecuta(t)
  PROVE  Quieto(c)
<1>1. /\ UNCHANGED <<escena, lista, seleccionado, creados, borrados>>
      /\ siguiente' \in Nat /\ siguiente' >= siguiente
  BY Numeros DEF Ejecuta, Carga, Crea, Borra, FallaSQL, Responde, pantalla, historia
<1>2. IdsDe(c)' = IdsDe(c)
  <2>1. \A r \in personajes : r.jugador_id = c => r \in personajes'
    BY DEF Ejecuta, Carga, Crea, Borra, FallaSQL, Responde, Filas
  <2>2. \A r \in personajes' : r \in personajes \/ r.jugador_id = t.cli
    BY DEF Ejecuta, Carga, Crea, Borra, FallaSQL, Responde
  <2>. QED
    BY <2>1, <2>2 DEF IdsDe
<1>3. CASE Responde(t)
  <2>1. tareas' = tareas \ {t} /\ respuestas'[c] = respuestas[c]
    BY <1>3 DEF Responde, Tipos
  <2>2. EnPool(c)' = EnPool(c) /\ TareasLentas(c)' = TareasLentas(c)
    BY <2>1 DEF EnPool, TareasLentas
  <2>3. EnCola(c)' = EnCola(c) /\ RespLentas(c)' = RespLentas(c)
    BY <2>1 DEF EnCola, RespLentas
  <2>. QED
    BY <1>1, <1>2, <2>2, <2>3 DEF Quieto, Dicho
<1>4. CASE Carga(t) \/ Crea(t) \/ Borra(t) \/ FallaSQL(t)
  <2>1. ~t.hecho /\ UNCHANGED respuestas
    BY <1>4 DEF Carga, Crea, Borra, FallaSQL
  <2>2. \E res \in SUBSET (1..MaxIds) : tareas' = Hecha(t, res)
    <3>1. CASE Carga(t)
      BY <3>1, IdsTipo DEF Carga
    <3>2. CASE Borra(t)
      BY <3>2, FilasTipo DEF Borra
    <3>3. CASE FallaSQL(t)
      BY <3>3 DEF FallaSQL
    <3>4. CASE Crea(t)
      <4>1. \E res : tareas' = Hecha(t, res) /\ res \in {{}, {siguiente}} /\ t.op = "crear"
        BY <3>4 DEF Crea
      <4>2. siguiente \in 1..MaxIds
        BY <2>1, <4>1, HayId
      <4>. QED
        BY <4>1, <4>2
    <3>. QED
      BY <1>4, <3>1, <3>2, <3>3, <3>4
  <2>3. EnPool(c)' = EnPool(c) /\ TareasLentas(c)' = TareasLentas(c)
    BY <2>1, <2>2, TareaHecha
  <2>4. EnCola(c)' = EnCola(c) /\ RespLentas(c)' = RespLentas(c)
    BY <2>1 DEF EnCola, RespLentas
  <2>. QED
    BY <1>1, <1>2, <2>3, <2>4 DEF Quieto, Dicho
<1>. QED
  BY <1>3, <1>4 DEF Ejecuta

LEMMA RecibeOtro ==
  ASSUME Tipos, NEW c \in Clientes, NEW d \in Clientes, d # c, NEW r \in Respuesta, RecibeR(d, r)
  PROVE  Quieto(c) /\ UNCHANGED fallos
<1>1. /\ UNCHANGED <<personajes, siguiente, fallos>> /\ respuestas'[c] = respuestas[c]
      /\ creados'[c] = creados[c] /\ borrados'[c] = borrados[c]
      /\ escena'[c] = escena[c] /\ lista'[c] = lista[c] /\ seleccionado'[c] = seleccionado[c]
  BY DEF RecibeR, RecibeLista, RecibeCreacion, RecibeBorrado, Ignora, AbreSeleccion,
         pantalla, historia, Tipos
<1>2. UNCHANGED tareas \/ \E op, dato : tareas' = tareas \cup {Tarea(d, op, dato)}
  BY DEF RecibeR, RecibeLista, RecibeCreacion, RecibeBorrado, Ignora, AbreSeleccion, Recarga
<1>3. TareasLentas(c)' = TareasLentas(c) /\ EnPool(c)' = EnPool(c)
  <2>1. CASE UNCHANGED tareas
    BY <2>1 DEF TareasLentas, EnPool
  <2>2. ASSUME NEW op, NEW dato, tareas' = tareas \cup {Tarea(d, op, dato)}
        PROVE  TareasLentas(c)' = TareasLentas(c) /\ EnPool(c)' = EnPool(c)
    BY <2>2, TareaNueva
  <2>. QED
    BY <1>2, <2>1, <2>2
<1>4. EnCola(c)' = EnCola(c) /\ RespLentas(c)' = RespLentas(c) /\ IdsDe(c)' = IdsDe(c)
  BY <1>1 DEF EnCola, RespLentas, IdsDe
<1>. QED
  BY <1>1, <1>3, <1>4 DEF Quieto, Dicho, Tipos

-----------------------------------------------------------------------------
(* A user who waits *)

\* What c waits for and sees.
Ve(c) == UnaEspera(c) /\ (fallos = 0 => Vista(c))

LEMMA UsuarioPropio ==
  ASSUME Tipos, NEW c \in Pacientes, Ve(c), Usuario(c)
  PROVE  Ve(c)'
<1>. c \in Clientes
  BY PeticionesAssumption
<1>0. /\ UNCHANGED <<personajes, siguiente, fallos, respuestas, creados, borrados>>
      /\ siguiente \in Nat
  BY DEF Usuario, Elige, Elimina, IrACrear, Vuelve, EntraMundo, TocaRasgo, Confirma, servidor,
         historia, Tipos
<1>1. EnCola(c)' = EnCola(c) /\ RespLentas(c)' = RespLentas(c) /\ IdsDe(c)' = IdsDe(c)
  BY <1>0 DEF EnCola, RespLentas, IdsDe
<1>2. ASSUME UNCHANGED tareas PROVE TareasLentas(c)' = TareasLentas(c) /\ Dicho(c)' = Dicho(c)
  BY <1>1, <1>2 DEF TareasLentas, Dicho, EnPool
<1>3. ASSUME Dicho(c)' = Dicho(c)
      PROVE  /\ Borrandose(c)' = Borrandose(c) /\ Idas(c)' = Idas(c)
             /\ Vista(c) => GastadasDe(c)' /\ CreadasDe(c)'
  <2>1. Borrandose(c)' = Borrandose(c) /\ Idas(c)' = Idas(c)
    BY <1>0, <1>3 DEF Borrandose, Idas
  <2>. QED
    BY <1>0, <1>1, <1>3, <2>1 DEF Vista, GastadasDe, CreadasDe
<1>4. ASSUME Pulsa(c) PROVE TareasLentas(c) = {} /\ RespLentas(c) = {} /\ \A r \in Dicho(c) : r.op = "crear"
  BY <1>4, SinEspera, SoloCreaciones DEF Pulsa
<1>5. ASSUME NEW id \in lista[c], Elige(c, id) PROVE Ve(c)'
  <2>1. /\ UNCHANGED tareas /\ Pulsa(c) /\ escena[c] = "seleccion"
        /\ escena'[c] = escena[c] /\ lista'[c] = lista[c] /\ seleccionado'[c] = id
    BY <1>5 DEF Elige, servidor, Tipos
  <2>2. UnaEspera(c)'
    BY <1>1, <1>2, <2>1, EsperaIgual DEF Ve
  <2>3. ASSUME fallos = 0 PROVE Vista(c)'
    <3>1. ListaEnCamino(c)' /\ BorradoEnCamino(c)'
      BY <1>2, <1>4, <2>1 DEF ListaEnCamino, BorradoEnCamino
    <3>2. Mostrado(c)'
      BY <1>0, <1>1, <1>4, <2>1, <2>3 DEF Mostrado, Ve, Vista
    <3>. QED
      BY <1>2, <1>3, <2>1, <2>3, <3>1, <3>2 DEF Ve, Vista
  <2>. QED
    BY <1>0, <2>2, <2>3 DEF Ve
<1>6. CASE IrACrear(c) \/ EntraMundo(c)
  <2>1. /\ UNCHANGED tareas /\ Pulsa(c) /\ escena'[c] # "seleccion"
    BY <1>6 DEF IrACrear, EntraMundo, servidor, Tipos
  <2>2. UnaEspera(c)'
    BY <1>1, <1>2, <1>4, <2>1 DEF UnaEspera
  <2>3. ASSUME fallos = 0 PROVE Vista(c)'
    <3>1. ListaEnCamino(c)' /\ BorradoEnCamino(c)' /\ Mostrado(c)'
      BY <1>2, <1>4, <2>1 DEF ListaEnCamino, BorradoEnCamino, Mostrado
    <3>. QED
      BY <1>2, <1>3, <2>1, <2>3, <3>1 DEF Ve, Vista
  <2>. QED
    BY <1>0, <2>2, <2>3 DEF Ve
<1>7. CASE TocaRasgo(c)
  <2>1. UNCHANGED <<tareas, escena, lista, seleccionado>>
    BY <1>7 DEF TocaRasgo, servidor
  <2>. QED
    BY <1>0, <1>1, <1>2, <2>1, EsperaIgual, VistaIgual DEF Ve
<1>8. ASSUME NEW n \in Nombres, Confirma(c, n) PROVE Ve(c)'
  <2>1. tareas' = tareas \cup {Tarea(c, "crear", n)} /\ UNCHANGED <<escena, lista, seleccionado>>
    BY <1>8 DEF Confirma
  <2>2. TareasLentas(c)' = TareasLentas(c) /\ EnPool(c)' = EnPool(c)
    BY <2>1, TareaNueva DEF Lentas
  <2>. QED
    BY <1>0, <1>1, <2>1, <2>2, EsperaIgual, VistaIgual DEF Ve, Dicho
<1>9. ASSUME NEW op \in Lentas, NEW dato, tareas' = tareas \cup {Tarea(c, op, dato)}, Pulsa(c),
             escena'[c] = "seleccion",
             op = "lista" => seleccionado'[c] = Ninguno,
             op = "eliminar" /\ fallos = 0 => dato \in IdsDe(c)
      PROVE  Ve(c)'
  <2>1. /\ TareasLentas(c)' = {Tarea(c, op, dato)} /\ EnPool(c)' = EnPool(c)
        /\ Tarea(c, op, dato).op = op /\ Tarea(c, op, dato).dato = dato
    BY <1>4, <1>9, TareaNueva
  <2>2. UnaEspera(c)'
    BY <1>1, <1>4, <1>9, <2>1 DEF UnaEspera
  <2>3. Dicho(c)' = Dicho(c)
    BY <1>1, <2>1 DEF Dicho
  <2>4. ASSUME fallos = 0 PROVE Vista(c)'
    <3>1. ListaEnCamino(c)' /\ BorradoEnCamino(c)' /\ Mostrado(c)'
      BY <1>1, <1>4, <1>9, <2>1, <2>3, <2>4 DEF ListaEnCamino, BorradoEnCamino, Mostrado
    <3>. QED
      BY <1>3, <2>3, <2>4, <3>1 DEF Ve, Vista
  <2>. QED
    BY <1>0, <2>2, <2>4 DEF Ve
<1>10. CASE Elimina(c)
  <2>1. /\ tareas' = tareas \cup {Tarea(c, "eliminar", seleccionado[c])} /\ Pulsa(c)
        /\ escena[c] = "seleccion" /\ escena'[c] = escena[c] /\ seleccionado[c] # Ninguno
    BY <1>10 DEF Elimina, pantalla
  <2>2. fallos = 0 => seleccionado[c] \in IdsDe(c)
    BY <1>4, <2>1 DEF Ve, Vista, Mostrado
  <2>. QED
    BY <1>9, <2>1, <2>2 DEF Lentas
<1>11. CASE Vuelve(c)
  <2>1. /\ tareas' = tareas \cup {Tarea(c, "lista", Ninguno)} /\ Pulsa(c)
        /\ escena'[c] = "seleccion" /\ seleccionado'[c] = Ninguno
    BY <1>11 DEF Vuelve, AbreSeleccion, Tipos
  <2>. QED
    BY <1>9, <2>1 DEF Lentas
<1>. QED
  BY <1>5, <1>6, <1>7, <1>8, <1>10, <1>11 DEF Usuario

\* A statement of c is executed.
LEMMA HechaPropia ==
  ASSUME Tipos, NEW c \in Pacientes, NEW t \in tareas, t.cli = c, ~t.hecho,
         NEW res \in SUBSET (1..MaxIds), tareas' = Hecha(t, res),
         UNCHANGED <<respuestas, escena, lista, seleccionado, creados, borrados>>,
         UnaEspera(c)
  PROVE  /\ UnaEspera(c)' /\ RespLentas(c)' = RespLentas(c)
         /\ Dicho(c)' = Dicho(c) \cup {[op |-> t.op, res |-> res]}
         /\ t.op = "crear" => TareasLentas(c)' = TareasLentas(c)
         /\ t.op \in Lentas =>
              /\ \E x : /\ TareasLentas(c)' = {x} /\ x.op = t.op /\ x.hecho
              /\ RespLentas(c) = {} /\ t \in TareasLentas(c)
              /\ \A r \in Dicho(c) : r.op = "crear"
<1>. c \in Clientes
  BY PeticionesAssumption
<1>1. PICK x : /\ x.cli = c /\ x.op = t.op /\ x.hecho /\ x.res = res
               /\ EnPool(c)' = EnPool(c) \cup {[op |-> t.op, res |-> res]}
               /\ t.op \notin Lentas => TareasLentas(c)' = TareasLentas(c)
               /\ t.op \in Lentas =>
                    TareasLentas(c)' = (TareasLentas(c) \ {t}) \cup {x} /\ t \in TareasLentas(c)
  BY TareaHecha
<1>2. EnCola(c)' = EnCola(c) /\ RespLentas(c)' = RespLentas(c)
  BY DEF EnCola, RespLentas
<1>3. Dicho(c)' = Dicho(c) \cup {[op |-> t.op, res |-> res]}
  BY <1>1, <1>2 DEF Dicho
<1>4. CASE t.op \in Lentas
  <2>1. TareasLentas(c) = {t} /\ RespLentas(c) = {} /\ TareasLentas(c)' = {x}
        /\ escena[c] = "seleccion"
    BY <1>1, <1>4 DEF UnaEspera
  <2>2. UnaEspera(c)'
    BY <1>2, <2>1 DEF UnaEspera
  <2>3. ASSUME NEW r \in Dicho(c), r.op # "crear" PROVE FALSE
    <3>1. r.op \in Lentas
      BY <2>3, DichoEs DEF Respuesta, Ops, Lentas
    <3>2. \E u \in tareas : u.hecho /\ u \in TareasLentas(c)
      BY <2>1, <3>1, DichoEs
    <3>. QED
      BY <2>1, <3>2
  <2>. QED
    BY <1>1, <1>2, <1>3, <1>4, <2>1, <2>2, <2>3 DEF Lentas
<1>5. CASE t.op \notin Lentas
  <2>1. TareasLentas(c)' = TareasLentas(c)
    BY <1>1, <1>5
  <2>. QED
    BY <1>2, <1>3, <1>5, <2>1, EsperaIgual
<1>. QED
  BY <1>4, <1>5

LEMMA CargaPropia ==
  ASSUME Tipos, NEW c \in Pacientes, Ve(c), NEW t \in tareas, t.cli = c, Carga(t)
  PROVE  Ve(c)'
<1>. c \in Clientes
  BY PeticionesAssumption
<1>0. /\ ~t.hecho /\ t.op = "lista" /\ t.op \in Lentas /\ tareas' = Hecha(t, IdsDe(c))
      /\ IdsDe(c) \in SUBSET (1..MaxIds)
      /\ UNCHANGED <<personajes, siguiente, fallos, respuestas, pantalla, historia>>
  BY IdsTipo DEF Carga, Lentas
<1>1. /\ UnaEspera(c)'
      /\ Dicho(c)' = Dicho(c) \cup {[op |-> "lista", res |-> IdsDe(c)]}
      /\ \E x : TareasLentas(c)' = {x} /\ x.op = "lista" /\ x.hecho
      /\ RespLentas(c) = {} /\ t \in TareasLentas(c)
      /\ \A r \in Dicho(c) : r.op = "crear"
  BY <1>0, HechaPropia DEF Ve, pantalla, historia
<1>2. ASSUME fallos = 0 PROVE Vista(c)'
  <2>1. IdsDe(c)' = IdsDe(c)
    BY <1>0 DEF IdsDe
  <2>2. /\ Borrandose(c) = {} /\ Borrandose(c)' = {}
        /\ Idas(c) = borrados[c] /\ Idas(c)' = borrados[c]
    BY <1>0, <1>1 DEF Borrandose, Idas, historia
  <2>3. GastadasDe(c)' /\ CreadasDe(c)'
    BY <1>0, <1>1, <1>2, <2>1, <2>2 DEF Ve, Vista, GastadasDe, CreadasDe, historia
  <2>4. seleccionado[c] = Ninguno /\ creados[c] \ borrados[c] \subseteq IdsDe(c)
    BY <1>0, <1>1, <1>2, <2>2 DEF Ve, Vista, ListaEnCamino, CreadasDe
  <2>5. ListaEnCamino(c)'
    BY <1>0, <1>1, <2>1, <2>4 DEF ListaEnCamino, pantalla, historia
  <2>6. BorradoEnCamino(c)' /\ Mostrado(c)'
    BY <1>0, <1>1 DEF BorradoEnCamino, Mostrado
  <2>. QED
    BY <2>3, <2>5, <2>6 DEF Vista
<1>. QED
  BY <1>0, <1>1, <1>2 DEF Ve

LEMMA CreaPropia ==
  ASSUME Tipos, Cuenta, Gastadas, NEW c \in Pacientes, Ve(c), NEW t \in tareas, t.cli = c, Crea(t)
  PROVE  Ve(c)'
<1>. c \in Clientes
  BY PeticionesAssumption
<1>0. /\ ~t.hecho /\ t.op = "crear" /\ siguiente' = siguiente + 1 /\ siguiente \in 1..MaxIds
      /\ UNCHANGED <<fallos, respuestas, pantalla, historia>>
  BY HayId DEF Crea
<1>1. PICK res \in SUBSET {siguiente} :
        /\ tareas' = Hecha(t, res) /\ IdsDe(c)' = IdsDe(c) \cup res /\ res \in SUBSET (1..MaxIds)
  <2>1. CASE \A r \in personajes : r.nombre # t.dato
    <3>1. PICK f : /\ f.id = siguiente /\ f.jugador_id = c
                   /\ personajes' = personajes \cup {f}
                   /\ tareas' = Hecha(t, {siguiente})
      <4>. DEFINE f == [id |-> siguiente, jugador_id |-> t.cli, nombre |-> t.dato]
      <4>1. personajes' = personajes \cup {f} /\ tareas' = Hecha(t, {siguiente})
        BY <2>1 DEF Crea
      <4>2. f.id = siguiente /\ f.jugador_id = c
        OBVIOUS
      <4>. HIDE DEF f
      <4>. QED
        BY <4>1, <4>2
    <3>2. IdsDe(c)' = IdsDe(c) \cup {siguiente}
      BY <3>1 DEF IdsDe
    <3>. QED
      BY <1>0, <3>1, <3>2
  <2>2. CASE ~\A r \in personajes : r.nombre # t.dato
    <3>1. personajes' = personajes /\ tareas' = Hecha(t, {})
      BY <2>2 DEF Crea
    <3>. QED
      BY <3>1 DEF IdsDe
  <2>. QED
    BY <2>1, <2>2
<1>2. /\ UnaEspera(c)' /\ RespLentas(c)' = RespLentas(c)
      /\ Dicho(c)' = Dicho(c) \cup {[op |-> "crear", res |-> res]}
      /\ TareasLentas(c)' = TareasLentas(c)
  <2>1. UnaEspera(c) /\ UNCHANGED <<respuestas, escena, lista, seleccionado, creados, borrados>>
    BY <1>0 DEF Ve, pantalla, historia
  <2>2. ~t.hecho /\ res \in SUBSET (1..MaxIds) /\ tareas' = Hecha(t, res)
    BY <1>0, <1>1
  <2>3. /\ UnaEspera(c)' /\ RespLentas(c)' = RespLentas(c)
        /\ Dicho(c)' = Dicho(c) \cup {[op |-> t.op, res |-> res]}
        /\ t.op = "crear" => TareasLentas(c)' = TareasLentas(c)
    BY <2>1, <2>2, HechaPropia
  <2>. QED
    BY <1>0, <2>3
<1>3. ASSUME fallos = 0 PROVE Vista(c)'
  <2>0. Vista(c) /\ UNCHANGED <<escena, lista, seleccionado, creados, borrados>>
    BY <1>0, <1>3 DEF Ve, pantalla, historia
  <2>1. Borrandose(c)' = Borrandose(c) /\ Idas(c)' = Idas(c)
    BY <1>2, <2>0 DEF Borrandose, Idas
  <2>2. GastadasDe(c)'
    <3>1. \A n \in Idas(c) : n < siguiente /\ n \in Int
      <4>1. \A r \in Dicho(c) : r.res \subseteq Int
        BY DichoEs DEF Respuesta
      <4>2. Idas(c) \subseteq Int
        BY <4>1 DEF Idas, Borrandose, Tipos
      <4>. QED
        BY <2>0, <4>2 DEF Vista, GastadasDe
    <3>. QED
      BY <1>0, <1>1, <2>0, <2>1, <3>1 DEF Vista, GastadasDe
  <2>3. CreadasDe(c)'
    BY <1>1, <1>2, <2>0, <2>1 DEF Vista, CreadasDe
  <2>4. ListaEnCamino(c)' /\ BorradoEnCamino(c)' /\ Mostrado(c)'
    BY <1>1, <1>2, <2>0 DEF Vista, ListaEnCamino, BorradoEnCamino, Mostrado
  <2>. QED
    BY <2>2, <2>3, <2>4 DEF Vista
<1>. QED
  BY <1>0, <1>2, <1>3 DEF Ve

LEMMA BorraPropia ==
  ASSUME Tipos, Gastadas, NEW c \in Pacientes, Ve(c), NEW t \in tareas, t.cli = c, Borra(t)
  PROVE  Ve(c)'
<1>. c \in Clientes
  BY PeticionesAssumption
<1>. DEFINE res == {r.id : r \in Filas(t)}
<1>0. /\ ~t.hecho /\ t.op = "eliminar" /\ t.op \in Lentas /\ tareas' = Hecha(t, res)
      /\ res \in SUBSET (1..MaxIds) /\ personajes' = personajes \ Filas(t)
      /\ UNCHANGED <<siguiente, fallos, respuestas, pantalla, historia>>
  BY FilasTipo DEF Borra, Lentas
<1>1. /\ IdsDe(c)' = IdsDe(c) \ {t.dato}
      /\ t.dato \in IdsDe(c) => res = {t.dato}
      /\ \A n \in IdsDe(c) : n < siguiente
      /\ res \subseteq {t.dato}
  BY <1>0 DEF IdsDe, Filas, Gastadas
<1>. HIDE DEF res
<1>2. /\ UnaEspera(c)'
      /\ Dicho(c)' = Dicho(c) \cup {[op |-> "eliminar", res |-> res]}
      /\ \E x : TareasLentas(c)' = {x} /\ x.op = "eliminar" /\ x.hecho
      /\ RespLentas(c) = {} /\ t \in TareasLentas(c)
      /\ \A r \in Dicho(c) : r.op = "crear"
  <2>1. UnaEspera(c) /\ UNCHANGED <<respuestas, escena, lista, seleccionado, creados, borrados>>
    BY <1>0 DEF Ve, pantalla, historia
  <2>2. c \in Pacientes /\ t \in tareas /\ t.cli = c /\ ~t.hecho /\ t.op = "eliminar"
        /\ t.op \in Lentas /\ t.op # "crear"
    BY <1>0
  <2>. QED
    BY ZenonT(60), <1>0, <2>1, <2>2, HechaPropia
<1>3. ASSUME fallos = 0 PROVE Vista(c)'
  <2>0. Vista(c) /\ UNCHANGED <<escena, lista, seleccionado, creados, borrados>>
    BY <1>0, <1>3 DEF Ve, pantalla, historia
  <2>1. t.dato \in IdsDe(c) /\ res = {t.dato}
    BY <1>0, <1>1, <1>2, <2>0 DEF Vista, BorradoEnCamino
  <2>2. Borrandose(c)' = res /\ Idas(c) = borrados[c] /\ Idas(c)' = borrados[c] \cup res
    <3>1. Borrandose(c) = {}
      BY <1>2 DEF Borrandose
    <3>2. PICK x : x = [op |-> "eliminar", res |-> res]
      OBVIOUS
    <3>3. /\ x.op = "eliminar" /\ x.res = res /\ x \in Dicho(c)'
          /\ \A r \in Dicho(c)' : r.op = "eliminar" => r = x
      BY <1>2, <3>2
    <3>4. \A n : n \in Borrandose(c)' <=> n \in res
      BY <3>3 DEF Borrandose
    <3>. QED
      BY <2>0, <3>1, <3>4 DEF Idas
  <2>3. GastadasDe(c)'
    BY <1>0, <1>1, <2>0, <2>1, <2>2 DEF Vista, GastadasDe
  <2>4. CreadasDe(c)'
    BY <1>1, <1>2, <2>0, <2>1, <2>2 DEF Vista, CreadasDe
  <2>5. ListaEnCamino(c)' /\ BorradoEnCamino(c)' /\ Mostrado(c)'
    BY <1>2, <2>1 DEF ListaEnCamino, BorradoEnCamino, Mostrado
  <2>. QED
    BY <2>3, <2>4, <2>5 DEF Vista
<1>. QED
  BY <1>0, <1>2, <1>3 DEF Ve

LEMMA FallaPropia ==
  ASSUME Tipos, NEW c \in Pacientes, Ve(c), NEW t \in tareas, t.cli = c, FallaSQL(t)
  PROVE  Ve(c)'
<1>0. /\ ~t.hecho /\ tareas' = Hecha(t, {}) /\ fallos' = fallos + 1 /\ fallos \in Nat
      /\ UNCHANGED <<respuestas, escena, lista, seleccionado, creados, borrados>>
  BY PeticionesAssumption DEF FallaSQL, pantalla, historia, Tipos
<1>1. UnaEspera(c)'
  BY <1>0, HechaPropia DEF Ve
<1>. QED
  BY <1>0, <1>1 DEF Ve

\* The answer of t goes from the pool to the queue.
LEMMA RespondePropia ==
  ASSUME Tipos, NEW c \in Pacientes, Ve(c), NEW t \in tareas, t.cli = c, Responde(t)
  PROVE  Ve(c)'
<1>. c \in Clientes
  BY PeticionesAssumption
<1>. DEFINE q == respuestas[c]
<1>0. /\ t.hecho /\ tareas' = tareas \ {t} /\ t.op \in Ops
      /\ UNCHANGED <<personajes, siguiente, fallos, pantalla, historia>>
      /\ q \in Seq(Respuesta) /\ Len(q) \in Nat
  BY Formas DEF Responde, Tipos
<1>1. PICK r \in Respuesta :
        r = [op |-> t.op, res |-> t.res] /\ r.op = t.op /\ q' = Append(q, r)
  <2>1. [op |-> t.op, res |-> t.res] \in Respuesta
    BY Formas DEF Respuesta
  <2>2. q' = Append(q, [op |-> t.op, res |-> t.res])
    BY <1>0 DEF Responde, Contesta, Tipos
  <2>. QED
    BY <2>1, <2>2
<1>2. /\ Len(q') = Len(q) + 1 /\ q'[Len(q) + 1] = r
      /\ \A i \in 1..Len(q) : q'[i] = q[i]
  BY <1>0, <1>1
<1>3. EnCola(c)' = EnCola(c) \cup {r}
  <2>1. \A i \in 1..Len(q') : i \in 1..Len(q) \/ i = Len(q) + 1
    BY <1>0, <1>2
  <2>2. \A i \in 1..Len(q) : i \in 1..Len(q')
    BY <1>0, <1>2
  <2>3. Len(q) + 1 \in 1..Len(q')
    BY <1>0, <1>2
  <2>. QED
    BY <1>2, <2>1, <2>2, <2>3 DEF EnCola
<1>4. EnPool(c) = EnPool(c)' \cup {r}
  BY <1>0, <1>1 DEF EnPool
<1>5. Dicho(c)' = Dicho(c)
  BY <1>3, <1>4 DEF Dicho
<1>6. TareasLentas(c)' = TareasLentas(c) \ {t} /\ (t.op \in Lentas <=> t \in TareasLentas(c))
  BY <1>0 DEF TareasLentas
<1>7. RespLentas(c)' = IF t.op \in Lentas THEN RespLentas(c) \cup {Len(q) + 1} ELSE RespLentas(c)
  <2>1. \A i \in 1..Len(q') : i \in 1..Len(q) \/ i = Len(q) + 1
    BY <1>0, <1>2
  <2>2. \A i \in 1..Len(q) : i \in 1..Len(q')
    BY <1>0, <1>2
  <2>3. Len(q) + 1 \in 1..Len(q') /\ Len(q) + 1 \notin 1..Len(q)
    BY <1>0, <1>2
  <2>. QED
    BY <1>1, <1>2, <2>1, <2>2, <2>3 DEF RespLentas
<1>8. UNCHANGED <<escena, lista, seleccionado, creados, borrados>>
  BY <1>0 DEF pantalla, historia
<1>9. UnaEspera(c)'
  BY <1>6, <1>7, <1>8 DEF Ve, UnaEspera
<1>10. ASSUME fallos = 0 PROVE Vista(c)'
  <2>1. Vista(c) /\ IdsDe(c)' = IdsDe(c) /\ Borrandose(c)' = Borrandose(c) /\ Idas(c)' = Idas(c)
    BY <1>0, <1>5, <1>8, <1>10 DEF Ve, IdsDe, Borrandose, Idas
  <2>2. GastadasDe(c)' /\ CreadasDe(c)'
    BY <1>0, <1>5, <1>8, <2>1 DEF Vista, GastadasDe, CreadasDe
  <2>3. ListaEnCamino(c)' /\ BorradoEnCamino(c)'
    BY <1>5, <1>6, <1>8, <2>1 DEF Vista, ListaEnCamino, BorradoEnCamino
  <2>4. Mostrado(c)'
    <3>1. TareasLentas(c)' = {} /\ RespLentas(c)' = {} => TareasLentas(c) = {} /\ RespLentas(c) = {}
      BY <1>6, <1>7
    <3>. QED
      BY <1>8, <2>1, <3>1 DEF Vista, Mostrado
  <2>. QED
    BY <2>2, <2>3, <2>4 DEF Vista
<1>. QED
  BY <1>0, <1>9, <1>10 DEF Ve

\* A reply is taken from the queue.
LEMMA Quita ==
  ASSUME Tipos, NEW c \in Clientes, NEW r \in Respuesta, RecibeR(c, r), UnaEspera(c)
  PROVE  /\ EnCola(c) = EnCola(c)' \cup {r} /\ r \in Dicho(c)
         /\ r.op \in Lentas => /\ TareasLentas(c) = {} /\ RespLentas(c)' = {}
                               /\ escena[c] = "seleccion"
                               /\ \A x \in Dicho(c) : x.op # "crear" => x = r
         /\ r.op \notin Lentas => (RespLentas(c) = {} <=> RespLentas(c)' = {})
         /\ \A i, j \in RespLentas(c)' : i = j
<1>. DEFINE q == respuestas[c]
<1>0. /\ q \in Seq(Respuesta) /\ q # <<>> /\ r = q[1] /\ q' = Tail(q)
      /\ Len(q) \in Nat /\ Len(q) >= 1 /\ Len(q') = Len(q) - 1
      /\ \A i \in 1..Len(q') : i + 1 \in 1..Len(q) /\ q'[i] = q[i + 1]
  <2>1. q \in Seq(Respuesta) /\ q # <<>> /\ r = Head(q) /\ q' = Tail(q)
    BY DEF RecibeR, Tipos
  <2>2. Len(q) >= 1
    BY <2>1
  <2>. QED
    BY <2>1, <2>2, Cola
<1>. HIDE DEF q
<1>1. /\ \A i \in 1..Len(q) : i = 1 \/ (i - 1 \in 1..Len(q') /\ q'[i - 1] = q[i])
      /\ 1 \in 1..Len(q)
  <2>1. ASSUME NEW i \in 1..Len(q), i # 1 PROVE i - 1 \in 1..Len(q') /\ (i - 1) + 1 = i
    BY <1>0, <2>1
  <2>2. ASSUME NEW i \in 1..Len(q), i # 1 PROVE q'[i - 1] = q[i]
    <3>1. PICK k : k = i - 1
      OBVIOUS
    <3>. QED
      BY <1>0, <2>1, <2>2, <3>1
  <2>. QED
    BY <1>0, <2>1, <2>2
<1>2. EnCola(c) = EnCola(c)' \cup {r}
  <2>1. \A i \in 1..Len(q) : q[i] = r \/ \E k \in 1..Len(q') : q[i] = q'[k]
    BY <1>0, <1>1
  <2>2. r \in EnCola(c) /\ \A k \in 1..Len(q') : \E i \in 1..Len(q) : q'[k] = q[i]
    BY <1>0, <1>1 DEF EnCola, q
  <2>. QED
    BY <2>1, <2>2 DEF EnCola, q
<1>3. /\ \A i \in RespLentas(c)' : i \in 1..Len(q') /\ i + 1 \in RespLentas(c)
      /\ \A i \in RespLentas(c) : i = 1 \/ i - 1 \in RespLentas(c)'
      /\ r.op \in Lentas <=> 1 \in RespLentas(c)
  BY <1>0, <1>1 DEF RespLentas, q
<1>4. \A i, j \in RespLentas(c)' : i = j
  <2>. SUFFICES ASSUME NEW i \in RespLentas(c)', NEW j \in RespLentas(c)' PROVE i = j
    OBVIOUS
  <2>1. i + 1 = j + 1 /\ i \in Nat /\ j \in Nat
    BY <1>0, <1>3 DEF UnaEspera
  <2>. QED
    BY <2>1
<1>5. r \in Dicho(c)
  BY <1>2 DEF Dicho
<1>6. ASSUME r.op \in Lentas
      PROVE  /\ TareasLentas(c) = {} /\ RespLentas(c)' = {} /\ escena[c] = "seleccion"
             /\ \A x \in Dicho(c) : x.op # "crear" => x = r
  <2>1. RespLentas(c) = {1}
    BY <1>3, <1>6 DEF UnaEspera
  <2>2. TareasLentas(c) = {} /\ escena[c] = "seleccion"
    BY <2>1 DEF UnaEspera
  <2>3. ASSUME NEW i \in RespLentas(c)' PROVE FALSE
    <3>1. i + 1 = 1 /\ i \in 1..Len(q')
      BY <1>3, <2>1, <2>3
    <3>. QED
      BY <1>0, <3>1
  <2>4. ASSUME NEW x \in Dicho(c), x.op # "crear" PROVE x = r
    <3>1. x.op \in Lentas
      BY <2>4, DichoEs DEF Respuesta, Ops, Lentas
    <3>2. \E i \in 1..Len(respuestas[c]) : x = respuestas[c][i] /\ i \in RespLentas(c)
      BY <2>2, <3>1, DichoEs
    <3>. QED
      BY <1>0, <2>1, <3>2 DEF q
  <2>. QED
    BY <2>2, <2>3, <2>4
<1>7. r.op \notin Lentas => (RespLentas(c) = {} <=> RespLentas(c)' = {})
  BY <1>3
<1>. QED
  BY <1>2, <1>4, <1>5, <1>6, <1>7

LEMMA RecibePropio ==
  ASSUME Tipos, NEW c \in Pacientes, Ve(c), NEW r \in Respuesta, RecibeR(c, r)
  PROVE  Ve(c)'
<1>. c \in Clientes
  BY PeticionesAssumption
<1>0. /\ UNCHANGED <<personajes, siguiente, fallos>> /\ siguiente \in Nat
      /\ IdsDe(c)' = IdsDe(c) /\ UnaEspera(c) /\ r.op \in Ops
  BY DEF RecibeR, Tipos, IdsDe, Ve, Respuesta
<1>1. /\ EnCola(c) = EnCola(c)' \cup {r} /\ r \in Dicho(c)
      /\ r.op \in Lentas => /\ TareasLentas(c) = {} /\ RespLentas(c)' = {}
                            /\ escena[c] = "seleccion"
                            /\ \A x \in Dicho(c) : x.op # "crear" => x = r
      /\ r.op \notin Lentas => (RespLentas(c) = {} <=> RespLentas(c)' = {})
      /\ \A i, j \in RespLentas(c)' : i = j
  BY <1>0, Quita
<1>2. ASSUME EnPool(c)' = EnPool(c)
      PROVE  /\ Dicho(c) = Dicho(c)' \cup {r}
             /\ r.op # "eliminar" => Borrandose(c)' = Borrandose(c)
  <2>1. Dicho(c) = Dicho(c)' \cup {r}
    BY <1>1, <1>2 DEF Dicho
  <2>2. ASSUME r.op # "eliminar"
        PROVE  {x \in Dicho(c)' : x.op = "eliminar"} = {x \in Dicho(c) : x.op = "eliminar"}
    BY <2>1, <2>2
  <2>. QED
    BY <2>1, <2>2 DEF Borrandose
<1>3. CASE RecibeLista(c, r)
  <2>1. /\ r.op = "lista" /\ r.op \in Lentas /\ UNCHANGED <<tareas, escena, seleccionado, creados, borrados>>
        /\ lista'[c] = r.res /\ escena[c] = "seleccion"
    BY <1>3 DEF RecibeLista, Lentas, historia, Tipos
  <2>2. EnPool(c)' = EnPool(c) /\ TareasLentas(c)' = TareasLentas(c)
    BY <2>1 DEF EnPool, TareasLentas
  <2>3. UnaEspera(c)'
    BY <1>1, <2>1, <2>2 DEF UnaEspera
  <2>4. ASSUME fallos = 0 PROVE Vista(c)'
    <3>1. Vista(c) /\ Idas(c)' = Idas(c) /\ Dicho(c)' \subseteq Dicho(c)
      BY <1>2, <2>1, <2>2, <2>4 DEF Ve, Idas
    <3>2. GastadasDe(c)' /\ CreadasDe(c)'
      BY <1>0, <2>1, <3>1 DEF Vista, GastadasDe, CreadasDe
    <3>3. ListaEnCamino(c)' /\ BorradoEnCamino(c)'
      BY <1>0, <2>1, <2>2, <3>1 DEF Vista, ListaEnCamino, BorradoEnCamino
    <3>4. seleccionado[c] = Ninguno /\ r.res \subseteq IdsDe(c) /\ creados[c] \ borrados[c] \subseteq r.res
      BY <1>1, <2>1, <3>1 DEF Vista, ListaEnCamino
    <3>5. Mostrado(c)'
      BY <1>0, <2>1, <3>4 DEF Mostrado
    <3>. QED
      BY <3>2, <3>3, <3>5 DEF Vista
  <2>. QED
    BY <1>0, <2>3, <2>4 DEF Ve
<1>4. CASE RecibeCreacion(c, r)
  <2>1. r.op = "crear" /\ r.op \notin Lentas /\ escena[c] = "creacion"
    BY <1>4 DEF RecibeCreacion, Lentas
  <2>2. /\ TareasLentas(c) = {} /\ RespLentas(c) = {} /\ RespLentas(c)' = {}
        /\ \A x \in Dicho(c) : x.op = "crear"
    <3>1. TareasLentas(c) = {} /\ RespLentas(c) = {}
      BY <1>0, <2>1 DEF UnaEspera
    <3>. QED
      BY <1>1, <2>1, <3>1, SoloCreaciones
  <2>3. CASE r.res # {}
    <3>1. /\ tareas' = tareas \cup {Tarea(c, "lista", Ninguno)}
          /\ escena'[c] = "seleccion" /\ seleccionado'[c] = Ninguno
          /\ creados'[c] = creados[c] \cup r.res /\ borrados'[c] = borrados[c]
      BY <1>4, <2>3 DEF RecibeCreacion, AbreSeleccion, Tipos
    <3>2. /\ EnPool(c)' = EnPool(c) /\ TareasLentas(c)' = {Tarea(c, "lista", Ninguno)}
          /\ Tarea(c, "lista", Ninguno).op = "lista"
      BY <2>2, <3>1, TareaNueva DEF Lentas
    <3>3. UnaEspera(c)'
      BY <2>2, <3>1, <3>2 DEF UnaEspera
    <3>4. ASSUME fallos = 0 PROVE Vista(c)'
      <4>1. Vista(c) /\ Idas(c)' = Idas(c) /\ Dicho(c)' \subseteq Dicho(c)
        BY <1>2, <2>1, <3>1, <3>2, <3>4 DEF Ve, Idas
      <4>2. GastadasDe(c)'
        BY <1>0, <4>1 DEF Vista, GastadasDe
      <4>3. CreadasDe(c)'
        <5>1. creados[c] \cup r.res \subseteq IdsDe(c) \cup Idas(c)
          BY <1>1, <2>1, <4>1 DEF Vista, CreadasDe
        <5>2. \A x \in Dicho(c)' : x.op = "crear" => x.res \subseteq IdsDe(c) \cup Idas(c)
          BY <4>1 DEF Vista, CreadasDe
        <5>. QED
          BY <1>0, <3>1, <4>1, <5>1, <5>2 DEF CreadasDe
      <4>4. ListaEnCamino(c)' /\ BorradoEnCamino(c)' /\ Mostrado(c)'
        BY <2>2, <3>1, <3>2, <4>1 DEF ListaEnCamino, BorradoEnCamino, Mostrado
      <4>. QED
        BY <4>2, <4>3, <4>4 DEF Vista
    <3>. QED
      BY <1>0, <3>3, <3>4 DEF Ve
  <2>4. CASE r.res = {}
    <3>1. UNCHANGED <<tareas, escena, lista, seleccionado, creados, borrados>>
      BY <1>4, <2>4 DEF RecibeCreacion
    <3>2. EnPool(c)' = EnPool(c) /\ TareasLentas(c)' = TareasLentas(c)
      BY <3>1 DEF EnPool, TareasLentas
    <3>3. UnaEspera(c)'
      BY <1>0, <2>2, <3>1, <3>2 DEF UnaEspera
    <3>4. ASSUME fallos = 0 PROVE Vista(c)'
      <4>1. Vista(c) /\ Idas(c)' = Idas(c) /\ Dicho(c)' \subseteq Dicho(c)
        BY <1>2, <2>1, <3>1, <3>2, <3>4 DEF Ve, Idas
      <4>2. GastadasDe(c)' /\ CreadasDe(c)'
        BY <1>0, <3>1, <4>1 DEF Vista, GastadasDe, CreadasDe
      <4>3. ListaEnCamino(c)' /\ BorradoEnCamino(c)' /\ Mostrado(c)'
        BY <2>1, <2>2, <3>1, <3>2, <4>1 DEF ListaEnCamino, BorradoEnCamino, Mostrado
      <4>. QED
        BY <4>2, <4>3 DEF Vista
    <3>. QED
      BY <1>0, <3>3, <3>4 DEF Ve
  <2>. QED
    BY <2>3, <2>4
<1>5. CASE RecibeBorrado(c, r)
  <2>1. r.op = "eliminar" /\ r.op \in Lentas /\ escena[c] = "seleccion" /\ escena'[c] = "seleccion"
    BY <1>5 DEF RecibeBorrado, Lentas, Tipos
  <2>2. CASE r.res # {}
    <3>1. /\ tareas' = tareas \cup {Tarea(c, "lista", Ninguno)}
          /\ seleccionado'[c] = Ninguno
          /\ borrados'[c] = borrados[c] \cup r.res /\ UNCHANGED creados
      BY <1>5, <2>2 DEF RecibeBorrado, Recarga, TrasBorrar, Tipos
    <3>2. /\ EnPool(c)' = EnPool(c) /\ TareasLentas(c)' = {Tarea(c, "lista", Ninguno)}
          /\ Tarea(c, "lista", Ninguno).op = "lista"
      BY <1>1, <2>1, <3>1, TareaNueva DEF Lentas
    <3>3. UnaEspera(c)'
      BY <1>1, <2>1, <3>2 DEF UnaEspera
    <3>4. ASSUME fallos = 0 PROVE Vista(c)'
      <4>1. Vista(c) /\ Dicho(c) = Dicho(c)' \cup {r}
        BY <1>2, <3>2, <3>4 DEF Ve
      <4>2. Idas(c)' = Idas(c)
        <5>1. Borrandose(c) = r.res
          <6>1. \A x \in Dicho(c) : x.op = "eliminar" => x = r
            BY <1>1, <2>1
          <6>2. \A n : n \in Borrandose(c) <=> n \in r.res
            BY <1>1, <2>1, <6>1 DEF Borrandose
          <6>. QED
            BY <6>2
        <5>2. Borrandose(c)' \subseteq Borrandose(c)
          BY <4>1 DEF Borrandose
        <5>. QED
          BY <3>1, <5>1, <5>2 DEF Idas
      <4>3. GastadasDe(c)'
        BY <1>0, <4>1, <4>2 DEF Vista, GastadasDe
      <4>4. CreadasDe(c)'
        BY <1>0, <3>1, <4>1, <4>2 DEF Vista, CreadasDe
      <4>5. ASSUME NEW x \in Dicho(c)', x.op = "lista" PROVE FALSE
        BY <1>1, <2>1, <4>1, <4>5
      <4>6. ListaEnCamino(c)' /\ BorradoEnCamino(c)' /\ Mostrado(c)'
        <5>1. ListaEnCamino(c)'
          BY <3>1, <3>2, <4>5 DEF ListaEnCamino
        <5>2. BorradoEnCamino(c)'
          BY <3>2, <4>1 DEF Vista, BorradoEnCamino
        <5>3. Mostrado(c)'
          BY <3>2 DEF Mostrado
        <5>. QED
          BY <5>1, <5>2, <5>3
      <4>. QED
        BY <4>3, <4>4, <4>6 DEF Vista
    <3>. QED
      BY <1>0, <3>3, <3>4 DEF Ve
  <2>3. CASE r.res = {}
    <3>1. UNCHANGED <<tareas, escena>>
      BY <1>5, <2>3 DEF RecibeBorrado
    <3>2. TareasLentas(c)' = TareasLentas(c)
      BY <3>1 DEF TareasLentas
    <3>3. UnaEspera(c)'
      BY <1>1, <2>1, <3>2 DEF UnaEspera
    <3>4. fallos # 0
      BY <1>1, <2>1, <2>3 DEF Ve, Vista, BorradoEnCamino
    <3>. QED
      BY <1>0, <3>3, <3>4 DEF Ve
  <2>. QED
    BY <2>2, <2>3
<1>6. CASE Ignora(c, r)
  <2>1. r.op = "crear" /\ r.op \notin Lentas /\ UNCHANGED <<tareas, pantalla, historia>>
    BY <1>1, <1>6 DEF Ignora, Lentas
  <2>2. EnPool(c)' = EnPool(c) /\ TareasLentas(c)' = TareasLentas(c)
    BY <2>1 DEF EnPool, TareasLentas
  <2>3. UNCHANGED <<escena, lista, seleccionado, creados, borrados>>
    BY <2>1 DEF pantalla, historia
  <2>4. UnaEspera(c)'
    BY <1>0, <1>1, <2>1, <2>2, <2>3 DEF UnaEspera
  <2>5. ASSUME fallos = 0 PROVE Vista(c)'
    <3>1. Vista(c) /\ Idas(c)' = Idas(c) /\ Dicho(c)' \subseteq Dicho(c)
      BY <1>2, <2>1, <2>2, <2>3, <2>5 DEF Ve, Idas
    <3>2. GastadasDe(c)' /\ CreadasDe(c)'
      BY <1>0, <2>3, <3>1 DEF Vista, GastadasDe, CreadasDe
    <3>3. ListaEnCamino(c)' /\ BorradoEnCamino(c)'
      BY <1>0, <2>2, <2>3, <3>1 DEF Vista, ListaEnCamino, BorradoEnCamino
    <3>4. Mostrado(c)'
      BY <1>0, <1>1, <2>1, <2>2, <2>3, <3>1 DEF Vista, Mostrado
    <3>. QED
      BY <3>2, <3>3, <3>4 DEF Vista
  <2>. QED
    BY <1>0, <2>4, <2>5 DEF Ve
<1>. QED
  BY <1>3, <1>4, <1>5, <1>6 DEF RecibeR

-----------------------------------------------------------------------------
(* The invariant *)

LEMMA PasoGastadas ==
  ASSUME Tipos, Gastadas, [Next]_vars
  PROVE  Gastadas'
<1>0. /\ siguiente \in Nat /\ \A r \in personajes : r.id \in Nat /\ r.id < siguiente
  BY DEF Tipos, Gastadas
<1>1. ASSUME siguiente' = siguiente, personajes' \subseteq personajes PROVE Gastadas'
  BY <1>0, <1>1 DEF Gastadas
<1>2. ASSUME NEW f, f.id = siguiente, siguiente' = siguiente + 1,
             personajes' \subseteq personajes \cup {f}
      PROVE  Gastadas'
  <2>. SUFFICES ASSUME NEW r \in personajes' PROVE r.id < siguiente'
    BY DEF Gastadas
  <2>. QED
    BY <1>0, <1>2
<1>3. ASSUME NEW c \in Clientes, Usuario(c) \/ Recibe(c) PROVE Gastadas'
  BY <1>1, <1>3 DEF Usuario, Elige, Elimina, IrACrear, Vuelve, EntraMundo, TocaRasgo, Confirma,
     servidor, Recibe
<1>4. ASSUME NEW t \in tareas, Carga(t) \/ Borra(t) \/ Responde(t) PROVE Gastadas'
  BY <1>1, <1>4 DEF Carga, Borra, Responde
<1>5. ASSUME NEW t \in tareas, Crea(t) \/ FallaSQL(t) PROVE Gastadas'
  <2>. DEFINE f == [id |-> siguiente, jugador_id |-> t.cli, nombre |-> t.dato]
  <2>1. \/ siguiente' = siguiente /\ personajes' \subseteq personajes
        \/ siguiente' = siguiente + 1 /\ personajes' \subseteq personajes \cup {f}
    BY <1>5 DEF Crea, FallaSQL
  <2>2. f.id = siguiente
    OBVIOUS
  <2>. HIDE DEF f
  <2>. QED
    BY <1>1, <1>2, <2>1, <2>2
<1>6. CASE UNCHANGED vars
  BY <1>1, <1>6 DEF vars, servidor
<1>. QED
  BY <1>3, <1>4, <1>5, <1>6 DEF Next, Ejecuta

LEMMA PasoVe ==
  ASSUME Tipos, Cuenta, Gastadas, NEW c \in Pacientes, Ve(c), [Next]_vars
  PROVE  Ve(c)'
<1>. c \in Clientes
  BY PeticionesAssumption
<1>1. ASSUME Quieto(c), fallos' = 0 => fallos = 0 PROVE Ve(c)'
  <2>1. UnaEspera(c)'
    BY <1>1, EsperaIgual DEF Ve, Quieto
  <2>2. ASSUME fallos' = 0 PROVE Vista(c)'
    <3>1. Vista(c) /\ UNCHANGED fallos
      BY <1>1, <2>2 DEF Ve
    <3>. QED
      BY <1>1, <3>1, VistaIgual DEF Quieto
  <2>. QED
    BY <2>1, <2>2 DEF Ve
<1>2. ASSUME NEW d \in Clientes, Usuario(d) PROVE Ve(c)'
  BY <1>1, <1>2, UsuarioOtro, UsuarioPropio
<1>3. ASSUME NEW d \in Clientes, Recibe(d) PROVE Ve(c)'
  <2>1. PICK r \in Respuesta : RecibeR(d, r)
    BY <1>3, RecibeEs
  <2>. QED
    BY <1>1, <2>1, RecibeOtro, RecibePropio
<1>4. ASSUME NEW t \in tareas, Ejecuta(t) PROVE Ve(c)'
  <2>1. CASE t.cli = c
    BY <1>4, <2>1, CargaPropia, CreaPropia, BorraPropia, FallaPropia, RespondePropia DEF Ejecuta
  <2>2. CASE t.cli # c
    <3>1. fallos' = 0 => fallos = 0
      <4>1. UNCHANGED fallos \/ fallos' = fallos + 1
        BY <1>4 DEF Ejecuta, Carga, Crea, Borra, FallaSQL, Responde
      <4>. QED
        BY <4>1, Numeros
    <3>. QED
      BY <1>1, <1>4, <2>2, <3>1, EjecutaOtra
  <2>. QED
    BY <2>1, <2>2
<1>5. CASE UNCHANGED vars
  <2>1. Quieto(c) /\ UNCHANGED fallos
    BY <1>5 DEF vars, servidor, pantalla, historia, Quieto, TareasLentas, RespLentas, Dicho,
       EnPool, EnCola, IdsDe, Tipos
  <2>. QED
    BY <1>1, <2>1
<1>. QED
  BY <1>2, <1>3, <1>4, <1>5 DEF Next

LEMMA InicioVe ==
  ASSUME Init, NEW c \in Pacientes
  PROVE  Ve(c)
<1>. c \in Clientes
  BY PeticionesAssumption
<1>. DEFINE x == [cli |-> c, op |-> "lista", dato |-> Ninguno, hecho |-> FALSE, res |-> {}, n |-> 1]
<1>1. TareasLentas(c) = {x} /\ x.op = "lista" /\ x.hecho = FALSE
  BY DEF Init, TareasLentas, Lentas
<1>2. RespLentas(c) = {} /\ EnCola(c) = {}
  BY DEF Init, RespLentas, EnCola
<1>3. EnPool(c) = {}
  BY DEF Init, EnPool
<1>4. Dicho(c) = {} /\ Idas(c) = {} /\ IdsDe(c) = {} /\ creados[c] = {}
  BY <1>2, <1>3 DEF Dicho, Idas, Borrandose, IdsDe, Init
<1>5. UnaEspera(c)
  BY <1>1, <1>2 DEF UnaEspera, Init
<1>6. Vista(c)
  BY <1>1, <1>2, <1>4 DEF Vista, GastadasDe, CreadasDe, ListaEnCamino, BorradoEnCamino, Mostrado, Init
<1>. QED
  BY <1>5, <1>6 DEF Ve

\* What the requests under way mean, for every user who waits.
THEOREM PeticionesCorrectas == Spec => []IInv
<1>1. Init => IInv
  <2>1. Init => Gastadas
    BY DEF Init, Gastadas
  <2>. QED
    BY <2>1, InicioTipos, InicioVe DEF IInv, Ve
<1>2. IInv /\ [Next]_vars => IInv'
  BY PasoTipos, PasoGastadas, PasoVe DEF IInv, Ve
<1>. QED
  BY <1>1, <1>2, PTL DEF Spec

\* For users who wait for a list or a deletion before they press anything else: with
\* nothing under way, the selected character is a row of theirs, however many creations
\* cross with it.
THEOREM SeleccionSiempreViva ==
  ASSUME Pacientes = Clientes
  PROVE  Spec => []SeleccionViva
<1>1. IInv => SeleccionViva
  BY SinEspera DEF IInv, EnCalma, Vista, Mostrado, SeleccionViva
<1>. QED
  BY <1>1, PeticionesCorrectas, PTL

\* And the list has every character whose creation they were told of and none whose
\* deletion.
THEOREM ListaSiempreAlDia ==
  ASSUME Pacientes = Clientes
  PROVE  Spec => []ListaAlDia
<1>1. IInv => ListaAlDia
  <2>. SUFFICES ASSUME IInv, NEW c \in Clientes, EnCalma(c)
                PROVE  /\ creados[c] \ borrados[c] \subseteq lista[c]
                       /\ lista[c] \cap borrados[c] = {}
    BY DEF ListaAlDia
  <2>1. Vista(c) /\ TareasLentas(c) = {} /\ RespLentas(c) = {} /\ escena[c] = "seleccion"
    BY SinEspera DEF IInv, EnCalma
  <2>2. lista[c] \subseteq IdsDe(c) /\ creados[c] \ borrados[c] \subseteq lista[c]
    BY <2>1 DEF Vista, Mostrado
  <2>3. borrados[c] \cap IdsDe(c) = {}
    BY <2>1 DEF Vista, GastadasDe, Idas
  <2>. QED
    BY <2>2, <2>3
<1>. QED
  BY <1>1, PeticionesCorrectas, PTL

=============================================================================
