--------------------------- MODULE CreacionProofs ---------------------------
(***************************************************************************)
(* Proofs about the screen of traits (Rasgos), for every table of traits     *)
(* whose exclusions are mutual, and about the screen composed with its       *)
(* packets, its table and its user (Creacion), which is still that screen:   *)
(* what is proved of the first holds of the second, and the server reads     *)
(* back what the client wrote.  Suma is never expanded: that puntos is the   *)
(* sum of the chosen traits is all that is used.                             *)
(***************************************************************************)
EXTENDS Creacion, FiniteSetTheorems, TLAPS

-----------------------------------------------------------------------------
(* Rasgos *)

\* No trait excludes another of the empty set.
LEMMA VacioCompatible == Compatibles({}) /\ Bloqueados({}) = {}
  BY DEF Compatibles, Bloqueados

\* A sum over no traits is zero, so the scene opens with the button enabled.
LEMMA SumaVacia == Suma({}) = 0
  BY DEF Suma, MapThenSumSet, MapThenFoldSet

\* A trait that no chosen trait blocks can be added: exclusions are mutual.
LEMMA LibreEsCompatible ==
  ASSUME NEW s \in SUBSET Ids, Compatibles(s), NEW id \in (Ids \ s) \ Bloqueados(s)
  PROVE  Compatibles(s \cup {id})
<1>1. \A e \in s : id \notin Excluye[e]
  BY DEF Bloqueados
<1>2. \A e \in s : e \notin Excluye[id]
  BY <1>1, RasgosAssumption
<1>3. id \notin Excluye[id]
  BY RasgosAssumption
<1>. QED
  BY <1>1, <1>2, <1>3 DEF Compatibles

\* The scene opens in agreement.
LEMMA InicioIInv == Init => IInv
<1>. SUFFICES ASSUME Init PROVE IInv
  OBVIOUS
<1>1. TypeOK
  BY DEF Init, TypeOK
<1>2. CreacionValida
  BY DEF Init, CreacionValida
<1>. QED
  BY <1>1, <1>2, VacioCompatible, SumaVacia DEF Init, IInv

\* A refresh leaves the screen in agreement with the traits it is given.
LEMMA RepoblaCuadra ==
  ASSUME NEW s \in SUBSET Ids, Compatibles(s), Repobla(s)
  PROVE  /\ elegidos' \subseteq Ids /\ activables' \subseteq Ids /\ confirmar' \in BOOLEAN
         /\ Compatibles(elegidos')
         /\ puntos' = Suma(elegidos')
         /\ activables' = (Ids \ elegidos') \ Bloqueados(elegidos')
  BY DEF Repobla

\* Each element of a concatenation is one of its parts'.
LEMMA Concatenadas ==
  ASSUME NEW S, NEW a \in Seq(S), NEW b \in Seq(S)
  PROVE  /\ a \o b \in Seq(S)
         /\ \A k \in 1..Len(a \o b) :
              \/ \E m \in 1..Len(a) : (a \o b)[k] = a[m]
              \/ \E m \in 1..Len(b) : (a \o b)[k] = b[m]
<1>1. a \o b \in Seq(S) /\ Len(a \o b) = Len(a) + Len(b)
  OBVIOUS
<1>2. ASSUME NEW k \in 1..Len(a) PROVE (a \o b)[k] = a[k]
  OBVIOUS
<1>3. ASSUME NEW k \in (Len(a) + 1)..(Len(a) + Len(b))
      PROVE  k - Len(a) \in 1..Len(b) /\ (a \o b)[k] = b[k - Len(a)]
  OBVIOUS
<1>4. Len(a) \in Nat /\ Len(b) \in Nat
  OBVIOUS
<1>. QED
  <2>. SUFFICES ASSUME NEW k \in 1..Len(a \o b)
                PROVE  \/ \E m \in 1..Len(a) : (a \o b)[k] = a[m]
                       \/ \E m \in 1..Len(b) : (a \o b)[k] = b[m]
    BY <1>1
  <2>1. k \in 1..Len(a) \/ k \in (Len(a) + 1)..(Len(a) + Len(b))
    BY <1>1, <1>4
  <2>. QED
    BY <2>1, <1>2, <1>3

\* The creations still under way were valid when they were sent.
LEMMA ColaValida ==
  ASSUME IInv, NEW i \in 1..Len(enviadas), enviadas' = RemoveAt(enviadas, i)
  PROVE  enviadas' \in Seq(SUBSET Ids) /\ CreacionValida'
<1>. DEFINE antes == SubSeq(enviadas, 1, i - 1)
            despues == SubSeq(enviadas, i + 1, Len(enviadas))
<1>1. enviadas \in Seq(SUBSET Ids)
  BY DEF IInv, TypeOK
<1>2. antes \in Seq(SUBSET Ids) /\ \A k \in 1..Len(antes) :
        k \in 1..Len(enviadas) /\ antes[k] = enviadas[k]
  BY <1>1
<1>3. despues \in Seq(SUBSET Ids) /\ \A k \in 1..Len(despues) :
        k + i \in 1..Len(enviadas) /\ despues[k] = enviadas[k + i]
  BY <1>1
<1>4. enviadas' = antes \o despues
  BY DEF RemoveAt
<1>. HIDE DEF antes, despues
<1>5. \A k \in 1..Len(enviadas') : \E m \in 1..Len(enviadas) : enviadas'[k] = enviadas[m]
  <2>1. \A k \in 1..Len(antes \o despues) :
          \/ \E m \in 1..Len(antes) : (antes \o despues)[k] = antes[m]
          \/ \E m \in 1..Len(despues) : (antes \o despues)[k] = despues[m]
    BY <1>2, <1>3, Concatenadas
  <2>. QED
    BY ZenonT(40), <2>1, <1>2, <1>3, <1>4
<1>6. enviadas' \in Seq(SUBSET Ids)
  BY <1>2, <1>3, <1>4, Concatenadas
<1>. QED
  BY <1>5, <1>6 DEF IInv, CreacionValida

\* And every step leaves it so.
LEMMA PasoIInv == IInv /\ [Next]_vars => IInv'
<1>. SUFFICES ASSUME IInv, [Next]_vars PROVE IInv'
  OBVIOUS
<1>. USE DEF IInv
<1>1. ASSUME NEW id \in Ids, Elige(id) PROVE IInv'
  <2>1. Compatibles(elegidos \cup {id}) /\ elegidos \cup {id} \in SUBSET Ids
    BY <1>1, LibreEsCompatible DEF Elige, Ofrecidos, TypeOK
  <2>2. Repobla(elegidos \cup {id}) /\ enviadas' = enviadas
    BY <1>1 DEF Elige
  <2>3. CreacionValida'
    BY <2>2 DEF CreacionValida
  <2>. QED
    BY <2>1, <2>2, <2>3, RepoblaCuadra DEF TypeOK
<1>2. ASSUME NEW id \in Ids, Devuelve(id) PROVE IInv'
  <2>1. Compatibles(elegidos \ {id}) /\ elegidos \ {id} \in SUBSET Ids
    BY DEF Compatibles, TypeOK
  <2>2. Repobla(elegidos \ {id}) /\ enviadas' = enviadas
    BY <1>2 DEF Devuelve
  <2>3. CreacionValida'
    BY <2>2 DEF CreacionValida
  <2>. QED
    BY <2>1, <2>2, <2>3, RepoblaCuadra DEF TypeOK
<1>3. CASE Confirma
  <2>1. /\ enviadas' = Append(enviadas, elegidos) /\ confirmar' = FALSE
        /\ UNCHANGED <<elegidos, activables, puntos>>
    BY <1>3 DEF Confirma
  <2>2. Compatibles(elegidos) /\ Suma(elegidos) >= 0
    BY <1>3 DEF Confirma, Alcanza
  <2>3. TypeOK'
    <3>1. enviadas \in Seq(SUBSET Ids) /\ elegidos \in SUBSET Ids
      BY DEF TypeOK
    <3>2. Append(enviadas, elegidos) \in Seq(SUBSET Ids)
      BY <3>1
    <3>. QED
      BY <2>1, <3>2 DEF TypeOK
  <2>4. CreacionValida'
    <3>1. /\ Len(enviadas') = Len(enviadas) + 1
          /\ enviadas'[Len(enviadas) + 1] = elegidos
          /\ \A i \in 1..Len(enviadas) : enviadas'[i] = enviadas[i]
      BY <2>1 DEF TypeOK
    <3>2. Len(enviadas) \in Nat
      BY DEF TypeOK
    <3>. QED
      BY <3>1, <3>2, <2>2 DEF CreacionValida
  <2>. QED
    BY <2>1, <2>3, <2>4
<1>4. ASSUME NEW i \in 1..Len(enviadas), Rechaza(i) PROVE IInv'
  <2>1. CreacionValida' /\ enviadas' \in Seq(SUBSET Ids)
    BY <1>4, ColaValida DEF Rechaza
  <2>. QED
    BY <1>4, <2>1 DEF Rechaza, TypeOK
<1>5. ASSUME NEW i \in 1..Len(enviadas), Acepta(i) PROVE IInv'
  <2>1. CreacionValida' /\ enviadas' \in Seq(SUBSET Ids)
    BY <1>5, ColaValida DEF Acepta
  <2>. QED
    BY <1>5, <2>1, VacioCompatible, RepoblaCuadra DEF Acepta, TypeOK
<1>6. CASE Vuelve
  <2>1. CreacionValida'
    BY <1>6 DEF Vuelve, CreacionValida
  <2>. QED
    BY <1>6, <2>1, VacioCompatible, RepoblaCuadra DEF Vuelve, TypeOK
<1>7. CASE UNCHANGED vars
  BY <1>7 DEF vars, TypeOK, CreacionValida
<1>. QED
  BY <1>1, <1>2, <1>3, <1>4, <1>5, <1>6, <1>7 DEF Next

\* The screen always agrees with the chosen traits.
THEOREM PantallaCorrecta == Spec => []IInv
  BY InicioIInv, PasoIInv, PTL DEF Spec

\* Whatever the table, no creation with exclusive traits or with a negative sum is
\* ever asked of the server.
THEOREM CreacionesValidas == Spec => []CreacionValida
<1>1. IInv => CreacionValida
  BY DEF IInv
<1>. QED
  BY <1>1, PantallaCorrecta, PTL

-----------------------------------------------------------------------------
(* Creacion *)

\* No step of the composed system moves a trait, enables the button or sends a creation
\* in a way the screen alone would not.
LEMMA PasoEsRasgos == [NextCreacion]_creacionVars => [Next]_vars
<1>. SUFFICES ASSUME [NextCreacion]_creacionVars PROVE [Next]_vars
  OBVIOUS
<1>1. CASE MueveRasgo
  BY <1>1 DEF MueveRasgo, Next
<1>2. CASE ActualizarDatos
  BY <1>2 DEF ActualizarDatos
<1>3. CASE Pulsa
  BY <1>3 DEF Pulsa, Next
<1>4. CASE VuelveSinCrear
  BY <1>4 DEF VuelveSinCrear, Next
<1>5. ASSUME NEW i \in 1..Len(enviadas), Crea(i) PROVE Next
  BY <1>5 DEF Crea, Next
<1>6. CASE UNCHANGED creacionVars
  BY <1>6 DEF creacionVars
<1>. QED
  BY <1>1, <1>2, <1>3, <1>4, <1>5, <1>6 DEF NextCreacion

\* The composed system implements the specification of the screen.
THEOREM CreacionEsRasgos == SpecCreacion => Spec
<1>1. InitCreacion => Init
  BY DEF InitCreacion
<1>. QED
  BY <1>1, PasoEsRasgos, PTL DEF SpecCreacion, Spec

\* Whatever the table, the user and the answers of the server, no creation with
\* exclusive traits or with a negative sum is ever sent.
THEOREM CreacionesEnviadasValidas == SpecCreacion => []CreacionValida
  BY CreacionEsRasgos, CreacionesValidas, PTL
-----------------------------------------------------------------------------
(* From the screen to the table *)

\* The names of what the client writes.
Campos == {c.nombre : c \in Range(EscritosCrear)}

\* A sequence of n values, whatever they are.
EsVector(f, n) == n \in Nat /\ f = [k \in 1..n |-> f[k]]

\* Its length and its domain.
LEMMA VectorLargo ==
  ASSUME NEW n, NEW f, EsVector(f, n)
  PROVE  n \in Nat /\ Len(f) = n /\ DOMAIN f = 1..n /\ f \in Seq(Range(f))
<1>1. DOMAIN f = 1..n /\ \A k \in 1..n : f[k] \in Range(f)
  BY DEF Range, EsVector
<1>2. n \in Nat /\ f \in [1..n -> Range(f)]
  BY <1>1 DEF EsVector
<1>. QED
  BY <1>1, <1>2

\* Every sequence is one.
LEMMA VectorDe ==
  ASSUME NEW S, NEW s \in Seq(S)
  PROVE  EsVector(s, Len(s))
  BY DEF EsVector

\* c is a, of n values, and then b, of m.
EsJunta(c, a, n, b, m) ==
  /\ EsVector(c, n + m)
  /\ \A k \in 1..n : c[k] = a[k]
  /\ \A k \in 1..m : c[n + k] = b[k]

\* Two sequences one after the other.
LEMMA VectorJunto ==
  ASSUME NEW n, NEW a, EsVector(a, n), NEW m, NEW b, EsVector(b, m)
  PROVE  EsJunta(a \o b, a, n, b, m)
<1>. DEFINE S == Range(a) \cup Range(b)
<1>1. a \in Seq(S) /\ b \in Seq(S) /\ Len(a) = n /\ Len(b) = m /\ n \in Nat /\ m \in Nat
  BY VectorLargo
<1>. HIDE DEF S
<1>2. a \o b \in Seq(S) /\ Len(a \o b) = n + m
  BY <1>1
<1>3. \A k \in 1..n : (a \o b)[k] = a[k]
  BY <1>1
<1>4. \A k \in 1..m : (a \o b)[n + k] = b[k]
  BY <1>1
<1>. QED
  BY <1>2, <1>3, <1>4, VectorDe DEF EsJunta

\* c is a, of n values, and then x.
EsMas(c, a, n, x) ==
  /\ EsVector(c, n + 1)
  /\ \A k \in 1..n : c[k] = a[k]
  /\ c[n + 1] = x

\* Append.
LEMMA VectorMas ==
  ASSUME NEW n, NEW a, EsVector(a, n), NEW x
  PROVE  EsMas(Append(a, x), a, n, x)
<1>. DEFINE S == Range(a) \cup {x}
<1>1. a \in Seq(S) /\ Len(a) = n /\ n \in Nat /\ x \in S
  BY VectorLargo
<1>. HIDE DEF S
<1>2. Append(a, x) \in Seq(S) /\ Len(Append(a, x)) = n + 1
  BY <1>1
<1>3. \A k \in 1..n : Append(a, x)[k] = a[k]
  BY <1>1
<1>4. Append(a, x)[n + 1] = x
  BY <1>1
<1>. QED
  BY <1>2, <1>3, <1>4, VectorDe DEF EsMas

\* The two ends agree on the order and the type of every field.
LEMMA MismosCampos == EscritosCrear = LeidosCrear /\ EsVector(LeidosCrear, 10)
<1>. DEFINE S == {Campo("nombre", "s"), Campo("genero", "i"), Campo("cuerpo", "i"),
                  Campo("pelo", "i"), Campo("forma_ojos", "i"), Campo("altura", "f"),
                  Campo("musculatura", "f"), Campo("edad", "f"), Campo("color_piel", "s"),
                  Campo("color_ojos", "s")}
<1>1. /\ Campo("nombre", "s") \in S /\ Campo("genero", "i") \in S /\ Campo("cuerpo", "i") \in S
      /\ Campo("pelo", "i") \in S /\ Campo("forma_ojos", "i") \in S
      /\ Campo("altura", "f") \in S /\ Campo("musculatura", "f") \in S
      /\ Campo("edad", "f") \in S /\ Campo("color_piel", "s") \in S
      /\ Campo("color_ojos", "s") \in S
  OBVIOUS
<1>. HIDE DEF S
<1>2. LeidosCrear \in Seq(S) /\ EscritosCrear \in Seq(S)
  BY <1>1 DEF LeidosCrear, EscritosCrear, Aspecto
<1>3. Len(LeidosCrear) = 10 /\ Len(EscritosCrear) = 10
  BY DEF LeidosCrear, EscritosCrear, Aspecto
<1>4. /\ EscritosCrear[1] = LeidosCrear[1] /\ EscritosCrear[2] = LeidosCrear[2]
      /\ EscritosCrear[3] = LeidosCrear[3] /\ EscritosCrear[4] = LeidosCrear[4]
      /\ EscritosCrear[5] = LeidosCrear[5]
  BY DEF LeidosCrear, EscritosCrear, Aspecto
<1>5. /\ EscritosCrear[6] = LeidosCrear[6] /\ EscritosCrear[7] = LeidosCrear[7]
      /\ EscritosCrear[8] = LeidosCrear[8] /\ EscritosCrear[9] = LeidosCrear[9]
      /\ EscritosCrear[10] = LeidosCrear[10]
  BY DEF LeidosCrear, EscritosCrear, Aspecto
<1>6. EsVector(LeidosCrear, 10) /\ EsVector(EscritosCrear, 10)
  BY <1>2, <1>3, VectorDe
<1>7. \A k \in 1..10 : EscritosCrear[k] = LeidosCrear[k]
  BY <1>4, <1>5
<1>. QED
  BY <1>6, <1>7 DEF EsVector

\* A finite set is written in some order, each element once.
LEMMA OrdenDe ==
  ASSUME NEW s, IsFiniteSet(s)
  PROVE  EsVector(SetToSeq(s), Len(SetToSeq(s))) /\ Range(SetToSeq(s)) = s
<1>. DEFINE n == Cardinality(s)
            o == SetToSeq(s)
<1>1. n \in Nat /\ ExistsBijection(1..n, s) /\ IsFiniteSet(1..n) /\ Cardinality(1..n) = n
  BY FS_CardinalityType, FS_Interval
<1>2. \E f \in [1..n -> s] : IsInjective(f)
  BY <1>1 DEF ExistsBijection, Bijection, Injection, IsInjective
<1>3. o \in [1..n -> s] /\ IsInjective(o)
  BY <1>2 DEF SetToSeq
<1>4. o \in Injection(1..n, s)
  BY <1>3 DEF Injection, IsInjective
<1>5. o \in Surjection(1..n, s)
  BY <1>1, <1>4, FS_Injection
<1>. HIDE DEF o, n
<1>6. Range(o) = s
  BY <1>3, <1>5 DEF Range, Surjection
<1>7. o \in Seq(s)
  BY <1>1, <1>3
<1>. QED
  BY <1>6, <1>7, VectorDe DEF o



\* The bytes of a creation: ten fields, a count and the strings o.
EsPaquete(b, d, o, m) ==
  /\ EsVector(b, 11 + m)
  /\ \A k \in 1..10 : b[k].tipo = LeidosCrear[k].tipo /\ b[k].valor = d[LeidosCrear[k].nombre]
  /\ b[11].tipo = "i" /\ b[11].valor = m
  /\ \A k \in 1..m : b[11 + k].tipo = "s" /\ b[11 + k].valor = o[k]

\* What the client writes.
LEMMA LoQueEscribe ==
  ASSUME NEW d, NEW s, IsFiniteSet(s)
  PROVE  EsPaquete(EscribeCreacion(d, s), d, SetToSeq(s), Len(SetToSeq(s)))
<1>. DEFINE o == SetToSeq(s)
            m == Len(o)
            e == Escribe(EscritosCrear, d)
            c1 == <<[tipo |-> "i", valor |-> m]>>
            c2 == [k \in DOMAIN o |-> [tipo |-> "s", valor |-> o[k]]]
            c == c1 \o c2
<1>1. m \in Nat /\ DOMAIN o = 1..m
  BY OrdenDe, VectorLargo
<1>2. EsVector(e, 10) /\ \A k \in 1..10 :
        e[k].tipo = LeidosCrear[k].tipo /\ e[k].valor = d[LeidosCrear[k].nombre]
  BY MismosCampos, VectorLargo DEF Escribe, EsVector
<1>3. EsVector(c1, 1) /\ c1[1].tipo = "i" /\ c1[1].valor = m
  BY DEF EsVector
<1>4. EsVector(c2, m) /\ \A k \in 1..m : c2[k].tipo = "s" /\ c2[k].valor = o[k]
  BY <1>1 DEF EsVector
<1>5. EscribeCreacion(d, s) = e \o c
  BY DEF EscribeCreacion, EscribeConjunto
<1>. HIDE DEF o, m, e, c1, c2
<1>6. EsJunta(c, c1, 1, c2, m) /\ EsVector(c, 1 + m)
  <2>1. EsJunta(c, c1, 1, c2, m)
    BY <1>3, <1>4, VectorJunto
  <2>. QED
    BY <2>1 DEF EsJunta
<1>. DEFINE b == e \o c
<1>. HIDE DEF c
<1>7. EsJunta(b, e, 10, c, 1 + m)
  BY <1>2, <1>6, VectorJunto
<1>. HIDE DEF b
<1>8. EsVector(b, 11 + m) /\ \A k \in 1..10 : b[k] = e[k]
  <2>1. 10 + (1 + m) = 11 + m
    BY <1>1
  <2>. QED
    BY <1>7, <2>1 DEF EsJunta
<1>9. b[11] = c1[1]
  <2>1. 1 \in 1..1 /\ 1 \in 1..(1 + m) /\ 10 + 1 = 11
    BY <1>1
  <2>2. c[1] = c1[1]
    BY <1>6, <2>1 DEF EsJunta
  <2>3. b[10 + 1] = c[1]
    BY <1>7, <2>1 DEF EsJunta
  <2>. QED
    BY <2>1, <2>2, <2>3
<1>10. ASSUME NEW k \in 1..m PROVE b[11 + k] = c2[k]
  <2>1. 1 + k \in 1..(1 + m) /\ 10 + (1 + k) = 11 + k
    BY <1>1
  <2>2. c[1 + k] = c2[k]
    BY <1>6 DEF EsJunta
  <2>3. b[10 + (1 + k)] = c[1 + k]
    BY <1>7, <2>1 DEF EsJunta
  <2>. QED
    BY <2>1, <2>2, <2>3
<1>11. EsPaquete(b, d, o, m)
  <2>1. \A k \in 1..10 : b[k].tipo = LeidosCrear[k].tipo /\ b[k].valor = d[LeidosCrear[k].nombre]
    BY <1>2, <1>8
  <2>2. b[11].tipo = "i" /\ b[11].valor = m
    BY <1>3, <1>9
  <2>3. \A k \in 1..m : b[11 + k].tipo = "s" /\ b[11 + k].valor = o[k]
    BY <1>4, <1>10
  <2>. QED
    BY <1>8, <2>1, <2>2, <2>3 DEF EsPaquete
<1>. QED
  BY <1>5, <1>11 DEF o, m, b, c

\* r are the values of the first n fields of b.
EsLectura(r, b, n) == EsVector(r, n) /\ \A k \in 1..n : r[k] = b[k].valor

\* Reading the types that were written gives the values that were written.
LEMMA LeeTodo ==
  ASSUME NEW n, NEW t, EsVector(t, n), NEW l, NEW b, EsVector(b, l), n <= l,
         \A k \in 1..n : b[k].tipo = t[k]
  PROVE  EsLectura(Lee(t, b), b, n)
<1>1. n \in Nat /\ l \in Nat /\ DOMAIN t = 1..n /\ Len(b) = l
  BY VectorLargo
<1>2. \A k \in 1..n : \A j \in 1..k : j \in 1..n /\ j <= Len(b)
  BY <1>1
<1>3. Lee(t, b) = [k \in 1..n |-> b[k].valor]
  BY <1>1, <1>2 DEF Lee
<1>. QED
  BY <1>1, <1>3 DEF EsVector, EsLectura

\* What the server reads is what the client wrote: the screen, whatever is on it.
LEMMA LeeLoEscrito ==
  ASSUME NEW d, d = [n \in Campos |-> d[n]], NEW s, IsFiniteSet(s)
  PROVE  LeeCreacion(EscribeCreacion(d, s)) = [datos |-> d, rasgos |-> s]
<1>. DEFINE o == SetToSeq(s)
            m == Len(o)
            b == EscribeCreacion(d, s)
            u == Tipos(LeidosCrear)
            fijos == Append(u, "i")
            t == fijos \o Cadenas(m)
            r == Lee(t, b)
            q == SubSeq(r, 12, Len(r))
<1>1. EsPaquete(b, d, o, m)
  BY LoQueEscribe
<1>2. EsVector(o, m) /\ Range(o) = s /\ m \in Nat /\ DOMAIN o = 1..m
  BY OrdenDe, VectorLargo
<1>3. DOMAIN LeidosCrear = 1..10 /\ Len(LeidosCrear) = 10 /\ EscritosCrear = LeidosCrear
  BY MismosCampos, VectorLargo
<1>4. EsVector(u, 10) /\ \A k \in 1..10 : u[k] = LeidosCrear[k].tipo
  BY <1>3 DEF Tipos, EsVector
<1>5. EsVector(Cadenas(m), m) /\ \A k \in 1..m : Cadenas(m)[k] = "s"
  BY <1>2 DEF Cadenas, EsVector
<1>. HIDE DEF o, m, b, u
<1>6. EsVector(fijos, 11) /\ fijos[11] = "i" /\ \A k \in 1..10 : fijos[k] = u[k]
  <2>1. EsMas(fijos, u, 10, "i")
    BY <1>4, VectorMas
  <2>2. 10 + 1 = 11
    OBVIOUS
  <2>. QED
    BY <2>1, <2>2 DEF EsMas
<1>7. fijos[11] = "i"
  BY <1>6
<1>. HIDE DEF fijos
<1>8. EsJunta(t, fijos, 11, Cadenas(m), m)
  BY <1>5, <1>6, VectorJunto
<1>. HIDE DEF t
<1>9. /\ EsVector(t, 11 + m)
      /\ \A k \in 1..10 : t[k] = LeidosCrear[k].tipo
      /\ t[11] = "i" /\ \A k \in 1..m : t[11 + k] = "s"
  <2>1. \A k \in 1..11 : t[k] = fijos[k]
    BY <1>8 DEF EsJunta
  <2>2. \A k \in 1..10 : k \in 1..11
    OBVIOUS
  <2>3. \A k \in 1..10 : t[k] = LeidosCrear[k].tipo
    BY <1>4, <1>6, <2>1, <2>2
  <2>4. t[11] = "i"
    BY <1>7, <2>1
  <2>. QED
    BY <1>5, <1>8, <2>3, <2>4 DEF EsJunta
<1>10. ASSUME NEW k \in 1..(11 + m) PROVE b[k].tipo = t[k]
  <2>1. CASE k \in 1..10
    BY <1>1, <1>9, <2>1 DEF EsPaquete
  <2>2. CASE k = 11
    BY <1>1, <1>9, <2>2 DEF EsPaquete
  <2>3. CASE k \in 12..(11 + m)
    <3>1. PICK j \in 1..m : k = 11 + j
      <4>1. k - 11 \in 1..m /\ k = 11 + (k - 11)
        BY <1>2, <2>3
      <4>. QED
        BY <4>1
    <3>. QED
      BY <1>1, <1>9, <3>1 DEF EsPaquete
  <2>4. k \in 1..10 \/ k = 11 \/ k \in 12..(11 + m)
    BY <1>2
  <2>. QED
    BY <2>1, <2>2, <2>3, <2>4
<1>11. EsVector(b, 11 + m)
  BY <1>1 DEF EsPaquete
<1>12. Lee(fijos, b)[11] = m
  <2>1. \A k \in 1..11 : k \in 1..(11 + m) /\ t[k] = fijos[k]
    BY <1>2, <1>8 DEF EsJunta
  <2>2. \A k \in 1..11 : b[k].tipo = fijos[k]
    BY <1>10, <2>1
  <2>3. 11 <= 11 + m /\ 11 \in 1..11
    BY <1>2
  <2>4. EsLectura(Lee(fijos, b), b, 11)
    BY <1>6, <1>11, <2>2, <2>3, LeeTodo
  <2>. QED
    BY <1>1, <2>3, <2>4 DEF EsPaquete, EsLectura
<1>13. EsVector(r, 11 + m) /\ \A k \in 1..(11 + m) : r[k] = b[k].valor
  <2>1. 11 + m <= 11 + m
    BY <1>2
  <2>2. EsLectura(r, b, 11 + m)
    BY <1>9, <1>10, <1>11, <2>1, LeeTodo
  <2>. QED
    BY <2>2 DEF EsLectura
<1>. HIDE DEF r
<1>14. ASSUME NEW k \in 1..10 PROVE r[k] = d[LeidosCrear[k].nombre]
  <2>1. k \in 1..(11 + m)
    BY <1>2
  <2>. QED
    BY <1>1, <1>13, <2>1 DEF EsPaquete
<1>15. ASSUME NEW k \in 1..m PROVE r[11 + k] = o[k]
  <2>1. 11 + k \in 1..(11 + m)
    BY <1>2
  <2>. QED
    BY <1>1, <1>13, <2>1 DEF EsPaquete
<1>16. Range(q) = s
  <2>1. r \in Seq(Range(r)) /\ Len(r) = 11 + m
    BY <1>13, VectorLargo
  <2>2. q \in Seq(Range(r)) /\ Len(q) = m
    BY <1>2, <2>1
  <2>3. ASSUME NEW k \in 1..m PROVE q[k] = r[11 + k]
    <3>1. 12 \in Int /\ 11 + m \in Int /\ k \in 1..((11 + m) - 12 + 1) /\ 12 + k - 1 = 11 + k
      BY <1>2
    <3>. QED
      BY <2>1, <3>1
  <2>. HIDE DEF q
  <2>4. DOMAIN q = 1..m
    BY <2>2
  <2>5. \A k \in 1..m : q[k] = o[k]
    BY <1>15, <2>3
  <2>. QED
    BY <1>2, <2>4, <2>5 DEF Range
<1>17. PorNombre(LeidosCrear, r, 0) = d
  <2>1. Campos = {c.nombre : c \in Range(LeidosCrear)}
    BY <1>3 DEF Campos
  <2>2. ASSUME NEW n \in Campos
        PROVE  r[0 + (CHOOSE k \in DOMAIN LeidosCrear : LeidosCrear[k].nombre = n)] = d[n]
    <3>. DEFINE k == CHOOSE k \in DOMAIN LeidosCrear : LeidosCrear[k].nombre = n
    <3>1. \E k1 \in DOMAIN LeidosCrear : LeidosCrear[k1].nombre = n
      BY <2>1 DEF Range
    <3>2. k \in 1..10 /\ LeidosCrear[k].nombre = n
      BY <1>3, <3>1
    <3>. HIDE DEF k
    <3>3. r[k] = d[n] /\ 0 + k = k
      BY <1>14, <3>2
    <3>. QED
      BY <3>3 DEF k
  <2>. QED
    BY <2>1, <2>2 DEF PorNombre
<1>. QED
  BY <1>3, <1>12, <1>16, <1>17 DEF LeeCreacion, q, r, t, fijos, u, b

\* What crearPersonaje adds to the row changes nothing of what was sent.
LEMMA LaFila ==
  ASSUME NEW d, d = [n \in Campos |-> d[n]], NEW s
  PROVE  /\ \A n \in Campos : Fila([datos |-> d, rasgos |-> s]).datos[n] = d[n]
         /\ Fila([datos |-> d, rasgos |-> s]).rasgos = s
<1>1. DOMAIN d = Campos
  OBVIOUS
<1>. QED
  BY <1>1 DEF Fila

\* The screen opens with those fields.
LEMMA CamposDatos == DatosIniciales = [n \in Campos |-> DatosIniciales[n]]
  BY DEF DatosIniciales, Campos

\* Each creation under way carries what was on the screen when it was confirmed.
EnCamino ==
  /\ EsVector(paquetes, Len(enviadas))
  /\ \A i \in 1..Len(enviadas) :
       LET p == paquetes[i].pantalla IN
       /\ p.datos = [n \in Campos |-> p.datos[n]]
       /\ p.rasgos = enviadas[i]
       /\ paquetes[i].bytes = EscribeCreacion(p.datos, p.rasgos)

\* And each row was one of them.
Guardadas ==
  /\ EsVector(filas, Len(filas)) /\ EsVector(pedidas, Len(filas))
  /\ GuardadoLoElegido

IInvCreacion ==
  /\ IInv
  /\ datos = [n \in Campos |-> datos[n]]
  /\ EnCamino
  /\ Guardadas

\* c is a, of n values, without the i-th.
EsQuita(c, a, n, i) ==
  /\ EsVector(c, n - 1)
  /\ \A k \in 1..(n - 1) : c[k] = a[IF k < i THEN k ELSE k + 1]

\* RemoveAt.
LEMMA VectorQuita ==
  ASSUME NEW n, NEW a, EsVector(a, n), NEW i \in 1..n
  PROVE  EsQuita(RemoveAt(a, i), a, n, i)
<1>. DEFINE x == SubSeq(a, 1, i - 1)
            y == SubSeq(a, i + 1, n)
            S == Range(a)
<1>1. a \in Seq(S) /\ Len(a) = n /\ n \in Nat
  BY VectorLargo
<1>2. RemoveAt(a, i) = x \o y
  BY <1>1 DEF RemoveAt
<1>. HIDE DEF S
<1>3. x \in Seq(S) /\ Len(x) = i - 1 /\ \A k \in 1..(i - 1) : x[k] = a[k]
  BY <1>1
<1>4. y \in Seq(S) /\ Len(y) = n - i
  BY <1>1
<1>5. ASSUME NEW k \in 1..(n - i) PROVE y[k] = a[i + k]
  <2>1. i + 1 \in Int /\ n \in Int /\ k \in 1..(n - (i + 1) + 1) /\ (i + 1) + k - 1 = i + k
    BY <1>1
  <2>. QED
    BY <1>1, <2>1
<1>6. EsVector(x, i - 1) /\ EsVector(y, n - i)
  BY <1>3, <1>4, VectorDe
<1>. HIDE DEF x, y
<1>7. EsJunta(x \o y, x, i - 1, y, n - i)
  BY <1>6, VectorJunto
<1>8. EsVector(x \o y, n - 1)
  <2>1. (i - 1) + (n - i) = n - 1
    BY <1>1
  <2>. QED
    BY <1>7, <2>1 DEF EsJunta
<1>9. ASSUME NEW k \in 1..(n - 1)
      PROVE  (x \o y)[k] = a[IF k < i THEN k ELSE k + 1]
  <2>1. CASE k < i
    <3>1. k \in 1..(i - 1)
      BY <1>1, <2>1
    <3>. QED
      BY <1>3, <1>7, <2>1, <3>1 DEF EsJunta
  <2>2. CASE ~(k < i)
    <3>. DEFINE j == k - (i - 1)
    <3>1. j \in 1..(n - i) /\ (i - 1) + j = k /\ i + j = k + 1
      BY <1>1, <2>2
    <3>. HIDE DEF j
    <3>2. (x \o y)[(i - 1) + j] = y[j]
      BY <1>7, <3>1 DEF EsJunta
    <3>. QED
      BY <1>5, <2>2, <3>1, <3>2
  <2>. QED
    BY <2>1, <2>2
<1>. QED
  BY <1>2, <1>8, <1>9 DEF EsQuita

\* While nothing is sent, answered or stored, only the screen matters.
LEMMA NadaSale ==
  ASSUME UNCHANGED <<enviadas, paquetes, filas, pedidas>>
  PROVE  /\ EnCamino => EnCamino'
         /\ Guardadas => Guardadas'
  BY DEF EnCamino, Guardadas, GuardadoLoElegido

\* A creation is sent with what is on the screen.
LEMMA PulsaEnCamino ==
  ASSUME IInvCreacion, Pulsa
  PROVE  EnCamino'
<1>. DEFINE l == Len(enviadas)
            p == [datos |-> datos, rasgos |-> elegidos]
            x == [bytes |-> EscribeCreacion(datos, elegidos), pantalla |-> p]
<1>1. EsVector(enviadas, l) /\ EsVector(paquetes, l)
  BY VectorDe DEF IInvCreacion, IInv, TypeOK, EnCamino
<1>2. enviadas' = Append(enviadas, elegidos) /\ paquetes' = Append(paquetes, x)
  BY DEF Pulsa, Confirma
<1>3. EsMas(enviadas', enviadas, l, elegidos) /\ EsMas(paquetes', paquetes, l, x)
  BY <1>1, <1>2, VectorMas
<1>. HIDE DEF l, x
<1>4. l \in Nat /\ EsVector(enviadas', l + 1) /\ EsVector(paquetes', l + 1)
  BY <1>1, <1>3 DEF EsMas, EsVector
<1>5. Len(enviadas') = l + 1
  BY <1>4, VectorLargo
<1>6. ASSUME NEW i \in 1..(l + 1)
      PROVE  /\ paquetes'[i].pantalla.datos = [n \in Campos |-> paquetes'[i].pantalla.datos[n]]
             /\ paquetes'[i].pantalla.rasgos = enviadas'[i]
             /\ paquetes'[i].bytes = EscribeCreacion(paquetes'[i].pantalla.datos,
                                                     paquetes'[i].pantalla.rasgos)
  <2>1. CASE i \in 1..l
    <3>1. paquetes'[i] = paquetes[i] /\ enviadas'[i] = enviadas[i]
      BY <1>3, <2>1 DEF EsMas
    <3>. QED
      BY <2>1, <3>1 DEF IInvCreacion, EnCamino, l
  <2>2. CASE i = l + 1
    <3>1. paquetes'[i] = x /\ enviadas'[i] = elegidos
      BY <1>3, <2>2 DEF EsMas
    <3>2. /\ x.pantalla.datos = datos /\ x.pantalla.rasgos = elegidos
          /\ x.bytes = EscribeCreacion(datos, elegidos)
      BY DEF x
    <3>. QED
      BY <3>1, <3>2 DEF IInvCreacion
  <2>. QED
    BY <1>4, <2>1, <2>2
<1>. QED
  BY <1>4, <1>5, <1>6 DEF EnCamino

\* An answered creation leaves the others as they were.
LEMMA CreaEnCamino ==
  ASSUME IInvCreacion, NEW i \in 1..Len(enviadas), Crea(i)
  PROVE  EnCamino'
<1>. DEFINE l == Len(enviadas)
            de(k) == IF k < i THEN k ELSE k + 1
<1>1. EsVector(enviadas, l) /\ EsVector(paquetes, l) /\ l \in Nat
  BY VectorDe DEF IInvCreacion, IInv, TypeOK, EnCamino
<1>2. enviadas' = RemoveAt(enviadas, i) /\ paquetes' = RemoveAt(paquetes, i)
  BY DEF Crea, Acepta, Rechaza
<1>3. EsQuita(enviadas', enviadas, l, i) /\ EsQuita(paquetes', paquetes, l, i)
  BY <1>1, <1>2, VectorQuita
<1>4. EsVector(enviadas', l - 1) /\ EsVector(paquetes', l - 1)
  BY <1>3 DEF EsQuita
<1>5. Len(enviadas') = l - 1
  BY <1>4, VectorLargo
<1>6. ASSUME NEW k \in 1..(l - 1)
      PROVE  /\ paquetes'[k].pantalla.datos = [n \in Campos |-> paquetes'[k].pantalla.datos[n]]
             /\ paquetes'[k].pantalla.rasgos = enviadas'[k]
             /\ paquetes'[k].bytes = EscribeCreacion(paquetes'[k].pantalla.datos,
                                                     paquetes'[k].pantalla.rasgos)
  <2>1. de(k) \in 1..l
    BY <1>1
  <2>2. paquetes'[k] = paquetes[de(k)] /\ enviadas'[k] = enviadas[de(k)]
    BY <1>3 DEF EsQuita
  <2>. QED
    BY <2>1, <2>2 DEF IInvCreacion, EnCamino
<1>. QED
  BY <1>4, <1>5, <1>6 DEF EnCamino

\* What is stored is what that creation carried.
LEMMA GuardaGuardadas ==
  ASSUME IInvCreacion, NEW i \in 1..Len(enviadas), Guarda(i)
  PROVE  Guardadas'
<1>. DEFINE p == paquetes[i].pantalla
            leido == LeeCreacion(paquetes[i].bytes)
            f == Fila(leido)
            l == Len(filas)
<1>1. /\ p.datos = [n \in Campos |-> p.datos[n]] /\ p.rasgos = enviadas[i]
      /\ paquetes[i].bytes = EscribeCreacion(p.datos, p.rasgos)
  BY DEF IInvCreacion, EnCamino
<1>2. /\ p.rasgos \subseteq Ids /\ Compatibles(p.rasgos) /\ Suma(p.rasgos) >= 0
  <2>1. enviadas[i] \in SUBSET Ids
    BY DEF IInvCreacion, IInv, TypeOK
  <2>. QED
    BY <1>1, <2>1 DEF IInvCreacion, IInv, CreacionValida
<1>3. IsFiniteSet(p.rasgos)
  BY <1>2, RasgosAssumption, FS_Subset
<1>4. leido = [datos |-> p.datos, rasgos |-> p.rasgos]
  BY <1>1, <1>3, LeeLoEscrito
<1>5. f.rasgos = p.rasgos /\ \A n \in Campos : f.datos[n] = p.datos[n]
  BY <1>1, <1>4, LaFila
<1>6. filas' = Append(filas, f) /\ pedidas' = Append(pedidas, p)
  BY DEF Guarda
<1>7. EsVector(filas, l) /\ EsVector(pedidas, l)
  BY DEF IInvCreacion, Guardadas
<1>8. DOMAIN p.datos = Campos
  BY <1>1
<1>. HIDE DEF p, f, leido, l
<1>9. EsMas(filas', filas, l, f) /\ EsMas(pedidas', pedidas, l, p)
  BY <1>6, <1>7, VectorMas
<1>10. EsVector(filas', l + 1) /\ EsVector(pedidas', l + 1) /\ l \in Nat
  BY <1>7, <1>9 DEF EsMas, EsVector
<1>11. Len(filas') = l + 1 /\ DOMAIN filas' = 1..(l + 1) /\ DOMAIN filas = 1..l
  BY <1>7, <1>10, VectorLargo
<1>12. ASSUME NEW k \in 1..(l + 1)
       PROVE  /\ \A n \in DOMAIN pedidas'[k].datos : filas'[k].datos[n] = pedidas'[k].datos[n]
              /\ filas'[k].rasgos = pedidas'[k].rasgos
              /\ Compatibles(filas'[k].rasgos) /\ Suma(filas'[k].rasgos) >= 0
  <2>1. CASE k \in 1..l
    <3>1. filas'[k] = filas[k] /\ pedidas'[k] = pedidas[k]
      BY <1>9, <2>1 DEF EsMas
    <3>. QED
      BY <1>11, <2>1, <3>1 DEF IInvCreacion, Guardadas, GuardadoLoElegido
  <2>2. CASE k = l + 1
    <3>1. filas'[k] = f /\ pedidas'[k] = p
      BY <1>9, <2>2 DEF EsMas
    <3>. QED
      BY <1>2, <1>5, <1>8, <3>1
  <2>. QED
    BY <1>10, <2>1, <2>2
<1>13. GuardadoLoElegido'
  BY <1>11, <1>12 DEF GuardadoLoElegido
<1>. QED
  BY <1>10, <1>11, <1>13 DEF Guardadas

\* Every step of the composed system preserves its invariant.
LEMMA PasoCreacion == IInvCreacion /\ [NextCreacion]_creacionVars => IInvCreacion'
<1>. SUFFICES ASSUME IInvCreacion, [NextCreacion]_creacionVars PROVE IInvCreacion'
  OBVIOUS
<1>1. IInv'
  BY PasoEsRasgos, PasoIInv DEF IInvCreacion
<1>2. IInv /\ datos = [n \in Campos |-> datos[n]] /\ EnCamino /\ Guardadas
  BY DEF IInvCreacion
<1>3. \A d : d = [n \in Campos |-> d[n]] =>
        \A n1, v : [d EXCEPT ![n1] = v] = [n \in Campos |-> [d EXCEPT ![n1] = v][n]]
  OBVIOUS
<1>4. CASE MueveRasgo
  BY <1>1, <1>2, <1>4, NadaSale DEF MueveRasgo, Elige, Devuelve, IInvCreacion
<1>5. CASE ActualizarDatos
  <2>1. datos' = [n \in Campos |-> datos'[n]]
    BY <1>2, <1>3, <1>5 DEF ActualizarDatos
  <2>2. UNCHANGED <<enviadas, paquetes, filas, pedidas>>
    BY <1>5 DEF ActualizarDatos, vars
  <2>. QED
    BY <1>1, <1>2, <2>1, <2>2, NadaSale DEF IInvCreacion
<1>6. CASE Pulsa
  <2>1. UNCHANGED <<datos, filas, pedidas>>
    BY <1>6 DEF Pulsa
  <2>2. Guardadas'
    BY <1>2, <2>1 DEF Guardadas, GuardadoLoElegido
  <2>. QED
    BY <1>1, <1>2, <1>6, <2>1, <2>2, PulsaEnCamino DEF IInvCreacion
<1>7. CASE VuelveSinCrear
  <2>1. datos' = DatosIniciales /\ UNCHANGED <<enviadas, paquetes, filas, pedidas>>
    BY <1>7 DEF VuelveSinCrear, Vuelve
  <2>. QED
    BY <1>1, <1>2, <2>1, CamposDatos, NadaSale DEF IInvCreacion
<1>8. ASSUME NEW i \in 1..Len(enviadas), Crea(i) PROVE IInvCreacion'
  <2>1. datos' = datos \/ datos' = DatosIniciales
    BY <1>8 DEF Crea
  <2>2. datos' = [n \in Campos |-> datos'[n]]
    BY <1>2, <2>1, CamposDatos
  <2>3. Guarda(i) \/ UNCHANGED <<filas, pedidas>>
    BY <1>8 DEF Crea
  <2>4. ASSUME UNCHANGED <<filas, pedidas>> PROVE Guardadas'
    BY <1>2, <2>4 DEF Guardadas, GuardadoLoElegido
  <2>5. Guardadas'
    BY <1>8, <2>3, <2>4, GuardaGuardadas
  <2>. QED
    BY <1>1, <1>8, <2>2, <2>5, CreaEnCamino DEF IInvCreacion
<1>9. CASE UNCHANGED creacionVars
  <2>1. UNCHANGED <<enviadas, paquetes, filas, pedidas, datos>>
    BY <1>9 DEF creacionVars, vars
  <2>. QED
    BY <1>1, <1>2, <2>1, NadaSale DEF IInvCreacion
<1>. QED
  BY <1>4, <1>5, <1>6, <1>7, <1>8, <1>9 DEF NextCreacion

\* The creations under way carry the screen they were confirmed on, and every row is
\* one of them.
THEOREM CreacionCorrecta == SpecCreacion => []IInvCreacion
<1>1. InitCreacion => IInvCreacion
  <2>. SUFFICES ASSUME InitCreacion PROVE IInvCreacion
    OBVIOUS
  <2>1. IInv /\ enviadas = <<>>
    BY InicioIInv DEF InitCreacion, Init
  <2>2. EsVector(<<>>, 0) /\ Len(<<>>) = 0
    BY DEF EsVector
  <2>3. EnCamino
    BY <2>1, <2>2 DEF InitCreacion, EnCamino
  <2>4. Guardadas
    BY <2>2 DEF InitCreacion, Guardadas, GuardadoLoElegido
  <2>. QED
    BY <2>1, <2>3, <2>4, CamposDatos DEF InitCreacion, IInvCreacion
<1>. QED
  BY <1>1, PasoCreacion, PTL DEF SpecCreacion

\* What the table has of a character is what its user had on the screen, field by field,
\* whatever the values, the traits, and the creations that cross with it; and its traits
\* are compatible and paid for.
THEOREM SiempreLoElegido == SpecCreacion => []GuardadoLoElegido
<1>1. IInvCreacion => GuardadoLoElegido
  BY DEF IInvCreacion, Guardadas
<1>. QED
  BY <1>1, CreacionCorrecta, PTL
=============================================================================
