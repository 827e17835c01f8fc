------------------------------- MODULE Rasgos -------------------------------
(***************************************************************************)
(* The traits of a new character (CreacionDePersonaje.gd): the user moves   *)
(* traits between two lists, every move recomputes the points, what each    *)
(* list offers and BtnConfirmar, and the confirmed traits are sent to the   *)
(* server.  The server stores what it is sent, so only this screen keeps a  *)
(* character from having exclusive traits or points that do not add up.     *)
(*                                                                          *)
(* Abstraction: the order of rasgos_seleccionados, which only decides the   *)
(* order on the screen, is left out.                                        *)
(***************************************************************************)
EXTENDS Integers, SequencesExt

CONSTANTS
  Ids,        \* keys of base_rasgos
  Puntos,     \* base_rasgos[id]["puntos"]: what the trait gives (or costs, if negative)
  Excluye,    \* base_rasgos[id]["excluye"]
  MaxEnvios   \* bound: creations under way

\* The exclusions of base_rasgos are mutual, as its comment says.
ASSUME RasgosAssumption ==
  /\ IsFiniteSet(Ids)
  /\ Puntos \in [Ids -> Int]
  /\ Excluye \in [Ids -> SUBSET Ids]
  /\ \A a, b \in Ids : b \in Excluye[a] => a \in Excluye[b]
  /\ \A a \in Ids : a \notin Excluye[a]
  /\ MaxEnvios \in Nat

VARIABLES
  elegidos,     \* rasgos_seleccionados
  activables,   \* items of ListaRasgos that are not disabled
  puntos,       \* puntos_actuales
  confirmar,    \* BtnConfirmar is enabled
  enviadas      \* traits of the creations the server has not answered

vars == <<elegidos, activables, puntos, confirmar, enviadas>>

Suma(s) == MapThenSumSet(LAMBDA id : Puntos[id], s)

Bloqueados(s) == UNION {Excluye[id] : id \in s}

\* _repoblar_listas_rasgos, with rasgos_seleccionados = s
Repobla(s) ==
  /\ elegidos' = s
  /\ puntos' = Suma(s)
  /\ activables' = (Ids \ s) \ Bloqueados(s)
  /\ confirmar' = (Suma(s) >= 0)

Init ==
  /\ elegidos = {} /\ puntos = 0
  /\ activables = Ids
  /\ confirmar = TRUE
  /\ enviadas = <<>>

\* (Mutant: _on_rasgo_disponible_activado does not look at is_item_disabled.)
Todos == Ids \ elegidos

Ofrecidos == activables

\* _on_rasgo_disponible_activado
Elige(id) ==
  /\ id \in Ofrecidos
  /\ Repobla(elegidos \cup {id})
  /\ UNCHANGED enviadas

\* (Mutant: the lists and the points are not refreshed.)
DevuelveSinRepoblar(id) ==
  /\ id \in elegidos
  /\ elegidos' = elegidos \ {id}
  /\ UNCHANGED <<activables, puntos, confirmar, enviadas>>

\* _on_rasgo_elegido_activado
Devuelve(id) ==
  /\ id \in elegidos
  /\ Repobla(elegidos \ {id})
  /\ UNCHANGED enviadas

\* (Mutant: only the button stands between the user and a negative sum.)
BastaElBoton == TRUE

Alcanza == puntos >= 0

\* _on_btn_confirmar_pressed
Confirma ==
  /\ confirmar /\ Alcanza
  /\ Len(enviadas) < MaxEnvios
  /\ confirmar' = FALSE
  /\ enviadas' = Append(enviadas, elegidos)
  /\ UNCHANGED <<elegidos, activables, puntos>>

\* Creation i fails: the button is enabled, whatever the points are by then.
Rechaza(i) ==
  /\ enviadas' = RemoveAt(enviadas, i)
  /\ confirmar' = TRUE
  /\ UNCHANGED <<elegidos, activables, puntos>>

\* Creation i succeeds and the scene is left; its next visit starts with no traits.
Acepta(i) ==
  /\ enviadas' = RemoveAt(enviadas, i)
  /\ Repobla({})

\* BtnVolver leaves the scene, whatever is under way.
Vuelve == Repobla({}) /\ UNCHANGED enviadas

\* The insertions run in the pool, so the answers come in any order.
Next ==
  \/ \E id \in Ids : Elige(id) \/ Devuelve(id)
  \/ Confirma \/ Vuelve
  \/ \E i \in 1..Len(enviadas) : Rechaza(i) \/ Acepta(i)

Spec == Init /\ [][Next]_vars

-----------------------------------------------------------------------------
(* Properties *)

\* The type of each variable; puntos is the sum of the chosen traits (IInv).
TypeOK ==
  /\ elegidos \subseteq Ids /\ activables \subseteq Ids
  /\ confirmar \in BOOLEAN
  /\ enviadas \in Seq(SUBSET Ids)

Compatibles(s) == \A a, b \in s : b \notin Excluye[a]

\* What the server is asked to store never has two exclusive traits, nor costs more
\* than it gives: the exclusion is blocked when the first of the two is chosen, and
\* the points are looked at again after a refused creation enabled the button.
CreacionValida ==
  \A i \in 1..Len(enviadas) : Compatibles(enviadas[i]) /\ Suma(enviadas[i]) >= 0

\* The inductive invariant: the points and the list on the screen are always those
\* of the traits chosen now, after any sequence of moves, refusals and new visits.
IInv ==
  /\ TypeOK
  /\ Compatibles(elegidos)
  /\ puntos = Suma(elegidos)
  /\ activables = (Ids \ elegidos) \ Bloqueados(elegidos)
  /\ CreacionValida
=============================================================================
