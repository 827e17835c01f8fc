----------------------------- MODULE MCCreacion -----------------------------
(* Creacion with rows of the table base_rasgos of CreacionDePersonaje.gd. *)
EXTENDS Creacion

Parejas == {<<"fuerte", "debil">>, <<"agil", "torpe">>, <<"miope", "vista_lince">>,
            <<"suertudo", "gafe">>, <<"asmatico", "atleta">>}

TodosLosIds == {p[1] : p \in Parejas} \cup {p[2] : p \in Parejas}

DosParejas == {"fuerte", "debil", "agil", "torpe"}

TablaExcluye ==
  [id \in TodosLosIds |-> {p[2] : p \in {q \in Parejas : q[1] = id}}
                          \cup {p[1] : p \in {q \in Parejas : q[2] = id}}]

ExcluyeDos == [id \in DosParejas |-> TablaExcluye[id]]

TablaPuntos ==
  [fuerte |-> -5, debil |-> 5, agil |-> -3, torpe |-> 2, miope |-> 4, vista_lince |-> -4,
   suertudo |-> -4, gafe |-> 4, asmatico |-> 5, atleta |-> -6]

PuntosDos == [id \in DosParejas |-> TablaPuntos[id]]
=============================================================================
