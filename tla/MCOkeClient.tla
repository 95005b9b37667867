------------------------------ MODULE MCOkeClient ------------------------------
(***************************************************************************)
(* The documents the models of the OKE API are read from: no field, one    *)
(* field with each of its interesting values, or two fields of which one   *)
(* may be wrong, down to the leaves of the nested models.                  *)
(***************************************************************************)
EXTENDS OkeClient

MCTypes == DOMAIN Model

StringsOrMap == [json |-> "other"]

\* A value the rules of a field of kind k accept, and one they refuse where they can.
RECURSIVE Good(_), Bad(_)

Good(k) ==
  CASE k.kind \in {"string", "stringKept", "requiredText"} -> Text("x")
    [] k.kind = "enum" -> Text(CHOOSE s \in k.values : TRUE)
    [] k.kind = "between" -> Number(k.hi)
    [] k.kind \in {"int32", "requiredNumber"} -> Number(1)
    [] k.kind = "other" -> StringsOrMap
    [] k.kind = "nested" -> Object([f \in DOMAIN Model[k.of] |-> Good(Model[k.of][f])])
    [] k.kind = "each" -> Array(<<Good(Nested(k.of))>>)

\* The fields of a model that can be wrong.
RECURSIVE CanFail(_)
CanFail(k) == \/ k.kind \in {"enum", "between", "requiredText", "requiredNumber"}
              \/ k.kind \in {"nested", "each"}
                 /\ \E f \in DOMAIN Model[k.of] : CanFail(Model[k.of][f])

Bad(k) ==
  CASE k.kind = "enum" -> Text("?")
    [] k.kind = "between" -> Number(k.hi + 1)
    [] k.kind = "nested" /\ CanFail(k) ->
         Object([f \in {CHOOSE g \in DOMAIN Model[k.of] : CanFail(Model[k.of][g])} |->
                   Bad(Model[k.of][f])])
    [] k.kind = "each" /\ CanFail(k) ->
         Array(<<Null, Good(Nested(k.of)), Bad(Nested(k.of))>>)
    [] OTHER -> Null

\* The values of a field on its own: those of its type, its limits, and one of a wrong type.
RECURSIVE Values(_)
Values(k) ==
  {Null, Good(k), Bad(k)} \cup
  CASE k.kind \in {"string", "stringKept", "requiredText"} -> {Text(""), Number(1)}
    [] k.kind = "enum" -> {Text(""), Number(1)} \cup {Text(s) : s \in k.values}
    [] k.kind = "between" -> {Number(n) : n \in k.lo - 1 .. k.hi + 1} \cup {Text("x")}
    [] k.kind \in {"int32", "requiredNumber"} -> {Number(0), Number(-1), Text("x")}
    [] k.kind = "other" -> {Text("x")}
    [] k.kind = "nested" ->
         {Text("x"), Empty} \cup
         UNION {{Object([g \in {f} |-> v]) : v \in Values(Model[k.of][f])}
                  : f \in DOMAIN Model[k.of]}
    [] k.kind = "each" ->
         {Empty, Array(<<>>), Array(<<Null>>), Array(<<Text("x")>>),
          Array(<<Bad(Nested(k.of)), Good(Nested(k.of))>>),
          Array(<<Good(Nested(k.of)), Null, Bad(Nested(k.of))>>)}

MCBodies(t) ==
  {Garbage, Null, Empty, Good(Nested(t)), Object([unknown |-> Number(1)])}
  \cup UNION {{Object([g \in {f} |-> v]) : v \in Values(Model[t][f])} : f \in DOMAIN Model[t]}
  \cup UNION {{Object([g \in {f, h} |-> IF g = f THEN v ELSE w]) :
                 v \in {Good(Model[t][f]), Bad(Model[t][f])},
                 w \in {Good(Model[t][h]), Bad(Model[t][h])}}
                : f, h \in {g \in DOMAIN Model[t] : CanFail(Model[t][g])}}

=============================================================================
