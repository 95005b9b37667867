-------------------------------- MODULE OkeClient --------------------------------
(***************************************************************************)
(* A client of the models of the OKE API: it reads one document after the  *)
(* other into the same model and may validate it or write it out at any    *)
(* time.                                                                   *)
(***************************************************************************)
EXTENDS OkeModels

CONSTANTS Types,         \* the models under test
          Bodies(_)      \* bound: the documents a model of this type is read from

VARIABLES type,     \* the type of the model
          m,        \* the model
          doc       \* the document it was last read from

vars == <<type, m, doc>>

Init == /\ type \in Types
        /\ m = New(type)
        /\ doc = Empty

Read(b) == LET r == UnmarshalBinary(type, m, b)
           IN  /\ m' = r.m
               /\ doc' = IF r.ok THEN b ELSE doc
               /\ UNCHANGED type

Next == \E b \in Bodies(type) : Read(b)

Spec == Init /\ [][Next]_vars

-----------------------------------------------------------------------------
\* Every field of the model holds a value of its Go type.
TypeOK == /\ type \in Types
          /\ DOMAIN m.object = DOMAIN Model[type]
          /\ Fits(Nested(type), m)

\* The models directly inside a field of kind k with the value v, each with its type:
\* the one it points to, or the elements of the slice.
Inside(k, v) ==
  CASE v # Null /\ k.kind = "nested" -> {<<k.of, v>>}
    [] v # Null /\ k.kind = "each" -> {<<k.of, y>> : y \in Range(v.items) \ {Null}}
    [] OTHER -> {}

\* The models directly inside some models.
Deeper(parts) ==
  UNION {UNION {Inside(Model[p[1]][f], p[2].object[f]) : f \in DOMAIN p[2].object}
           : p \in parts}

\* A model and all the models inside it, at any of the five depths.
Parts(t, x) ==
  LET two == Deeper({<<t, x>>})
      three == Deeper(two)
      four == Deeper(three)
  IN  {<<t, x>>} \cup two \cup three \cup four \cup Deeper(four)

\* A field that breaks its own rule: a required one without a value, an unknown name, a
\* number out of range.
Breaks(k, v) ==
  \/ k.kind \in {"requiredText", "requiredNumber"} /\ v = Null
  \/ k.kind = "enum" /\ v # Null /\ v.text \notin k.values
  \/ k.kind = "between" /\ v # Null /\ v.number \notin k.lo .. k.hi

\* The fields of some models that break a rule of their own.
Broken(parts) ==
  UNION {{f \in DOMAIN p[2].object : Breaks(Model[p[1]][f], p[2].object[f])} : p \in parts}

\* Validate() of a model accepts it exactly when no field at any depth breaks a rule, and
\* reports only fields that do: the null elements it skips, the element of a slice it
\* stops at and the zero values it does not look at hide no error and invent none.
ValidateIsExact ==
  LET reported == Validate(type, m)
      parts == Parts(type, m)
  IN  /\ Deeper(parts) \subseteq parts
      /\ reported = {} <=> Broken(parts) = {}
      /\ reported \subseteq Broken(parts)

\* A model reads back from its own bytes as it was: MarshalBinary() leaves nothing out
\* that UnmarshalBinary() of another client would miss, such as a status of 0 behind a
\* pointer, an empty slice or a null element.
RoundTrip == UnmarshalBinary(type, New(type), MarshalBinary(type, m)) = [ok |-> TRUE, m |-> m]

\* A model that has been read into before shows the last document alone: UnmarshalBinary()
\* keeps no field of the document before it, and a document it refuses changes nothing.
ShowsLastDocument == m = UnmarshalBinary(type, New(type), doc).m

=============================================================================
