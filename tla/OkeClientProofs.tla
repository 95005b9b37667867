---------------------------- MODULE OkeClientProofs ----------------------------
(***************************************************************************)
(* For every model of the OKE API and every sequence of documents: a model *)
(* shows the last document that was accepted, has its Go type, reads back  *)
(* from its own bytes as it was, and Validate() reports it exactly when a  *)
(* field at some depth breaks its rule.                                    *)
(*                                                                         *)
(* The codec is written level by level, from the plain fields up, and so   *)
(* are the lemmas: what is shown of the fields of one level gives what is  *)
(* shown of the models made of them, and that the fields of the next.      *)
(***************************************************************************)
EXTENDS OkeClient, WellFoundedInduction, TLAPS

\* The seconds a prover may take for a step.
USE SMTT(30), ZenonT(30)

-----------------------------------------------------------------------------
(* JSON documents.                                                          *)

\* The documents are told apart by their kind, and give back what they are made of.
LEMMA Documents ==
  /\ \A s : Text(s).text = s /\ Text(s).json = "text" /\ Text(s) # Null
  /\ \A n : Number(n).number = n /\ Number(n).json = "number" /\ Number(n) # Null
  /\ \A o : Object(o).object = o /\ Object(o).json = "object" /\ Object(o) # Null
  /\ \A a : Array(a).items = a /\ Array(a).json = "array" /\ Array(a) # Null
  /\ Null.json = "null"
BY DEF Text, Number, Object, Array, Null

\* The kind of a pointer to a model and of the field without omitempty.
LEMMA Kinds ==
  /\ \A t : Nested(t).kind = "nested" /\ Nested(t).of = t
  /\ StringKept.kind = "stringKept"
BY DEF Nested, StringKept

\* What maps every element of a list is a list.
LEMMA MappedList ==
  ASSUME NEW a, a \in Seq(Range(a)), NEW b, b = [i \in DOMAIN a |-> b[i]]
  PROVE  b \in Seq(Range(b))
<1>1. DOMAIN a = 1 .. Len(a) /\ Len(a) \in Nat
  OBVIOUS
<1>2. \A i \in 1 .. Len(a) : b[i] \in Range(b)
  BY <1>1 DEF Range
<1> QED
  BY <1>1, <1>2

-----------------------------------------------------------------------------
(* Reading, and reading back what was written.                              *)

\* A Go value x has the type of a field of kind k, and is read back from its own bytes.
ReadsBack(F(_, _), D(_, _), E(_, _), k, x) ==
  F(k, x) /\ F(k, E(k, x)) /\ D(k, E(k, x)) = x

\* So is what a plain field was read into.
LEMMA PlainReadsBack ==
  ASSUME NEW k, NEW v, FitsPlain(k, v)
  PROVE  LET x == DecodePlain(k, v)
         IN  /\ ReadsBack(FitsPlain, DecodePlain, EncodePlain, k, x)
             /\ v.json \notin {"object", "array"}
             /\ x.json \notin {"object", "array"}
             /\ EncodePlain(k, x).json \notin {"object", "array"}
<1> DEFINE x == DecodePlain(k, v)
           e == EncodePlain(k, x)
<1>1. v.json \notin {"object", "array"}
  BY Documents DEF FitsPlain
<1>2. x \in {Null, v} /\ FitsPlain(k, x) /\ x.json \notin {"object", "array"}
  BY <1>1, Documents DEF DecodePlain, FitsPlain
<1>3. /\ k.kind \in {"string", "stringKept", "enum"} => x # Text(EmptyString)
      /\ k.kind = "int32" => x # Number(0)
  BY Documents DEF DecodePlain
<1> HIDE DEF x
<1>4. CASE k = StringKept /\ x = Null
  <2>1. e = Text(EmptyString) /\ k.kind = "stringKept"
    BY <1>4, Kinds DEF EncodePlain
  <2>2. FitsPlain(k, e) /\ DecodePlain(k, e) = x /\ e.json = "text"
    BY <1>4, <2>1, Documents DEF FitsPlain, DecodePlain
  <2> QED
    BY <1>1, <1>2, <2>2 DEF ReadsBack, x
<1>5. CASE ~(k = StringKept /\ x = Null)
  <2>1. e = x
    BY <1>5 DEF EncodePlain
  <2>2. DecodePlain(k, x) = x
    BY <1>3 DEF DecodePlain
  <2> QED
    BY <1>1, <1>2, <2>1, <2>2 DEF ReadsBack, x
<1> QED
  BY <1>4, <1>5, ZenonT(30)

\* A field that was not in the document reads back as well.
LEMMA NullReadsBack ==
  ASSUME NEW k
  PROVE  FitsPlain(k, Null) /\ DecodePlain(k, Null) = Null
BY Documents DEF FitsPlain, DecodePlain

\* A model that was read, of fields of level 0, has its type and reads back.
LEMMA ModelReadsBack0 ==
  ASSUME NEW t, NEW v, FitsModel(FitsPlain, t, v)
  PROVE  LET x == DecodeModel(DecodePlain, t, v)
             e == EncodeModel(EncodePlain, t, x)
         IN  /\ v # Null
             /\ x = Object(x.object) /\ DOMAIN x.object = DOMAIN Model[t]
             /\ FitsModel(FitsPlain, t, x)
             /\ e.json = "object" /\ e # Null /\ FitsModel(FitsPlain, t, e)
             /\ DecodeModel(DecodePlain, t, e) = x
<1> DEFINE o == [f \in DOMAIN Model[t] |->
                   IF f \in DOMAIN v.object
                   THEN DecodePlain(Model[t][f], v.object[f]) ELSE Null]
           kept == {g \in DOMAIN o : ~Omits(Model[t][g], o[g])}
           w == [f \in kept |-> EncodePlain(Model[t][f], o[f])]
<1>1. v # Null /\ DecodeModel(DecodePlain, t, v) = Object(o)
  BY Documents DEF FitsModel, DecodeModel
<1>2. \A f \in DOMAIN Model[t] :
        ReadsBack(FitsPlain, DecodePlain, EncodePlain, Model[t][f], o[f])
  <2> SUFFICES ASSUME NEW f \in DOMAIN Model[t]
               PROVE  ReadsBack(FitsPlain, DecodePlain, EncodePlain, Model[t][f], o[f])
    BY ZenonT(30)
  <2>1. CASE f \in DOMAIN v.object
    <3>1. FitsPlain(Model[t][f], v.object[f])
      BY <2>1 DEF FitsModel
    <3>2. o[f] = DecodePlain(Model[t][f], v.object[f])
      BY <2>1
    <3> QED
      BY <3>1, <3>2, PlainReadsBack, ZenonT(30)
  <2>2. CASE f \notin DOMAIN v.object
    <3>1. FitsPlain(Model[t][f], Null) /\ DecodePlain(Model[t][f], Null) = Null
      BY NullReadsBack
    <3>2. o[f] = DecodePlain(Model[t][f], Null)
      BY <2>2, <3>1
    <3> QED
      BY <3>1, <3>2, PlainReadsBack, ZenonT(30)
  <2> QED
    BY <2>1, <2>2, ZenonT(30)
<1>3. DOMAIN o = DOMAIN Model[t] /\ o = [f \in DOMAIN Model[t] |-> o[f]]
  OBVIOUS
<1> HIDE DEF o
<1>4. EncodeModel(EncodePlain, t, Object(o)) = Object(w)
  BY Documents DEF EncodeModel
<1>5. /\ DOMAIN w \subseteq DOMAIN Model[t]
      /\ \A f \in DOMAIN w : /\ FitsPlain(Model[t][f], w[f])
                             /\ DecodePlain(Model[t][f], w[f]) = o[f]
      /\ \A f \in DOMAIN Model[t] \ DOMAIN w : o[f] = Null
  BY <1>2, <1>3 DEF ReadsBack, Omits
<1> HIDE DEF w
<1>6. FitsModel(FitsPlain, t, Object(o)) /\ FitsModel(FitsPlain, t, Object(w))
  BY <1>2, <1>3, <1>5, Documents, ZenonT(30) DEF FitsModel, ReadsBack
<1>7. DecodeModel(DecodePlain, t, Object(w)) = Object(o)
  <2>1. \A f \in DOMAIN Model[t] :
          o[f] = IF f \in DOMAIN w THEN DecodePlain(Model[t][f], w[f]) ELSE Null
    BY <1>5
  <2>2. o = [f \in DOMAIN Model[t] |->
               IF f \in DOMAIN w THEN DecodePlain(Model[t][f], w[f]) ELSE Null]
    BY <1>3, <2>1
  <2> QED
    BY <2>2, Documents DEF DecodeModel
<1> QED
  BY <1>1, <1>3, <1>4, <1>6, <1>7, Documents

\* What a field of level 1 was read into has its type and reads back.
LEMMA FieldReadsBack1 ==
  ASSUME NEW k, NEW v, Fits1(k, v)
  PROVE  ReadsBack(Fits1, Decode1, Encode1, k, Decode1(k, v))
<1>1. CASE FitsPlain(k, v)
  <2> DEFINE x == DecodePlain(k, v)
  <2>1. Decode1(k, v) = x /\ Encode1(k, x) = EncodePlain(k, x)
    BY <1>1, PlainReadsBack, ZenonT(30) DEF Decode1, DecodeField, Encode1, EncodeField
  <2>2. Decode1(k, EncodePlain(k, x)) = DecodePlain(k, EncodePlain(k, x))
    BY <1>1, PlainReadsBack, ZenonT(30) DEF Decode1, DecodeField
  <2>3. ReadsBack(FitsPlain, DecodePlain, EncodePlain, k, x)
    BY <1>1, PlainReadsBack, ZenonT(30)
  <2> QED
    BY <2>1, <2>2, <2>3 DEF ReadsBack, Fits1, FitsField
<1>2. CASE k.kind = "nested" /\ FitsModel(FitsPlain, k.of, v)
  <2> DEFINE x == DecodeModel(DecodePlain, k.of, v)
             e == EncodeModel(EncodePlain, k.of, x)
  <2>1. /\ x = Object(x.object) /\ FitsModel(FitsPlain, k.of, x)
        /\ e.json = "object" /\ FitsModel(FitsPlain, k.of, e)
        /\ DecodeModel(DecodePlain, k.of, e) = x
    BY <1>2, ModelReadsBack0
  <2>2. v.json = "object" /\ x.json = "object"
    BY <1>2, <2>1, Documents DEF FitsModel
  <2>3. Decode1(k, v) = x /\ Encode1(k, x) = e
    BY <2>2 DEF Decode1, DecodeField, Encode1, EncodeField
  <2> HIDE DEF x, e
  <2>4. Decode1(k, e) = x
    BY <2>1 DEF Decode1, DecodeField
  <2>5. Fits1(k, x) /\ Fits1(k, e)
    BY <1>2, <2>1 DEF Fits1, FitsField
  <2> QED
    BY <2>3, <2>4, <2>5 DEF ReadsBack
<1>3. CASE /\ k.kind = "each" /\ IsList(v)
           /\ \A i \in DOMAIN v.items : \/ v.items[i] = Null
                                        \/ FitsModel(FitsPlain, k.of, v.items[i])
  <2> DEFINE a == v.items
             x == [i \in DOMAIN a |-> DecodeModel(DecodePlain, k.of, a[i])]
             e == [i \in DOMAIN a |-> EncodeModel(EncodePlain, k.of, x[i])]
  <2>1. \A i \in DOMAIN a :
          /\ x[i] = Null \/ FitsModel(FitsPlain, k.of, x[i])
          /\ e[i] = Null \/ FitsModel(FitsPlain, k.of, e[i])
          /\ DecodeModel(DecodePlain, k.of, e[i]) = x[i]
    <3> SUFFICES ASSUME NEW i \in DOMAIN a
                 PROVE  /\ x[i] = Null \/ FitsModel(FitsPlain, k.of, x[i])
                        /\ e[i] = Null \/ FitsModel(FitsPlain, k.of, e[i])
                        /\ DecodeModel(DecodePlain, k.of, e[i]) = x[i]
      OBVIOUS
    <3>1. CASE a[i] = Null
      BY <3>1, ZenonT(30) DEF DecodeModel, EncodeModel
    <3>2. CASE FitsModel(FitsPlain, k.of, a[i])
      BY <3>2, ModelReadsBack0
    <3> QED
      BY <1>3, <3>1, <3>2
  <2>2. v.json = "array" /\ a \in Seq(Range(a))
    BY <1>3 DEF IsList
  <2>3. Decode1(k, v) = Array(x)
    BY <2>2 DEF Decode1, DecodeField
  <2>4. /\ DOMAIN x = DOMAIN a /\ x = [i \in DOMAIN a |-> x[i]]
        /\ DOMAIN e = DOMAIN a /\ e = [i \in DOMAIN a |-> e[i]]
    OBVIOUS
  <2> HIDE DEF x
  <2>5. Encode1(k, Array(x)) = Array(e)
    <3>1. Array(x).json = "array" /\ Array(x).items = x
      BY Documents
    <3>2. e = [i \in DOMAIN x |-> EncodeModel(EncodePlain, k.of, x[i])]
      BY <2>4
    <3> HIDE DEF e
    <3> QED
      BY <3>1, <3>2 DEF Encode1, EncodeField
  <2> HIDE DEF e
  <2>6. IsList(Array(x)) /\ IsList(Array(e))
    <3>1. x \in Seq(Range(x)) /\ e \in Seq(Range(e))
      BY <2>2, <2>4, MappedList, ZenonT(30)
    <3> QED
      BY <3>1, Documents DEF IsList
  <2>7. Fits1(k, Array(x)) /\ Fits1(k, Array(e))
    <3>1. Array(x).items = x /\ Array(e).items = e
      BY Documents
    <3> QED
      BY <1>3, <2>1, <2>4, <2>6, <3>1, ZenonT(30) DEF Fits1, FitsField
  <2>8. Decode1(k, Array(e)) = Array(x)
    <3>1. x = [i \in DOMAIN e |-> DecodeModel(DecodePlain, k.of, e[i])]
      BY <2>1, <2>4
    <3>2. Array(e).json = "array" /\ Array(e).items = e
      BY Documents
    <3> QED
      BY <3>1, <3>2, ZenonT(30) DEF Decode1, DecodeField
  <2> QED
    BY <2>3, <2>5, <2>7, <2>8 DEF ReadsBack
<1> QED
  BY <1>1, <1>2, <1>3, ZenonT(30) DEF Fits1, FitsField

\* A model that was read, of fields of level 1, has its type and reads back.
LEMMA ModelReadsBack1 ==
  ASSUME NEW t, NEW v, FitsModel(Fits1, t, v)
  PROVE  LET x == DecodeModel(Decode1, t, v)
             e == EncodeModel(Encode1, t, x)
         IN  /\ v # Null
             /\ x = Object(x.object) /\ DOMAIN x.object = DOMAIN Model[t]
             /\ FitsModel(Fits1, t, x)
             /\ e.json = "object" /\ e # Null /\ FitsModel(Fits1, t, e)
             /\ DecodeModel(Decode1, t, e) = x
<1> DEFINE o == [f \in DOMAIN Model[t] |->
                   IF f \in DOMAIN v.object
                   THEN Decode1(Model[t][f], v.object[f]) ELSE Null]
           kept == {g \in DOMAIN o : ~Omits(Model[t][g], o[g])}
           w == [f \in kept |-> Encode1(Model[t][f], o[f])]
<1>1. v # Null /\ DecodeModel(Decode1, t, v) = Object(o)
  BY Documents DEF FitsModel, DecodeModel
<1>2. \A f \in DOMAIN Model[t] :
        ReadsBack(Fits1, Decode1, Encode1, Model[t][f], o[f])
  <2> SUFFICES ASSUME NEW f \in DOMAIN Model[t]
               PROVE  ReadsBack(Fits1, Decode1, Encode1, Model[t][f], o[f])
    BY ZenonT(30)
  <2>1. CASE f \in DOMAIN v.object
    <3>1. Fits1(Model[t][f], v.object[f])
      BY <2>1 DEF FitsModel
    <3>2. o[f] = Decode1(Model[t][f], v.object[f])
      BY <2>1
    <3> QED
      BY <3>1, <3>2, FieldReadsBack1, ZenonT(30)
  <2>2. CASE f \notin DOMAIN v.object
    <3>1. Fits1(Model[t][f], Null) /\ Decode1(Model[t][f], Null) = Null
      <4>1. FitsPlain(Model[t][f], Null) /\ DecodePlain(Model[t][f], Null) = Null
        BY NullReadsBack
      <4>2. Decode1(Model[t][f], Null) = DecodePlain(Model[t][f], Null)
        BY Documents DEF Decode1, DecodeField
      <4> QED
        BY <4>1, <4>2, ZenonT(30) DEF Fits1, FitsField
    <3>2. o[f] = Decode1(Model[t][f], Null)
      BY <2>2, <3>1
    <3> QED
      BY <3>1, <3>2, FieldReadsBack1, ZenonT(30)
  <2> QED
    BY <2>1, <2>2, ZenonT(30)
<1>3. DOMAIN o = DOMAIN Model[t] /\ o = [f \in DOMAIN Model[t] |-> o[f]]
  OBVIOUS
<1> HIDE DEF o
<1>4. EncodeModel(Encode1, t, Object(o)) = Object(w)
  BY Documents DEF EncodeModel
<1>5. /\ DOMAIN w \subseteq DOMAIN Model[t]
      /\ \A f \in DOMAIN w : /\ Fits1(Model[t][f], w[f])
                             /\ Decode1(Model[t][f], w[f]) = o[f]
      /\ \A f \in DOMAIN Model[t] \ DOMAIN w : o[f] = Null
  BY <1>2, <1>3 DEF ReadsBack, Omits
<1> HIDE DEF w
<1>6. FitsModel(Fits1, t, Object(o)) /\ FitsModel(Fits1, t, Object(w))
  BY <1>2, <1>3, <1>5, Documents, ZenonT(30) DEF FitsModel, ReadsBack
<1>7. DecodeModel(Decode1, t, Object(w)) = Object(o)
  <2>1. \A f \in DOMAIN Model[t] :
          o[f] = IF f \in DOMAIN w THEN Decode1(Model[t][f], w[f]) ELSE Null
    BY <1>5
  <2>2. o = [f \in DOMAIN Model[t] |->
               IF f \in DOMAIN w THEN Decode1(Model[t][f], w[f]) ELSE Null]
    BY <1>3, <2>1
  <2> QED
    BY <2>2, Documents DEF DecodeModel
<1> QED
  BY <1>1, <1>3, <1>4, <1>6, <1>7, Documents

\* What a field of level 2 was read into has its type and reads back.
LEMMA FieldReadsBack2 ==
  ASSUME NEW k, NEW v, Fits2(k, v)
  PROVE  ReadsBack(Fits2, Decode2, Encode2, k, Decode2(k, v))
<1>1. CASE FitsPlain(k, v)
  <2> DEFINE x == DecodePlain(k, v)
  <2>1. Decode2(k, v) = x /\ Encode2(k, x) = EncodePlain(k, x)
    BY <1>1, PlainReadsBack, ZenonT(30) DEF Decode2, DecodeField, Encode2, EncodeField
  <2>2. Decode2(k, EncodePlain(k, x)) = DecodePlain(k, EncodePlain(k, x))
    BY <1>1, PlainReadsBack, ZenonT(30) DEF Decode2, DecodeField
  <2>3. ReadsBack(FitsPlain, DecodePlain, EncodePlain, k, x)
    BY <1>1, PlainReadsBack, ZenonT(30)
  <2> QED
    BY <2>1, <2>2, <2>3 DEF ReadsBack, Fits2, FitsField
<1>2. CASE k.kind = "nested" /\ FitsModel(Fits1, k.of, v)
  <2> DEFINE x == DecodeModel(Decode1, k.of, v)
             e == EncodeModel(Encode1, k.of, x)
  <2>1. /\ x = Object(x.object) /\ FitsModel(Fits1, k.of, x)
        /\ e.json = "object" /\ FitsModel(Fits1, k.of, e)
        /\ DecodeModel(Decode1, k.of, e) = x
    BY <1>2, ModelReadsBack1
  <2>2. v.json = "object" /\ x.json = "object"
    BY <1>2, <2>1, Documents DEF FitsModel
  <2>3. Decode2(k, v) = x /\ Encode2(k, x) = e
    BY <2>2 DEF Decode2, DecodeField, Encode2, EncodeField
  <2> HIDE DEF x, e
  <2>4. Decode2(k, e) = x
    BY <2>1 DEF Decode2, DecodeField
  <2>5. Fits2(k, x) /\ Fits2(k, e)
    BY <1>2, <2>1 DEF Fits2, FitsField
  <2> QED
    BY <2>3, <2>4, <2>5 DEF ReadsBack
<1>3. CASE /\ k.kind = "each" /\ IsList(v)
           /\ \A i \in DOMAIN v.items : \/ v.items[i] = Null
                                        \/ FitsModel(Fits1, k.of, v.items[i])
  <2> DEFINE a == v.items
             x == [i \in DOMAIN a |-> DecodeModel(Decode1, k.of, a[i])]
             e == [i \in DOMAIN a |-> EncodeModel(Encode1, k.of, x[i])]
  <2>1. \A i \in DOMAIN a :
          /\ x[i] = Null \/ FitsModel(Fits1, k.of, x[i])
          /\ e[i] = Null \/ FitsModel(Fits1, k.of, e[i])
          /\ DecodeModel(Decode1, k.of, e[i]) = x[i]
    <3> SUFFICES ASSUME NEW i \in DOMAIN a
                 PROVE  /\ x[i] = Null \/ FitsModel(Fits1, k.of, x[i])
                        /\ e[i] = Null \/ FitsModel(Fits1, k.of, e[i])
                        /\ DecodeModel(Decode1, k.of, e[i]) = x[i]
      OBVIOUS
    <3>1. CASE a[i] = Null
      BY <3>1, ZenonT(30) DEF DecodeModel, EncodeModel
    <3>2. CASE FitsModel(Fits1, k.of, a[i])
      BY <3>2, ModelReadsBack1
    <3> QED
      BY <1>3, <3>1, <3>2
  <2>2. v.json = "array" /\ a \in Seq(Range(a))
    BY <1>3 DEF IsList
  <2>3. Decode2(k, v) = Array(x)
    BY <2>2 DEF Decode2, DecodeField
  <2>4. /\ DOMAIN x = DOMAIN a /\ x = [i \in DOMAIN a |-> x[i]]
        /\ DOMAIN e = DOMAIN a /\ e = [i \in DOMAIN a |-> e[i]]
    OBVIOUS
  <2> HIDE DEF x
  <2>5. Encode2(k, Array(x)) = Array(e)
    <3>1. Array(x).json = "array" /\ Array(x).items = x
      BY Documents
    <3>2. e = [i \in DOMAIN x |-> EncodeModel(Encode1, k.of, x[i])]
      BY <2>4
    <3> HIDE DEF e
    <3> QED
      BY <3>1, <3>2 DEF Encode2, EncodeField
  <2> HIDE DEF e
  <2>6. IsList(Array(x)) /\ IsList(Array(e))
    <3>1. x \in Seq(Range(x)) /\ e \in Seq(Range(e))
      BY <2>2, <2>4, MappedList, ZenonT(30)
    <3> QED
      BY <3>1, Documents DEF IsList
  <2>7. Fits2(k, Array(x)) /\ Fits2(k, Array(e))
    <3>1. Array(x).items = x /\ Array(e).items = e
      BY Documents
    <3> QED
      BY <1>3, <2>1, <2>4, <2>6, <3>1, ZenonT(30) DEF Fits2, FitsField
  <2>8. Decode2(k, Array(e)) = Array(x)
    <3>1. x = [i \in DOMAIN e |-> DecodeModel(Decode1, k.of, e[i])]
      BY <2>1, <2>4
    <3>2. Array(e).json = "array" /\ Array(e).items = e
      BY Documents
    <3> QED
      BY <3>1, <3>2, ZenonT(30) DEF Decode2, DecodeField
  <2> QED
    BY <2>3, <2>5, <2>7, <2>8 DEF ReadsBack
<1> QED
  BY <1>1, <1>2, <1>3, ZenonT(30) DEF Fits2, FitsField

\* A model that was read, of fields of level 2, has its type and reads back.
LEMMA ModelReadsBack2 ==
  ASSUME NEW t, NEW v, FitsModel(Fits2, t, v)
  PROVE  LET x == DecodeModel(Decode2, t, v)
             e == EncodeModel(Encode2, t, x)
         IN  /\ v # Null
             /\ x = Object(x.object) /\ DOMAIN x.object = DOMAIN Model[t]
             /\ FitsModel(Fits2, t, x)
             /\ e.json = "object" /\ e # Null /\ FitsModel(Fits2, t, e)
             /\ DecodeModel(Decode2, t, e) = x
<1> DEFINE o == [f \in DOMAIN Model[t] |->
                   IF f \in DOMAIN v.object
                   THEN Decode2(Model[t][f], v.object[f]) ELSE Null]
           kept == {g \in DOMAIN o : ~Omits(Model[t][g], o[g])}
           w == [f \in kept |-> Encode2(Model[t][f], o[f])]
<1>1. v # Null /\ DecodeModel(Decode2, t, v) = Object(o)
  BY Documents DEF FitsModel, DecodeModel
<1>2. \A f \in DOMAIN Model[t] :
        ReadsBack(Fits2, Decode2, Encode2, Model[t][f], o[f])
  <2> SUFFICES ASSUME NEW f \in DOMAIN Model[t]
               PROVE  ReadsBack(Fits2, Decode2, Encode2, Model[t][f], o[f])
    BY ZenonT(30)
  <2>1. CASE f \in DOMAIN v.object
    <3>1. Fits2(Model[t][f], v.object[f])
      BY <2>1 DEF FitsModel
    <3>2. o[f] = Decode2(Model[t][f], v.object[f])
      BY <2>1
    <3> QED
      BY <3>1, <3>2, FieldReadsBack2, ZenonT(30)
  <2>2. CASE f \notin DOMAIN v.object
    <3>1. Fits2(Model[t][f], Null) /\ Decode2(Model[t][f], Null) = Null
      <4>1. FitsPlain(Model[t][f], Null) /\ DecodePlain(Model[t][f], Null) = Null
        BY NullReadsBack
      <4>2. Decode2(Model[t][f], Null) = DecodePlain(Model[t][f], Null)
        BY Documents DEF Decode2, DecodeField
      <4> QED
        BY <4>1, <4>2, ZenonT(30) DEF Fits2, FitsField
    <3>2. o[f] = Decode2(Model[t][f], Null)
      BY <2>2, <3>1
    <3> QED
      BY <3>1, <3>2, FieldReadsBack2, ZenonT(30)
  <2> QED
    BY <2>1, <2>2, ZenonT(30)
<1>3. DOMAIN o = DOMAIN Model[t] /\ o = [f \in DOMAIN Model[t] |-> o[f]]
  OBVIOUS
<1> HIDE DEF o
<1>4. EncodeModel(Encode2, t, Object(o)) = Object(w)
  BY Documents DEF EncodeModel
<1>5. /\ DOMAIN w \subseteq DOMAIN Model[t]
      /\ \A f \in DOMAIN w : /\ Fits2(Model[t][f], w[f])
                             /\ Decode2(Model[t][f], w[f]) = o[f]
      /\ \A f \in DOMAIN Model[t] \ DOMAIN w : o[f] = Null
  BY <1>2, <1>3 DEF ReadsBack, Omits
<1> HIDE DEF w
<1>6. FitsModel(Fits2, t, Object(o)) /\ FitsModel(Fits2, t, Object(w))
  BY <1>2, <1>3, <1>5, Documents, ZenonT(30) DEF FitsModel, ReadsBack
<1>7. DecodeModel(Decode2, t, Object(w)) = Object(o)
  <2>1. \A f \in DOMAIN Model[t] :
          o[f] = IF f \in DOMAIN w THEN Decode2(Model[t][f], w[f]) ELSE Null
    BY <1>5
  <2>2. o = [f \in DOMAIN Model[t] |->
               IF f \in DOMAIN w THEN Decode2(Model[t][f], w[f]) ELSE Null]
    BY <1>3, <2>1
  <2> QED
    BY <2>2, Documents DEF DecodeModel
<1> QED
  BY <1>1, <1>3, <1>4, <1>6, <1>7, Documents

\* What a field of level 3 was read into has its type and reads back.
LEMMA FieldReadsBack3 ==
  ASSUME NEW k, NEW v, Fits3(k, v)
  PROVE  ReadsBack(Fits3, Decode3, Encode3, k, Decode3(k, v))
<1>1. CASE FitsPlain(k, v)
  <2> DEFINE x == DecodePlain(k, v)
  <2>1. Decode3(k, v) = x /\ Encode3(k, x) = EncodePlain(k, x)
    BY <1>1, PlainReadsBack, ZenonT(30) DEF Decode3, DecodeField, Encode3, EncodeField
  <2>2. Decode3(k, EncodePlain(k, x)) = DecodePlain(k, EncodePlain(k, x))
    BY <1>1, PlainReadsBack, ZenonT(30) DEF Decode3, DecodeField
  <2>3. ReadsBack(FitsPlain, DecodePlain, EncodePlain, k, x)
    BY <1>1, PlainReadsBack, ZenonT(30)
  <2> QED
    BY <2>1, <2>2, <2>3 DEF ReadsBack, Fits3, FitsField
<1>2. CASE k.kind = "nested" /\ FitsModel(Fits2, k.of, v)
  <2> DEFINE x == DecodeModel(Decode2, k.of, v)
             e == EncodeModel(Encode2, k.of, x)
  <2>1. /\ x = Object(x.object) /\ FitsModel(Fits2, k.of, x)
        /\ e.json = "object" /\ FitsModel(Fits2, k.of, e)
        /\ DecodeModel(Decode2, k.of, e) = x
    BY <1>2, ModelReadsBack2
  <2>2. v.json = "object" /\ x.json = "object"
    BY <1>2, <2>1, Documents DEF FitsModel
  <2>3. Decode3(k, v) = x /\ Encode3(k, x) = e
    BY <2>2 DEF Decode3, DecodeField, Encode3, EncodeField
  <2> HIDE DEF x, e
  <2>4. Decode3(k, e) = x
    BY <2>1 DEF Decode3, DecodeField
  <2>5. Fits3(k, x) /\ Fits3(k, e)
    BY <1>2, <2>1 DEF Fits3, FitsField
  <2> QED
    BY <2>3, <2>4, <2>5 DEF ReadsBack
<1>3. CASE /\ k.kind = "each" /\ IsList(v)
           /\ \A i \in DOMAIN v.items : \/ v.items[i] = Null
                                        \/ FitsModel(Fits2, k.of, v.items[i])
  <2> DEFINE a == v.items
             x == [i \in DOMAIN a |-> DecodeModel(Decode2, k.of, a[i])]
             e == [i \in DOMAIN a |-> EncodeModel(Encode2, k.of, x[i])]
  <2>1. \A i \in DOMAIN a :
          /\ x[i] = Null \/ FitsModel(Fits2, k.of, x[i])
          /\ e[i] = Null \/ FitsModel(Fits2, k.of, e[i])
          /\ DecodeModel(Decode2, k.of, e[i]) = x[i]
    <3> SUFFICES ASSUME NEW i \in DOMAIN a
                 PROVE  /\ x[i] = Null \/ FitsModel(Fits2, k.of, x[i])
                        /\ e[i] = Null \/ FitsModel(Fits2, k.of, e[i])
                        /\ DecodeModel(Decode2, k.of, e[i]) = x[i]
      OBVIOUS
    <3>1. CASE a[i] = Null
      BY <3>1, ZenonT(30) DEF DecodeModel, EncodeModel
    <3>2. CASE FitsModel(Fits2, k.of, a[i])
      BY <3>2, ModelReadsBack2
    <3> QED
      BY <1>3, <3>1, <3>2
  <2>2. v.json = "array" /\ a \in Seq(Range(a))
    BY <1>3 DEF IsList
  <2>3. Decode3(k, v) = Array(x)
    BY <2>2 DEF Decode3, DecodeField
  <2>4. /\ DOMAIN x = DOMAIN a /\ x = [i \in DOMAIN a |-> x[i]]
        /\ DOMAIN e = DOMAIN a /\ e = [i \in DOMAIN a |-> e[i]]
    OBVIOUS
  <2> HIDE DEF x
  <2>5. Encode3(k, Array(x)) = Array(e)
    <3>1. Array(x).json = "array" /\ Array(x).items = x
      BY Documents
    <3>2. e = [i \in DOMAIN x |-> EncodeModel(Encode2, k.of, x[i])]
      BY <2>4
    <3> HIDE DEF e
    <3> QED
      BY <3>1, <3>2 DEF Encode3, EncodeField
  <2> HIDE DEF e
  <2>6. IsList(Array(x)) /\ IsList(Array(e))
    <3>1. x \in Seq(Range(x)) /\ e \in Seq(Range(e))
      BY <2>2, <2>4, MappedList, ZenonT(30)
    <3> QED
      BY <3>1, Documents DEF IsList
  <2>7. Fits3(k, Array(x)) /\ Fits3(k, Array(e))
    <3>1. Array(x).items = x /\ Array(e).items = e
      BY Documents
    <3> QED
      BY <1>3, <2>1, <2>4, <2>6, <3>1, ZenonT(30) DEF Fits3, FitsField
  <2>8. Decode3(k, Array(e)) = Array(x)
    <3>1. x = [i \in DOMAIN e |-> DecodeModel(Decode2, k.of, e[i])]
      BY <2>1, <2>4
    <3>2. Array(e).json = "array" /\ Array(e).items = e
      BY Documents
    <3> QED
      BY <3>1, <3>2, ZenonT(30) DEF Decode3, DecodeField
  <2> QED
    BY <2>3, <2>5, <2>7, <2>8 DEF ReadsBack
<1> QED
  BY <1>1, <1>2, <1>3, ZenonT(30) DEF Fits3, FitsField

\* A model that was read, of fields of level 3, has its type and reads back.
LEMMA ModelReadsBack3 ==
  ASSUME NEW t, NEW v, FitsModel(Fits3, t, v)
  PROVE  LET x == DecodeModel(Decode3, t, v)
             e == EncodeModel(Encode3, t, x)
         IN  /\ v # Null
             /\ x = Object(x.object) /\ DOMAIN x.object = DOMAIN Model[t]
             /\ FitsModel(Fits3, t, x)
             /\ e.json = "object" /\ e # Null /\ FitsModel(Fits3, t, e)
             /\ DecodeModel(Decode3, t, e) = x
<1> DEFINE o == [f \in DOMAIN Model[t] |->
                   IF f \in DOMAIN v.object
                   THEN Decode3(Model[t][f], v.object[f]) ELSE Null]
           kept == {g \in DOMAIN o : ~Omits(Model[t][g], o[g])}
           w == [f \in kept |-> Encode3(Model[t][f], o[f])]
<1>1. v # Null /\ DecodeModel(Decode3, t, v) = Object(o)
  BY Documents DEF FitsModel, DecodeModel
<1>2. \A f \in DOMAIN Model[t] :
        ReadsBack(Fits3, Decode3, Encode3, Model[t][f], o[f])
  <2> SUFFICES ASSUME NEW f \in DOMAIN Model[t]
               PROVE  ReadsBack(Fits3, Decode3, Encode3, Model[t][f], o[f])
    BY ZenonT(30)
  <2>1. CASE f \in DOMAIN v.object
    <3>1. Fits3(Model[t][f], v.object[f])
      BY <2>1 DEF FitsModel
    <3>2. o[f] = Decode3(Model[t][f], v.object[f])
      BY <2>1
    <3> QED
      BY <3>1, <3>2, FieldReadsBack3, ZenonT(30)
  <2>2. CASE f \notin DOMAIN v.object
    <3>1. Fits3(Model[t][f], Null) /\ Decode3(Model[t][f], Null) = Null
      <4>1. FitsPlain(Model[t][f], Null) /\ DecodePlain(Model[t][f], Null) = Null
        BY NullReadsBack
      <4>2. Decode3(Model[t][f], Null) = DecodePlain(Model[t][f], Null)
        BY Documents DEF Decode3, DecodeField
      <4> QED
        BY <4>1, <4>2, ZenonT(30) DEF Fits3, FitsField
    <3>2. o[f] = Decode3(Model[t][f], Null)
      BY <2>2, <3>1
    <3> QED
      BY <3>1, <3>2, FieldReadsBack3, ZenonT(30)
  <2> QED
    BY <2>1, <2>2, ZenonT(30)
<1>3. DOMAIN o = DOMAIN Model[t] /\ o = [f \in DOMAIN Model[t] |-> o[f]]
  OBVIOUS
<1> HIDE DEF o
<1>4. EncodeModel(Encode3, t, Object(o)) = Object(w)
  BY Documents DEF EncodeModel
<1>5. /\ DOMAIN w \subseteq DOMAIN Model[t]
      /\ \A f \in DOMAIN w : /\ Fits3(Model[t][f], w[f])
                             /\ Decode3(Model[t][f], w[f]) = o[f]
      /\ \A f \in DOMAIN Model[t] \ DOMAIN w : o[f] = Null
  BY <1>2, <1>3 DEF ReadsBack, Omits
<1> HIDE DEF w
<1>6. FitsModel(Fits3, t, Object(o)) /\ FitsModel(Fits3, t, Object(w))
  BY <1>2, <1>3, <1>5, Documents, ZenonT(30) DEF FitsModel, ReadsBack
<1>7. DecodeModel(Decode3, t, Object(w)) = Object(o)
  <2>1. \A f \in DOMAIN Model[t] :
          o[f] = IF f \in DOMAIN w THEN Decode3(Model[t][f], w[f]) ELSE Null
    BY <1>5
  <2>2. o = [f \in DOMAIN Model[t] |->
               IF f \in DOMAIN w THEN Decode3(Model[t][f], w[f]) ELSE Null]
    BY <1>3, <2>1
  <2> QED
    BY <2>2, Documents DEF DecodeModel
<1> QED
  BY <1>1, <1>3, <1>4, <1>6, <1>7, Documents

\* What a field of level 4 was read into has its type and reads back.
LEMMA FieldReadsBack4 ==
  ASSUME NEW k, NEW v, Fits4(k, v)
  PROVE  ReadsBack(Fits4, Decode4, Encode4, k, Decode4(k, v))
<1>1. CASE FitsPlain(k, v)
  <2> DEFINE x == DecodePlain(k, v)
  <2>1. Decode4(k, v) = x /\ Encode4(k, x) = EncodePlain(k, x)
    BY <1>1, PlainReadsBack, ZenonT(30) DEF Decode4, DecodeField, Encode4, EncodeField
  <2>2. Decode4(k, EncodePlain(k, x)) = DecodePlain(k, EncodePlain(k, x))
    BY <1>1, PlainReadsBack, ZenonT(30) DEF Decode4, DecodeField
  <2>3. ReadsBack(FitsPlain, DecodePlain, EncodePlain, k, x)
    BY <1>1, PlainReadsBack, ZenonT(30)
  <2> QED
    BY <2>1, <2>2, <2>3 DEF ReadsBack, Fits4, FitsField
<1>2. CASE k.kind = "nested" /\ FitsModel(Fits3, k.of, v)
  <2> DEFINE x == DecodeModel(Decode3, k.of, v)
             e == EncodeModel(Encode3, k.of, x)
  <2>1. /\ x = Object(x.object) /\ FitsModel(Fits3, k.of, x)
        /\ e.json = "object" /\ FitsModel(Fits3, k.of, e)
        /\ DecodeModel(Decode3, k.of, e) = x
    BY <1>2, ModelReadsBack3
  <2>2. v.json = "object" /\ x.json = "object"
    BY <1>2, <2>1, Documents DEF FitsModel
  <2>3. Decode4(k, v) = x /\ Encode4(k, x) = e
    BY <2>2 DEF Decode4, DecodeField, Encode4, EncodeField
  <2> HIDE DEF x, e
  <2>4. Decode4(k, e) = x
    BY <2>1 DEF Decode4, DecodeField
  <2>5. Fits4(k, x) /\ Fits4(k, e)
    BY <1>2, <2>1 DEF Fits4, FitsField
  <2> QED
    BY <2>3, <2>4, <2>5 DEF ReadsBack
<1>3. CASE /\ k.kind = "each" /\ IsList(v)
           /\ \A i \in DOMAIN v.items : \/ v.items[i] = Null
                                        \/ FitsModel(Fits3, k.of, v.items[i])
  <2> DEFINE a == v.items
             x == [i \in DOMAIN a |-> DecodeModel(Decode3, k.of, a[i])]
             e == [i \in DOMAIN a |-> EncodeModel(Encode3, k.of, x[i])]
  <2>1. \A i \in DOMAIN a :
          /\ x[i] = Null \/ FitsModel(Fits3, k.of, x[i])
          /\ e[i] = Null \/ FitsModel(Fits3, k.of, e[i])
          /\ DecodeModel(Decode3, k.of, e[i]) = x[i]
    <3> SUFFICES ASSUME NEW i \in DOMAIN a
                 PROVE  /\ x[i] = Null \/ FitsModel(Fits3, k.of, x[i])
                        /\ e[i] = Null \/ FitsModel(Fits3, k.of, e[i])
                        /\ DecodeModel(Decode3, k.of, e[i]) = x[i]
      OBVIOUS
    <3>1. CASE a[i] = Null
      BY <3>1, ZenonT(30) DEF DecodeModel, EncodeModel
    <3>2. CASE FitsModel(Fits3, k.of, a[i])
      BY <3>2, ModelReadsBack3
    <3> QED
      BY <1>3, <3>1, <3>2
  <2>2. v.json = "array" /\ a \in Seq(Range(a))
    BY <1>3 DEF IsList
  <2>3. Decode4(k, v) = Array(x)
    BY <2>2 DEF Decode4, DecodeField
  <2>4. /\ DOMAIN x = DOMAIN a /\ x = [i \in DOMAIN a |-> x[i]]
        /\ DOMAIN e = DOMAIN a /\ e = [i \in DOMAIN a |-> e[i]]
    OBVIOUS
  <2> HIDE DEF x
  <2>5. Encode4(k, Array(x)) = Array(e)
    <3>1. Array(x).json = "array" /\ Array(x).items = x
      BY Documents
    <3>2. e = [i \in DOMAIN x |-> EncodeModel(Encode3, k.of, x[i])]
      BY <2>4
    <3> HIDE DEF e
    <3> QED
      BY <3>1, <3>2 DEF Encode4, EncodeField
  <2> HIDE DEF e
  <2>6. IsList(Array(x)) /\ IsList(Array(e))
    <3>1. x \in Seq(Range(x)) /\ e \in Seq(Range(e))
      BY <2>2, <2>4, MappedList, ZenonT(30)
    <3> QED
      BY <3>1, Documents DEF IsList
  <2>7. Fits4(k, Array(x)) /\ Fits4(k, Array(e))
    <3>1. Array(x).items = x /\ Array(e).items = e
      BY Documents
    <3> QED
      BY <1>3, <2>1, <2>4, <2>6, <3>1, ZenonT(30) DEF Fits4, FitsField
  <2>8. Decode4(k, Array(e)) = Array(x)
    <3>1. x = [i \in DOMAIN e |-> DecodeModel(Decode3, k.of, e[i])]
      BY <2>1, <2>4
    <3>2. Array(e).json = "array" /\ Array(e).items = e
      BY Documents
    <3> QED
      BY <3>1, <3>2, ZenonT(30) DEF Decode4, DecodeField
  <2> QED
    BY <2>3, <2>5, <2>7, <2>8 DEF ReadsBack
<1> QED
  BY <1>1, <1>2, <1>3, ZenonT(30) DEF Fits4, FitsField

\* A model that was read, of fields of level 4, has its type and reads back.
LEMMA ModelReadsBack4 ==
  ASSUME NEW t, NEW v, FitsModel(Fits4, t, v)
  PROVE  LET x == DecodeModel(Decode4, t, v)
             e == EncodeModel(Encode4, t, x)
         IN  /\ v # Null
             /\ x = Object(x.object) /\ DOMAIN x.object = DOMAIN Model[t]
             /\ FitsModel(Fits4, t, x)
             /\ e.json = "object" /\ e # Null /\ FitsModel(Fits4, t, e)
             /\ DecodeModel(Decode4, t, e) = x
<1> DEFINE o == [f \in DOMAIN Model[t] |->
                   IF f \in DOMAIN v.object
                   THEN Decode4(Model[t][f], v.object[f]) ELSE Null]
           kept == {g \in DOMAIN o : ~Omits(Model[t][g], o[g])}
           w == [f \in kept |-> Encode4(Model[t][f], o[f])]
<1>1. v # Null /\ DecodeModel(Decode4, t, v) = Object(o)
  BY Documents DEF FitsModel, DecodeModel
<1>2. \A f \in DOMAIN Model[t] :
        ReadsBack(Fits4, Decode4, Encode4, Model[t][f], o[f])
  <2> SUFFICES ASSUME NEW f \in DOMAIN Model[t]
               PROVE  ReadsBack(Fits4, Decode4, Encode4, Model[t][f], o[f])
    BY ZenonT(30)
  <2>1. CASE f \in DOMAIN v.object
    <3>1. Fits4(Model[t][f], v.object[f])
      BY <2>1 DEF FitsModel
    <3>2. o[f] = Decode4(Model[t][f], v.object[f])
      BY <2>1
    <3> QED
      BY <3>1, <3>2, FieldReadsBack4, ZenonT(30)
  <2>2. CASE f \notin DOMAIN v.object
    <3>1. Fits4(Model[t][f], Null) /\ Decode4(Model[t][f], Null) = Null
      <4>1. FitsPlain(Model[t][f], Null) /\ DecodePlain(Model[t][f], Null) = Null
        BY NullReadsBack
      <4>2. Decode4(Model[t][f], Null) = DecodePlain(Model[t][f], Null)
        BY Documents DEF Decode4, DecodeField
      <4> QED
        BY <4>1, <4>2, ZenonT(30) DEF Fits4, FitsField
    <3>2. o[f] = Decode4(Model[t][f], Null)
      BY <2>2, <3>1
    <3> QED
      BY <3>1, <3>2, FieldReadsBack4, ZenonT(30)
  <2> QED
    BY <2>1, <2>2, ZenonT(30)
<1>3. DOMAIN o = DOMAIN Model[t] /\ o = [f \in DOMAIN Model[t] |-> o[f]]
  OBVIOUS
<1> HIDE DEF o
<1>4. EncodeModel(Encode4, t, Object(o)) = Object(w)
  BY Documents DEF EncodeModel
<1>5. /\ DOMAIN w \subseteq DOMAIN Model[t]
      /\ \A f \in DOMAIN w : /\ Fits4(Model[t][f], w[f])
                             /\ Decode4(Model[t][f], w[f]) = o[f]
      /\ \A f \in DOMAIN Model[t] \ DOMAIN w : o[f] = Null
  BY <1>2, <1>3 DEF ReadsBack, Omits
<1> HIDE DEF w
<1>6. FitsModel(Fits4, t, Object(o)) /\ FitsModel(Fits4, t, Object(w))
  BY <1>2, <1>3, <1>5, Documents, ZenonT(30) DEF FitsModel, ReadsBack
<1>7. DecodeModel(Decode4, t, Object(w)) = Object(o)
  <2>1. \A f \in DOMAIN Model[t] :
          o[f] = IF f \in DOMAIN w THEN Decode4(Model[t][f], w[f]) ELSE Null
    BY <1>5
  <2>2. o = [f \in DOMAIN Model[t] |->
               IF f \in DOMAIN w THEN Decode4(Model[t][f], w[f]) ELSE Null]
    BY <1>3, <2>1
  <2> QED
    BY <2>2, Documents DEF DecodeModel
<1> QED
  BY <1>1, <1>3, <1>4, <1>6, <1>7, Documents

-----------------------------------------------------------------------------
(* Validate().                                                              *)

\* A model was read from some document.
WasRead(F(_, _), D(_, _), t, x) == \E v : FitsModel(F, t, v) /\ x = DecodeModel(D, t, v)

\* What Validate() reports of some models.
Reported(V(_, _, _), parts) == UNION {ValidateModel(V, p[1], p[2]) : p \in parts}

\* What Validate() says of a field of kind k with the value y: it reports the field when
\* its rule is broken, and otherwise something exactly when it does of a model inside.
SaysOf(V(_, _, _), LV(_, _, _), k, f, y) ==
  /\ V(k, f, y) \subseteq {g \in {f} : Breaks(k, y)} \cup Reported(LV, Inside(k, y))
  /\ V(k, f, y) = {} => ~Breaks(k, y) /\ Reported(LV, Inside(k, y)) = {}

\* A plain field is reported exactly when it breaks its rule.
LEMMA PlainExact ==
  ASSUME NEW k, NEW f, NEW y
  PROVE  ValidatePlain(k, f, y) = {g \in {f} : Breaks(k, y)}
<1>1. CASE y = Null
  BY <1>1 DEF ValidatePlain, Breaks
<1>2. CASE y # Null /\ k.kind = "enum"
  BY <1>2 DEF ValidatePlain, Breaks
<1>3. CASE y # Null /\ k.kind = "between"
  BY <1>3 DEF ValidatePlain, Breaks
<1>4. CASE y # Null /\ k.kind \notin {"enum", "between"}
  BY <1>4 DEF ValidatePlain, Breaks
<1> QED
  BY <1>1, <1>2, <1>3, <1>4

\* Nothing is inside a plain field.
LEMMA PlainInside ==
  ASSUME NEW k, NEW v, FitsPlain(k, v)
  PROVE  Inside(k, v) = {}
BY DEF FitsPlain, Inside

\* A set of natural numbers that is not empty has a smallest one.
LEMMA MinIsIn ==
  ASSUME NEW S, S \subseteq Nat, S # {}
  PROVE  Min(S) \in S
<1>1. PICK x \in S : \A y \in S : ~(<<y, x>> \in OpToRel(<, Nat))
  BY NatLessThanWellFounded, WFMin, ZenonT(30)
<1>2. \A y \in S : x <= y
  <2> SUFFICES ASSUME NEW y \in S
               PROVE  x <= y
    OBVIOUS
  <2>1. x \in Nat /\ y \in Nat /\ <<y, x>> \in Nat \X Nat
    OBVIOUS
  <2>2. ~(y < x)
    BY <1>1, <2>1 DEF OpToRel
  <2> QED
    BY <2>1, <2>2
<1> QED
  BY <1>2, ZenonT(30) DEF Min

\* The fields of a model of the lowest level are plain: nothing is inside.
LEMMA NothingDeeper ==
  ASSUME NEW S, \A p \in S : WasRead(FitsPlain, DecodePlain, p[1], p[2])
  PROVE  Deeper(S) = {}
<1> SUFFICES ASSUME NEW p \in S, NEW f \in DOMAIN p[2].object
             PROVE  Inside(Model[p[1]][f], p[2].object[f]) = {}
  BY DEF Deeper
<1> DEFINE t == p[1]
           x == p[2]
<1>1. PICK v : FitsModel(FitsPlain, t, v) /\ x = DecodeModel(DecodePlain, t, v)
  BY ZenonT(30) DEF WasRead
<1>2. DOMAIN x.object = DOMAIN Model[t] /\ FitsModel(FitsPlain, t, x)
  BY <1>1, ModelReadsBack0, ZenonT(30)
<1>3. FitsPlain(Model[t][f], x.object[f])
  BY <1>2, ZenonT(30) DEF FitsModel
<1> QED
  BY <1>3, PlainInside, ZenonT(30)

\* At the lowest level Validate() reports the fields that break their rule.
LEMMA LevelExact0 ==
  ASSUME NEW S
  PROVE  Reported(ValidatePlain, S) = Broken(S)
<1>1. \A p \in S :
        ValidateModel(ValidatePlain, p[1], p[2])
          = {f \in DOMAIN p[2].object : Breaks(Model[p[1]][f], p[2].object[f])}
  BY PlainExact DEF ValidateModel
<1> QED
  BY <1>1, ZenonT(30) DEF Reported, Broken

\* What Validate() says of a field of level 1 that was read.
LEMMA FieldExact1 ==
  ASSUME NEW k, NEW f, NEW w, Fits1(k, w)
  PROVE  LET y == Decode1(k, w)
         IN  /\ SaysOf(Validate1, ValidatePlain, k, f, y)
             /\ \A q \in Inside(k, y) : WasRead(FitsPlain, DecodePlain, q[1], q[2])
<1> DEFINE y == Decode1(k, w)
<1>1. CASE FitsPlain(k, w)
  <2>1. y = DecodePlain(k, w) /\ FitsPlain(k, y)
    BY <1>1, PlainReadsBack, ZenonT(30) DEF Decode1, DecodeField, ReadsBack
  <2>2. Inside(k, y) = {} /\ Reported(ValidatePlain, {}) = {}
    BY <2>1, PlainInside, ZenonT(30) DEF Reported
  <2>3. y = Null \/ k.kind \notin {"nested", "each"}
    BY <2>1 DEF FitsPlain
  <2> HIDE DEF y
  <2>4. Validate1(k, f, y) = ValidatePlain(k, f, y)
    BY <2>3, ZenonT(30) DEF Validate1, ValidateField
  <2>5. Validate1(k, f, y) = {g \in {f} : Breaks(k, y)}
    BY <2>4, PlainExact
  <2>6. SaysOf(Validate1, ValidatePlain, k, f, y)
    BY <2>2, <2>5, ZenonT(30) DEF SaysOf
  <2> QED
    BY <2>2, <2>6, ZenonT(30) DEF y
<1>2. CASE k.kind = "nested" /\ FitsModel(FitsPlain, k.of, w)
  <2>1. y = DecodeModel(DecodePlain, k.of, w)
    BY <1>2 DEF Decode1, DecodeField, FitsModel
  <2>2. y # Null
    BY <1>2, <2>1, ModelReadsBack0, Documents
  <2>3. WasRead(FitsPlain, DecodePlain, k.of, y)
    BY <1>2, <2>1, ZenonT(30) DEF WasRead
  <2> HIDE DEF y
  <2>4. Inside(k, y) = {<<k.of, y>>} /\ ~Breaks(k, y)
    BY <1>2, <2>2 DEF Inside, Breaks
  <2>5. Validate1(k, f, y) = ValidateModel(ValidatePlain, k.of, y)
    BY <1>2, <2>2 DEF Validate1, ValidateField
  <2>6. Reported(ValidatePlain, {<<k.of, y>>}) = ValidateModel(ValidatePlain, k.of, y)
    BY DEF Reported
  <2>7. SaysOf(Validate1, ValidatePlain, k, f, y)
    BY <2>4, <2>5, <2>6, ZenonT(30) DEF SaysOf
  <2>8. \A q \in Inside(k, y) : WasRead(FitsPlain, DecodePlain, q[1], q[2])
    BY <2>3, <2>4
  <2> QED
    BY <2>7, <2>8, ZenonT(30) DEF y
<1>3. CASE /\ k.kind = "each" /\ IsList(w)
           /\ \A i \in DOMAIN w.items : \/ w.items[i] = Null
                                        \/ FitsModel(FitsPlain, k.of, w.items[i])
  <2> DEFINE a == y.items
             failing == {i \in Checked(a) : ValidateModel(ValidatePlain, k.of, a[i]) # {}}
  <2>1. /\ y # Null /\ DOMAIN a = DOMAIN w.items
        /\ \A i \in DOMAIN a : a[i] = DecodeModel(DecodePlain, k.of, w.items[i])
    BY <1>3, Documents DEF Decode1, DecodeField, IsList
  <2>2. DOMAIN a \subseteq Nat
    BY <1>3, <2>1 DEF IsList
  <2>3. \A i \in DOMAIN a : a[i] = Null \/ WasRead(FitsPlain, DecodePlain, k.of, a[i])
    BY <1>3, <2>1, ZenonT(30) DEF WasRead, DecodeModel
  <2> HIDE DEF y
  <2>4. Inside(k, y) = {<<k.of, a[i]>> : i \in Checked(a)} /\ ~Breaks(k, y)
    BY <1>3, <2>1 DEF Inside, Breaks, Checked, Range
  <2>5. Validate1(k, f, y) =
          IF failing = {} THEN {} ELSE ValidateModel(ValidatePlain, k.of, a[Min(failing)])
    BY <1>3, <2>1, ZenonT(30) DEF Validate1, ValidateField
  <2>6. \A q \in Inside(k, y) : WasRead(FitsPlain, DecodePlain, q[1], q[2])
    BY <2>3, <2>4 DEF Checked
  <2>7. \A g : g \in Reported(ValidatePlain, Inside(k, y))
               <=> \E i \in Checked(a) : g \in ValidateModel(ValidatePlain, k.of, a[i])
    <3> HIDE DEF a
    <3>1. \A g : g \in Reported(ValidatePlain, Inside(k, y))
                 <=> \E q \in Inside(k, y) : g \in ValidateModel(ValidatePlain, q[1], q[2])
      BY DEF Reported
    <3>2. \A q : q \in Inside(k, y) <=> \E i \in Checked(a) : q = <<k.of, a[i]>>
      BY <2>4
    <3>3. ASSUME NEW g, NEW q \in Inside(k, y), g \in ValidateModel(ValidatePlain, q[1], q[2])
          PROVE  \E i \in Checked(a) : g \in ValidateModel(ValidatePlain, k.of, a[i])
      <4>1. PICK i \in Checked(a) : q = <<k.of, a[i]>>
        BY <3>2
      <4>2. q[1] = k.of /\ q[2] = a[i]
        BY <4>1
      <4> QED
        BY <3>3, <4>2, ZenonT(30)
    <3>4. ASSUME NEW g, NEW i \in Checked(a), g \in ValidateModel(ValidatePlain, k.of, a[i])
          PROVE  \E q \in Inside(k, y) : g \in ValidateModel(ValidatePlain, q[1], q[2])
      <4> DEFINE q == <<k.of, a[i]>>
      <4>1. q \in Inside(k, y) /\ q[1] = k.of /\ q[2] = a[i]
        BY <3>2
      <4> HIDE DEF q
      <4> QED
        BY <3>4, <4>1, ZenonT(30)
    <3> QED
      BY <3>1, <3>3, <3>4, ZenonT(30)
  <2>8. failing # {} => Min(failing) \in failing
    <3>1. failing \subseteq Nat
      BY <2>2 DEF Checked
    <3> HIDE DEF failing
    <3> QED
      BY <3>1, MinIsIn, ZenonT(30)
  <2>9. failing # {} => Min(failing) \in Checked(a)
                        /\ ValidateModel(ValidatePlain, k.of, a[Min(failing)]) # {}
    BY <2>8, ZenonT(30)
  <2>10. failing = {} => \A i \in Checked(a) : ValidateModel(ValidatePlain, k.of, a[i]) = {}
    OBVIOUS
  <2> HIDE DEF failing, a
  <2>11. /\ Validate1(k, f, y) \subseteq Reported(ValidatePlain, Inside(k, y))
         /\ Validate1(k, f, y) = {} => Reported(ValidatePlain, Inside(k, y)) = {}
    BY <2>5, <2>7, <2>9, <2>10, ZenonT(30)
  <2>12. SaysOf(Validate1, ValidatePlain, k, f, y)
    BY <2>4, <2>11, ZenonT(30) DEF SaysOf
  <2> QED
    BY <2>6, <2>12, ZenonT(30) DEF y
<1> QED
  BY <1>1, <1>2, <1>3, ZenonT(30) DEF Fits1, FitsField

\* What Validate() says of models of level 1 that were read: it reports what breaks its
\* rule and what it reports of the models inside, and something if there is either.
LEMMA LevelExact1 ==
  ASSUME NEW S, \A p \in S : WasRead(Fits1, Decode1, p[1], p[2])
  PROVE  /\ Reported(Validate1, S) \subseteq Broken(S) \cup Reported(ValidatePlain, Deeper(S))
         /\ Reported(Validate1, S) = {} =>
              Broken(S) = {} /\ Reported(ValidatePlain, Deeper(S)) = {}
         /\ \A q \in Deeper(S) : WasRead(FitsPlain, DecodePlain, q[1], q[2])
<1>1. ASSUME NEW p \in S, NEW f \in DOMAIN p[2].object
      PROVE  /\ SaysOf(Validate1, ValidatePlain, Model[p[1]][f], f, p[2].object[f])
             /\ \A q \in Inside(Model[p[1]][f], p[2].object[f]) :
                  WasRead(FitsPlain, DecodePlain, q[1], q[2])
  <2> DEFINE k == Model[p[1]][f]
  <2>1. PICK v : FitsModel(Fits1, p[1], v) /\ p[2] = DecodeModel(Decode1, p[1], v)
    BY ZenonT(30) DEF WasRead
  <2>2. /\ DOMAIN p[2].object = DOMAIN Model[p[1]]
        /\ p[2].object[f] = IF f \in DOMAIN v.object THEN Decode1(k, v.object[f]) ELSE Null
    <3>1. v # Null /\ DOMAIN p[2].object = DOMAIN Model[p[1]]
      BY <2>1, ModelReadsBack1, ZenonT(30)
    <3> QED
      BY <2>1, <3>1, Documents DEF DecodeModel
  <2>3. Fits1(k, Null) /\ Decode1(k, Null) = Null
    <3>1. FitsPlain(k, Null) /\ DecodePlain(k, Null) = Null
      BY NullReadsBack
    <3>2. Decode1(k, Null) = DecodePlain(k, Null)
      BY Documents, ZenonT(30) DEF Decode1, DecodeField
    <3> QED
      BY <3>1, <3>2, ZenonT(30) DEF Fits1, FitsField
  <2>4. \E w : Fits1(k, w) /\ p[2].object[f] = Decode1(k, w)
    BY <2>1, <2>2, <2>3, ZenonT(30) DEF FitsModel
  <2> HIDE DEF k
  <2>5. PICK w : Fits1(k, w) /\ p[2].object[f] = Decode1(k, w)
    BY <2>4, ZenonT(30)
  <2> QED
    BY <2>5, FieldExact1, ZenonT(30) DEF k
<1> DEFINE Says(p, f) == Validate1(Model[p[1]][f], f, p[2].object[f])
           Below(p, f) == Reported(ValidatePlain, Inside(Model[p[1]][f], p[2].object[f]))
<1>2. \A g : g \in Reported(Validate1, S)
             <=> \E p \in S : \E f \in DOMAIN p[2].object : g \in Says(p, f)
  BY DEF Reported, ValidateModel
<1>3. \A g : g \in Reported(ValidatePlain, Deeper(S))
             <=> \E p \in S : \E f \in DOMAIN p[2].object : g \in Below(p, f)
  BY DEF Reported, Deeper
<1>4. \A g : g \in Broken(S) <=> \E p \in S : /\ g \in DOMAIN p[2].object
                                              /\ Breaks(Model[p[1]][g], p[2].object[g])
  BY DEF Broken
<1>5. \A p \in S : \A f \in DOMAIN p[2].object :
        /\ Says(p, f) \subseteq {g \in {f} : Breaks(Model[p[1]][f], p[2].object[f])}
                                 \cup Below(p, f)
        /\ Says(p, f) = {} => ~Breaks(Model[p[1]][f], p[2].object[f]) /\ Below(p, f) = {}
  BY <1>1, ZenonT(30) DEF SaysOf
<1>6. \A q \in Deeper(S) : WasRead(FitsPlain, DecodePlain, q[1], q[2])
  BY <1>1 DEF Deeper
<1> HIDE DEF Says, Below
<1>7. ASSUME NEW g \in Reported(Validate1, S), g \notin Broken(S)
      PROVE  g \in Reported(ValidatePlain, Deeper(S))
  <2>1. PICK p \in S : \E f \in DOMAIN p[2].object : g \in Says(p, f)
    BY <1>2, <1>7, ZenonT(30)
  <2>2. PICK f \in DOMAIN p[2].object : g \in Says(p, f)
    BY <2>1, ZenonT(30)
  <2>3. ~Breaks(Model[p[1]][g], p[2].object[g]) \/ g # f
    BY <1>4, <1>7, <2>2, ZenonT(30)
  <2>4. g \in Below(p, f)
    BY <1>5, <2>2, <2>3, ZenonT(30)
  <2> QED
    BY <1>3, <2>2, <2>4, ZenonT(30)
<1>8. ASSUME Reported(Validate1, S) = {}
      PROVE  Broken(S) = {} /\ Reported(ValidatePlain, Deeper(S)) = {}
  <2>1. \A p \in S : \A f \in DOMAIN p[2].object :
          ~Breaks(Model[p[1]][f], p[2].object[f]) /\ Below(p, f) = {}
    BY <1>2, <1>5, <1>8, ZenonT(30)
  <2> QED
    BY <1>3, <1>4, <2>1, ZenonT(30)
<1> QED
  BY <1>6, <1>7, <1>8, ZenonT(30)

\* What Validate() says of a field of level 2 that was read.
LEMMA FieldExact2 ==
  ASSUME NEW k, NEW f, NEW w, Fits2(k, w)
  PROVE  LET y == Decode2(k, w)
         IN  /\ SaysOf(Validate2, Validate1, k, f, y)
             /\ \A q \in Inside(k, y) : WasRead(Fits1, Decode1, q[1], q[2])
<1> DEFINE y == Decode2(k, w)
<1>1. CASE FitsPlain(k, w)
  <2>1. y = DecodePlain(k, w) /\ FitsPlain(k, y)
    BY <1>1, PlainReadsBack, ZenonT(30) DEF Decode2, DecodeField, ReadsBack
  <2>2. Inside(k, y) = {} /\ Reported(Validate1, {}) = {}
    BY <2>1, PlainInside, ZenonT(30) DEF Reported
  <2>3. y = Null \/ k.kind \notin {"nested", "each"}
    BY <2>1 DEF FitsPlain
  <2> HIDE DEF y
  <2>4. Validate2(k, f, y) = ValidatePlain(k, f, y)
    BY <2>3, ZenonT(30) DEF Validate2, ValidateField
  <2>5. Validate2(k, f, y) = {g \in {f} : Breaks(k, y)}
    BY <2>4, PlainExact
  <2>6. SaysOf(Validate2, Validate1, k, f, y)
    BY <2>2, <2>5, ZenonT(30) DEF SaysOf
  <2> QED
    BY <2>2, <2>6, ZenonT(30) DEF y
<1>2. CASE k.kind = "nested" /\ FitsModel(Fits1, k.of, w)
  <2>1. y = DecodeModel(Decode1, k.of, w)
    BY <1>2 DEF Decode2, DecodeField, FitsModel
  <2>2. y # Null
    BY <1>2, <2>1, ModelReadsBack1, Documents
  <2>3. WasRead(Fits1, Decode1, k.of, y)
    BY <1>2, <2>1, ZenonT(30) DEF WasRead
  <2> HIDE DEF y
  <2>4. Inside(k, y) = {<<k.of, y>>} /\ ~Breaks(k, y)
    BY <1>2, <2>2 DEF Inside, Breaks
  <2>5. Validate2(k, f, y) = ValidateModel(Validate1, k.of, y)
    BY <1>2, <2>2 DEF Validate2, ValidateField
  <2>6. Reported(Validate1, {<<k.of, y>>}) = ValidateModel(Validate1, k.of, y)
    BY DEF Reported
  <2>7. SaysOf(Validate2, Validate1, k, f, y)
    BY <2>4, <2>5, <2>6, ZenonT(30) DEF SaysOf
  <2>8. \A q \in Inside(k, y) : WasRead(Fits1, Decode1, q[1], q[2])
    BY <2>3, <2>4
  <2> QED
    BY <2>7, <2>8, ZenonT(30) DEF y
<1>3. CASE /\ k.kind = "each" /\ IsList(w)
           /\ \A i \in DOMAIN w.items : \/ w.items[i] = Null
                                        \/ FitsModel(Fits1, k.of, w.items[i])
  <2> DEFINE a == y.items
             failing == {i \in Checked(a) : ValidateModel(Validate1, k.of, a[i]) # {}}
  <2>1. /\ y # Null /\ DOMAIN a = DOMAIN w.items
        /\ \A i \in DOMAIN a : a[i] = DecodeModel(Decode1, k.of, w.items[i])
    BY <1>3, Documents DEF Decode2, DecodeField, IsList
  <2>2. DOMAIN a \subseteq Nat
    BY <1>3, <2>1 DEF IsList
  <2>3. \A i \in DOMAIN a : a[i] = Null \/ WasRead(Fits1, Decode1, k.of, a[i])
    BY <1>3, <2>1, ZenonT(30) DEF WasRead, DecodeModel
  <2> HIDE DEF y
  <2>4. Inside(k, y) = {<<k.of, a[i]>> : i \in Checked(a)} /\ ~Breaks(k, y)
    BY <1>3, <2>1 DEF Inside, Breaks, Checked, Range
  <2>5. Validate2(k, f, y) =
          IF failing = {} THEN {} ELSE ValidateModel(Validate1, k.of, a[Min(failing)])
    BY <1>3, <2>1, ZenonT(30) DEF Validate2, ValidateField
  <2>6. \A q \in Inside(k, y) : WasRead(Fits1, Decode1, q[1], q[2])
    BY <2>3, <2>4 DEF Checked
  <2>7. \A g : g \in Reported(Validate1, Inside(k, y))
               <=> \E i \in Checked(a) : g \in ValidateModel(Validate1, k.of, a[i])
    <3> HIDE DEF a
    <3>1. \A g : g \in Reported(Validate1, Inside(k, y))
                 <=> \E q \in Inside(k, y) : g \in ValidateModel(Validate1, q[1], q[2])
      BY DEF Reported
    <3>2. \A q : q \in Inside(k, y) <=> \E i \in Checked(a) : q = <<k.of, a[i]>>
      BY <2>4
    <3>3. ASSUME NEW g, NEW q \in Inside(k, y), g \in ValidateModel(Validate1, q[1], q[2])
          PROVE  \E i \in Checked(a) : g \in ValidateModel(Validate1, k.of, a[i])
      <4>1. PICK i \in Checked(a) : q = <<k.of, a[i]>>
        BY <3>2
      <4>2. q[1] = k.of /\ q[2] = a[i]
        BY <4>1
      <4> QED
        BY <3>3, <4>2, ZenonT(30)
    <3>4. ASSUME NEW g, NEW i \in Checked(a), g \in ValidateModel(Validate1, k.of, a[i])
          PROVE  \E q \in Inside(k, y) : g \in ValidateModel(Validate1, q[1], q[2])
      <4> DEFINE q == <<k.of, a[i]>>
      <4>1. q \in Inside(k, y) /\ q[1] = k.of /\ q[2] = a[i]
        BY <3>2
      <4> HIDE DEF q
      <4> QED
        BY <3>4, <4>1, ZenonT(30)
    <3> QED
      BY <3>1, <3>3, <3>4, ZenonT(30)
  <2>8. failing # {} => Min(failing) \in failing
    <3>1. failing \subseteq Nat
      BY <2>2 DEF Checked
    <3> HIDE DEF failing
    <3> QED
      BY <3>1, MinIsIn, ZenonT(30)
  <2>9. failing # {} => Min(failing) \in Checked(a)
                        /\ ValidateModel(Validate1, k.of, a[Min(failing)]) # {}
    BY <2>8, ZenonT(30)
  <2>10. failing = {} => \A i \in Checked(a) : ValidateModel(Validate1, k.of, a[i]) = {}
    OBVIOUS
  <2> HIDE DEF failing, a
  <2>11. /\ Validate2(k, f, y) \subseteq Reported(Validate1, Inside(k, y))
         /\ Validate2(k, f, y) = {} => Reported(Validate1, Inside(k, y)) = {}
    BY <2>5, <2>7, <2>9, <2>10, ZenonT(30)
  <2>12. SaysOf(Validate2, Validate1, k, f, y)
    BY <2>4, <2>11, ZenonT(30) DEF SaysOf
  <2> QED
    BY <2>6, <2>12, ZenonT(30) DEF y
<1> QED
  BY <1>1, <1>2, <1>3, ZenonT(30) DEF Fits2, FitsField

\* What Validate() says of models of level 2 that were read: it reports what breaks its
\* rule and what it reports of the models inside, and something if there is either.
LEMMA LevelExact2 ==
  ASSUME NEW S, \A p \in S : WasRead(Fits2, Decode2, p[1], p[2])
  PROVE  /\ Reported(Validate2, S) \subseteq Broken(S) \cup Reported(Validate1, Deeper(S))
         /\ Reported(Validate2, S) = {} =>
              Broken(S) = {} /\ Reported(Validate1, Deeper(S)) = {}
         /\ \A q \in Deeper(S) : WasRead(Fits1, Decode1, q[1], q[2])
<1>1. ASSUME NEW p \in S, NEW f \in DOMAIN p[2].object
      PROVE  /\ SaysOf(Validate2, Validate1, Model[p[1]][f], f, p[2].object[f])
             /\ \A q \in Inside(Model[p[1]][f], p[2].object[f]) :
                  WasRead(Fits1, Decode1, q[1], q[2])
  <2> DEFINE k == Model[p[1]][f]
  <2>1. PICK v : FitsModel(Fits2, p[1], v) /\ p[2] = DecodeModel(Decode2, p[1], v)
    BY ZenonT(30) DEF WasRead
  <2>2. /\ DOMAIN p[2].object = DOMAIN Model[p[1]]
        /\ p[2].object[f] = IF f \in DOMAIN v.object THEN Decode2(k, v.object[f]) ELSE Null
    <3>1. v # Null /\ DOMAIN p[2].object = DOMAIN Model[p[1]]
      BY <2>1, ModelReadsBack2, ZenonT(30)
    <3> QED
      BY <2>1, <3>1, Documents DEF DecodeModel
  <2>3. Fits2(k, Null) /\ Decode2(k, Null) = Null
    <3>1. FitsPlain(k, Null) /\ DecodePlain(k, Null) = Null
      BY NullReadsBack
    <3>2. Decode2(k, Null) = DecodePlain(k, Null)
      BY Documents, ZenonT(30) DEF Decode2, DecodeField
    <3> QED
      BY <3>1, <3>2, ZenonT(30) DEF Fits2, FitsField
  <2>4. \E w : Fits2(k, w) /\ p[2].object[f] = Decode2(k, w)
    BY <2>1, <2>2, <2>3, ZenonT(30) DEF FitsModel
  <2> HIDE DEF k
  <2>5. PICK w : Fits2(k, w) /\ p[2].object[f] = Decode2(k, w)
    BY <2>4, ZenonT(30)
  <2> QED
    BY <2>5, FieldExact2, ZenonT(30) DEF k
<1> DEFINE Says(p, f) == Validate2(Model[p[1]][f], f, p[2].object[f])
           Below(p, f) == Reported(Validate1, Inside(Model[p[1]][f], p[2].object[f]))
<1>2. \A g : g \in Reported(Validate2, S)
             <=> \E p \in S : \E f \in DOMAIN p[2].object : g \in Says(p, f)
  BY DEF Reported, ValidateModel
<1>3. \A g : g \in Reported(Validate1, Deeper(S))
             <=> \E p \in S : \E f \in DOMAIN p[2].object : g \in Below(p, f)
  BY DEF Reported, Deeper
<1>4. \A g : g \in Broken(S) <=> \E p \in S : /\ g \in DOMAIN p[2].object
                                              /\ Breaks(Model[p[1]][g], p[2].object[g])
  BY DEF Broken
<1>5. \A p \in S : \A f \in DOMAIN p[2].object :
        /\ Says(p, f) \subseteq {g \in {f} : Breaks(Model[p[1]][f], p[2].object[f])}
                                 \cup Below(p, f)
        /\ Says(p, f) = {} => ~Breaks(Model[p[1]][f], p[2].object[f]) /\ Below(p, f) = {}
  BY <1>1, ZenonT(30) DEF SaysOf
<1>6. \A q \in Deeper(S) : WasRead(Fits1, Decode1, q[1], q[2])
  BY <1>1 DEF Deeper
<1> HIDE DEF Says, Below
<1>7. ASSUME NEW g \in Reported(Validate2, S), g \notin Broken(S)
      PROVE  g \in Reported(Validate1, Deeper(S))
  <2>1. PICK p \in S : \E f \in DOMAIN p[2].object : g \in Says(p, f)
    BY <1>2, <1>7, ZenonT(30)
  <2>2. PICK f \in DOMAIN p[2].object : g \in Says(p, f)
    BY <2>1, ZenonT(30)
  <2>3. ~Breaks(Model[p[1]][g], p[2].object[g]) \/ g # f
    BY <1>4, <1>7, <2>2, ZenonT(30)
  <2>4. g \in Below(p, f)
    BY <1>5, <2>2, <2>3, ZenonT(30)
  <2> QED
    BY <1>3, <2>2, <2>4, ZenonT(30)
<1>8. ASSUME Reported(Validate2, S) = {}
      PROVE  Broken(S) = {} /\ Reported(Validate1, Deeper(S)) = {}
  <2>1. \A p \in S : \A f \in DOMAIN p[2].object :
          ~Breaks(Model[p[1]][f], p[2].object[f]) /\ Below(p, f) = {}
    BY <1>2, <1>5, <1>8, ZenonT(30)
  <2> QED
    BY <1>3, <1>4, <2>1, ZenonT(30)
<1> QED
  BY <1>6, <1>7, <1>8, ZenonT(30)

\* What Validate() says of a field of level 3 that was read.
LEMMA FieldExact3 ==
  ASSUME NEW k, NEW f, NEW w, Fits3(k, w)
  PROVE  LET y == Decode3(k, w)
         IN  /\ SaysOf(Validate3, Validate2, k, f, y)
             /\ \A q \in Inside(k, y) : WasRead(Fits2, Decode2, q[1], q[2])
<1> DEFINE y == Decode3(k, w)
<1>1. CASE FitsPlain(k, w)
  <2>1. y = DecodePlain(k, w) /\ FitsPlain(k, y)
    BY <1>1, PlainReadsBack, ZenonT(30) DEF Decode3, DecodeField, ReadsBack
  <2>2. Inside(k, y) = {} /\ Reported(Validate2, {}) = {}
    BY <2>1, PlainInside, ZenonT(30) DEF Reported
  <2>3. y = Null \/ k.kind \notin {"nested", "each"}
    BY <2>1 DEF FitsPlain
  <2> HIDE DEF y
  <2>4. Validate3(k, f, y) = ValidatePlain(k, f, y)
    BY <2>3, ZenonT(30) DEF Validate3, ValidateField
  <2>5. Validate3(k, f, y) = {g \in {f} : Breaks(k, y)}
    BY <2>4, PlainExact
  <2>6. SaysOf(Validate3, Validate2, k, f, y)
    BY <2>2, <2>5, ZenonT(30) DEF SaysOf
  <2> QED
    BY <2>2, <2>6, ZenonT(30) DEF y
<1>2. CASE k.kind = "nested" /\ FitsModel(Fits2, k.of, w)
  <2>1. y = DecodeModel(Decode2, k.of, w)
    BY <1>2 DEF Decode3, DecodeField, FitsModel
  <2>2. y # Null
    BY <1>2, <2>1, ModelReadsBack2, Documents
  <2>3. WasRead(Fits2, Decode2, k.of, y)
    BY <1>2, <2>1, ZenonT(30) DEF WasRead
  <2> HIDE DEF y
  <2>4. Inside(k, y) = {<<k.of, y>>} /\ ~Breaks(k, y)
    BY <1>2, <2>2 DEF Inside, Breaks
  <2>5. Validate3(k, f, y) = ValidateModel(Validate2, k.of, y)
    BY <1>2, <2>2 DEF Validate3, ValidateField
  <2>6. Reported(Validate2, {<<k.of, y>>}) = ValidateModel(Validate2, k.of, y)
    BY DEF Reported
  <2>7. SaysOf(Validate3, Validate2, k, f, y)
    BY <2>4, <2>5, <2>6, ZenonT(30) DEF SaysOf
  <2>8. \A q \in Inside(k, y) : WasRead(Fits2, Decode2, q[1], q[2])
    BY <2>3, <2>4
  <2> QED
    BY <2>7, <2>8, ZenonT(30) DEF y
<1>3. CASE /\ k.kind = "each" /\ IsList(w)
           /\ \A i \in DOMAIN w.items : \/ w.items[i] = Null
                                        \/ FitsModel(Fits2, k.of, w.items[i])
  <2> DEFINE a == y.items
             failing == {i \in Checked(a) : ValidateModel(Validate2, k.of, a[i]) # {}}
  <2>1. /\ y # Null /\ DOMAIN a = DOMAIN w.items
        /\ \A i \in DOMAIN a : a[i] = DecodeModel(Decode2, k.of, w.items[i])
    BY <1>3, Documents DEF Decode3, DecodeField, IsList
  <2>2. DOMAIN a \subseteq Nat
    BY <1>3, <2>1 DEF IsList
  <2>3. \A i \in DOMAIN a : a[i] = Null \/ WasRead(Fits2, Decode2, k.of, a[i])
    BY <1>3, <2>1, ZenonT(30) DEF WasRead, DecodeModel
  <2> HIDE DEF y
  <2>4. Inside(k, y) = {<<k.of, a[i]>> : i \in Checked(a)} /\ ~Breaks(k, y)
    BY <1>3, <2>1 DEF Inside, Breaks, Checked, Range
  <2>5. Validate3(k, f, y) =
          IF failing = {} THEN {} ELSE ValidateModel(Validate2, k.of, a[Min(failing)])
    BY <1>3, <2>1, ZenonT(30) DEF Validate3, ValidateField
  <2>6. \A q \in Inside(k, y) : WasRead(Fits2, Decode2, q[1], q[2])
    BY <2>3, <2>4 DEF Checked
  <2>7. \A g : g \in Reported(Validate2, Inside(k, y))
               <=> \E i \in Checked(a) : g \in ValidateModel(Validate2, k.of, a[i])
    <3> HIDE DEF a
    <3>1. \A g : g \in Reported(Validate2, Inside(k, y))
                 <=> \E q \in Inside(k, y) : g \in ValidateModel(Validate2, q[1], q[2])
      BY DEF Reported
    <3>2. \A q : q \in Inside(k, y) <=> \E i \in Checked(a) : q = <<k.of, a[i]>>
      BY <2>4
    <3>3. ASSUME NEW g, NEW q \in Inside(k, y), g \in ValidateModel(Validate2, q[1], q[2])
          PROVE  \E i \in Checked(a) : g \in ValidateModel(Validate2, k.of, a[i])
      <4>1. PICK i \in Checked(a) : q = <<k.of, a[i]>>
        BY <3>2
      <4>2. q[1] = k.of /\ q[2] = a[i]
        BY <4>1
      <4> QED
        BY <3>3, <4>2, ZenonT(30)
    <3>4. ASSUME NEW g, NEW i \in Checked(a), g \in ValidateModel(Validate2, k.of, a[i])
          PROVE  \E q \in Inside(k, y) : g \in ValidateModel(Validate2, q[1], q[2])
      <4> DEFINE q == <<k.of, a[i]>>
      <4>1. q \in Inside(k, y) /\ q[1] = k.of /\ q[2] = a[i]
        BY <3>2
      <4> HIDE DEF q
      <4> QED
        BY <3>4, <4>1, ZenonT(30)
    <3> QED
      BY <3>1, <3>3, <3>4, ZenonT(30)
  <2>8. failing # {} => Min(failing) \in failing
    <3>1. failing \subseteq Nat
      BY <2>2 DEF Checked
    <3> HIDE DEF failing
    <3> QED
      BY <3>1, MinIsIn, ZenonT(30)
  <2>9. failing # {} => Min(failing) \in Checked(a)
                        /\ ValidateModel(Validate2, k.of, a[Min(failing)]) # {}
    BY <2>8, ZenonT(30)
  <2>10. failing = {} => \A i \in Checked(a) : ValidateModel(Validate2, k.of, a[i]) = {}
    OBVIOUS
  <2> HIDE DEF failing, a
  <2>11. /\ Validate3(k, f, y) \subseteq Reported(Validate2, Inside(k, y))
         /\ Validate3(k, f, y) = {} => Reported(Validate2, Inside(k, y)) = {}
    BY <2>5, <2>7, <2>9, <2>10, ZenonT(30)
  <2>12. SaysOf(Validate3, Validate2, k, f, y)
    BY <2>4, <2>11, ZenonT(30) DEF SaysOf
  <2> QED
    BY <2>6, <2>12, ZenonT(30) DEF y
<1> QED
  BY <1>1, <1>2, <1>3, ZenonT(30) DEF Fits3, FitsField

\* What Validate() says of models of level 3 that were read: it reports what breaks its
\* rule and what it reports of the models inside, and something if there is either.
LEMMA LevelExact3 ==
  ASSUME NEW S, \A p \in S : WasRead(Fits3, Decode3, p[1], p[2])
  PROVE  /\ Reported(Validate3, S) \subseteq Broken(S) \cup Reported(Validate2, Deeper(S))
         /\ Reported(Validate3, S) = {} =>
              Broken(S) = {} /\ Reported(Validate2, Deeper(S)) = {}
         /\ \A q \in Deeper(S) : WasRead(Fits2, Decode2, q[1], q[2])
<1>1. ASSUME NEW p \in S, NEW f \in DOMAIN p[2].object
      PROVE  /\ SaysOf(Validate3, Validate2, Model[p[1]][f], f, p[2].object[f])
             /\ \A q \in Inside(Model[p[1]][f], p[2].object[f]) :
                  WasRead(Fits2, Decode2, q[1], q[2])
  <2> DEFINE k == Model[p[1]][f]
  <2>1. PICK v : FitsModel(Fits3, p[1], v) /\ p[2] = DecodeModel(Decode3, p[1], v)
    BY ZenonT(30) DEF WasRead
  <2>2. /\ DOMAIN p[2].object = DOMAIN Model[p[1]]
        /\ p[2].object[f] = IF f \in DOMAIN v.object THEN Decode3(k, v.object[f]) ELSE Null
    <3>1. v # Null /\ DOMAIN p[2].object = DOMAIN Model[p[1]]
      BY <2>1, ModelReadsBack3, ZenonT(30)
    <3> QED
      BY <2>1, <3>1, Documents DEF DecodeModel
  <2>3. Fits3(k, Null) /\ Decode3(k, Null) = Null
    <3>1. FitsPlain(k, Null) /\ DecodePlain(k, Null) = Null
      BY NullReadsBack
    <3>2. Decode3(k, Null) = DecodePlain(k, Null)
      BY Documents, ZenonT(30) DEF Decode3, DecodeField
    <3> QED
      BY <3>1, <3>2, ZenonT(30) DEF Fits3, FitsField
  <2>4. \E w : Fits3(k, w) /\ p[2].object[f] = Decode3(k, w)
    BY <2>1, <2>2, <2>3, ZenonT(30) DEF FitsModel
  <2> HIDE DEF k
  <2>5. PICK w : Fits3(k, w) /\ p[2].object[f] = Decode3(k, w)
    BY <2>4, ZenonT(30)
  <2> QED
    BY <2>5, FieldExact3, ZenonT(30) DEF k
<1> DEFINE Says(p, f) == Validate3(Model[p[1]][f], f, p[2].object[f])
           Below(p, f) == Reported(Validate2, Inside(Model[p[1]][f], p[2].object[f]))
<1>2. \A g : g \in Reported(Validate3, S)
             <=> \E p \in S : \E f \in DOMAIN p[2].object : g \in Says(p, f)
  BY DEF Reported, ValidateModel
<1>3. \A g : g \in Reported(Validate2, Deeper(S))
             <=> \E p \in S : \E f \in DOMAIN p[2].object : g \in Below(p, f)
  BY DEF Reported, Deeper
<1>4. \A g : g \in Broken(S) <=> \E p \in S : /\ g \in DOMAIN p[2].object
                                              /\ Breaks(Model[p[1]][g], p[2].object[g])
  BY DEF Broken
<1>5. \A p \in S : \A f \in DOMAIN p[2].object :
        /\ Says(p, f) \subseteq {g \in {f} : Breaks(Model[p[1]][f], p[2].object[f])}
                                 \cup Below(p, f)
        /\ Says(p, f) = {} => ~Breaks(Model[p[1]][f], p[2].object[f]) /\ Below(p, f) = {}
  BY <1>1, ZenonT(30) DEF SaysOf
<1>6. \A q \in Deeper(S) : WasRead(Fits2, Decode2, q[1], q[2])
  BY <1>1 DEF Deeper
<1> HIDE DEF Says, Below
<1>7. ASSUME NEW g \in Reported(Validate3, S), g \notin Broken(S)
      PROVE  g \in Reported(Validate2, Deeper(S))
  <2>1. PICK p \in S : \E f \in DOMAIN p[2].object : g \in Says(p, f)
    BY <1>2, <1>7, ZenonT(30)
  <2>2. PICK f \in DOMAIN p[2].object : g \in Says(p, f)
    BY <2>1, ZenonT(30)
  <2>3. ~Breaks(Model[p[1]][g], p[2].object[g]) \/ g # f
    BY <1>4, <1>7, <2>2, ZenonT(30)
  <2>4. g \in Below(p, f)
    BY <1>5, <2>2, <2>3, ZenonT(30)
  <2> QED
    BY <1>3, <2>2, <2>4, ZenonT(30)
<1>8. ASSUME Reported(Validate3, S) = {}
      PROVE  Broken(S) = {} /\ Reported(Validate2, Deeper(S)) = {}
  <2>1. \A p \in S : \A f \in DOMAIN p[2].object :
          ~Breaks(Model[p[1]][f], p[2].object[f]) /\ Below(p, f) = {}
    BY <1>2, <1>5, <1>8, ZenonT(30)
  <2> QED
    BY <1>3, <1>4, <2>1, ZenonT(30)
<1> QED
  BY <1>6, <1>7, <1>8, ZenonT(30)

\* What Validate() says of a field of level 4 that was read.
LEMMA FieldExact4 ==
  ASSUME NEW k, NEW f, NEW w, Fits4(k, w)
  PROVE  LET y == Decode4(k, w)
         IN  /\ SaysOf(Validate4, Validate3, k, f, y)
             /\ \A q \in Inside(k, y) : WasRead(Fits3, Decode3, q[1], q[2])
<1> DEFINE y == Decode4(k, w)
<1>1. CASE FitsPlain(k, w)
  <2>1. y = DecodePlain(k, w) /\ FitsPlain(k, y)
    BY <1>1, PlainReadsBack, ZenonT(30) DEF Decode4, DecodeField, ReadsBack
  <2>2. Inside(k, y) = {} /\ Reported(Validate3, {}) = {}
    BY <2>1, PlainInside, ZenonT(30) DEF Reported
  <2>3. y = Null \/ k.kind \notin {"nested", "each"}
    BY <2>1 DEF FitsPlain
  <2> HIDE DEF y
  <2>4. Validate4(k, f, y) = ValidatePlain(k, f, y)
    BY <2>3, ZenonT(30) DEF Validate4, ValidateField
  <2>5. Validate4(k, f, y) = {g \in {f} : Breaks(k, y)}
    BY <2>4, PlainExact
  <2>6. SaysOf(Validate4, Validate3, k, f, y)
    BY <2>2, <2>5, ZenonT(30) DEF SaysOf
  <2> QED
    BY <2>2, <2>6, ZenonT(30) DEF y
<1>2. CASE k.kind = "nested" /\ FitsModel(Fits3, k.of, w)
  <2>1. y = DecodeModel(Decode3, k.of, w)
    BY <1>2 DEF Decode4, DecodeField, FitsModel
  <2>2. y # Null
    BY <1>2, <2>1, ModelReadsBack3, Documents
  <2>3. WasRead(Fits3, Decode3, k.of, y)
    BY <1>2, <2>1, ZenonT(30) DEF WasRead
  <2> HIDE DEF y
  <2>4. Inside(k, y) = {<<k.of, y>>} /\ ~Breaks(k, y)
    BY <1>2, <2>2 DEF Inside, Breaks
  <2>5. Validate4(k, f, y) = ValidateModel(Validate3, k.of, y)
    BY <1>2, <2>2 DEF Validate4, ValidateField
  <2>6. Reported(Validate3, {<<k.of, y>>}) = ValidateModel(Validate3, k.of, y)
    BY DEF Reported
  <2>7. SaysOf(Validate4, Validate3, k, f, y)
    BY <2>4, <2>5, <2>6, ZenonT(30) DEF SaysOf
  <2>8. \A q \in Inside(k, y) : WasRead(Fits3, Decode3, q[1], q[2])
    BY <2>3, <2>4
  <2> QED
    BY <2>7, <2>8, ZenonT(30) DEF y
<1>3. CASE /\ k.kind = "each" /\ IsList(w)
           /\ \A i \in DOMAIN w.items : \/ w.items[i] = Null
                                        \/ FitsModel(Fits3, k.of, w.items[i])
  <2> DEFINE a == y.items
             failing == {i \in Checked(a) : ValidateModel(Validate3, k.of, a[i]) # {}}
  <2>1. /\ y # Null /\ DOMAIN a = DOMAIN w.items
        /\ \A i \in DOMAIN a : a[i] = DecodeModel(Decode3, k.of, w.items[i])
    BY <1>3, Documents DEF Decode4, DecodeField, IsList
  <2>2. DOMAIN a \subseteq Nat
    BY <1>3, <2>1 DEF IsList
  <2>3. \A i \in DOMAIN a : a[i] = Null \/ WasRead(Fits3, Decode3, k.of, a[i])
    BY <1>3, <2>1, ZenonT(30) DEF WasRead, DecodeModel
  <2> HIDE DEF y
  <2>4. Inside(k, y) = {<<k.of, a[i]>> : i \in Checked(a)} /\ ~Breaks(k, y)
    BY <1>3, <2>1 DEF Inside, Breaks, Checked, Range
  <2>5. Validate4(k, f, y) =
          IF failing = {} THEN {} ELSE ValidateModel(Validate3, k.of, a[Min(failing)])
    BY <1>3, <2>1, ZenonT(30) DEF Validate4, ValidateField
  <2>6. \A q \in Inside(k, y) : WasRead(Fits3, Decode3, q[1], q[2])
    BY <2>3, <2>4 DEF Checked
  <2>7. \A g : g \in Reported(Validate3, Inside(k, y))
               <=> \E i \in Checked(a) : g \in ValidateModel(Validate3, k.of, a[i])
    <3> HIDE DEF a
    <3>1. \A g : g \in Reported(Validate3, Inside(k, y))
                 <=> \E q \in Inside(k, y) : g \in ValidateModel(Validate3, q[1], q[2])
      BY DEF Reported
    <3>2. \A q : q \in Inside(k, y) <=> \E i \in Checked(a) : q = <<k.of, a[i]>>
      BY <2>4
    <3>3. ASSUME NEW g, NEW q \in Inside(k, y), g \in ValidateModel(Validate3, q[1], q[2])
          PROVE  \E i \in Checked(a) : g \in ValidateModel(Validate3, k.of, a[i])
      <4>1. PICK i \in Checked(a) : q = <<k.of, a[i]>>
        BY <3>2
      <4>2. q[1] = k.of /\ q[2] = a[i]
        BY <4>1
      <4> QED
        BY <3>3, <4>2, ZenonT(30)
    <3>4. ASSUME NEW g, NEW i \in Checked(a), g \in ValidateModel(Validate3, k.of, a[i])
          PROVE  \E q \in Inside(k, y) : g \in ValidateModel(Validate3, q[1], q[2])
      <4> DEFINE q == <<k.of, a[i]>>
      <4>1. q \in Inside(k, y) /\ q[1] = k.of /\ q[2] = a[i]
        BY <3>2
      <4> HIDE DEF q
      <4> QED
        BY <3>4, <4>1, ZenonT(30)
    <3> QED
      BY <3>1, <3>3, <3>4, ZenonT(30)
  <2>8. failing # {} => Min(failing) \in failing
    <3>1. failing \subseteq Nat
      BY <2>2 DEF Checked
    <3> HIDE DEF failing
    <3> QED
      BY <3>1, MinIsIn, ZenonT(30)
  <2>9. failing # {} => Min(failing) \in Checked(a)
                        /\ ValidateModel(Validate3, k.of, a[Min(failing)]) # {}
    BY <2>8, ZenonT(30)
  <2>10. failing = {} => \A i \in Checked(a) : ValidateModel(Validate3, k.of, a[i]) = {}
    OBVIOUS
  <2> HIDE DEF failing, a
  <2>11. /\ Validate4(k, f, y) \subseteq Reported(Validate3, Inside(k, y))
         /\ Validate4(k, f, y) = {} => Reported(Validate3, Inside(k, y)) = {}
    BY <2>5, <2>7, <2>9, <2>10, ZenonT(30)
  <2>12. SaysOf(Validate4, Validate3, k, f, y)
    BY <2>4, <2>11, ZenonT(30) DEF SaysOf
  <2> QED
    BY <2>6, <2>12, ZenonT(30) DEF y
<1> QED
  BY <1>1, <1>2, <1>3, ZenonT(30) DEF Fits4, FitsField

\* What Validate() says of models of level 4 that were read: it reports what breaks its
\* rule and what it reports of the models inside, and something if there is either.
LEMMA LevelExact4 ==
  ASSUME NEW S, \A p \in S : WasRead(Fits4, Decode4, p[1], p[2])
  PROVE  /\ Reported(Validate4, S) \subseteq Broken(S) \cup Reported(Validate3, Deeper(S))
         /\ Reported(Validate4, S) = {} =>
              Broken(S) = {} /\ Reported(Validate3, Deeper(S)) = {}
         /\ \A q \in Deeper(S) : WasRead(Fits3, Decode3, q[1], q[2])
<1>1. ASSUME NEW p \in S, NEW f \in DOMAIN p[2].object
      PROVE  /\ SaysOf(Validate4, Validate3, Model[p[1]][f], f, p[2].object[f])
             /\ \A q \in Inside(Model[p[1]][f], p[2].object[f]) :
                  WasRead(Fits3, Decode3, q[1], q[2])
  <2> DEFINE k == Model[p[1]][f]
  <2>1. PICK v : FitsModel(Fits4, p[1], v) /\ p[2] = DecodeModel(Decode4, p[1], v)
    BY ZenonT(30) DEF WasRead
  <2>2. /\ DOMAIN p[2].object = DOMAIN Model[p[1]]
        /\ p[2].object[f] = IF f \in DOMAIN v.object THEN Decode4(k, v.object[f]) ELSE Null
    <3>1. v # Null /\ DOMAIN p[2].object = DOMAIN Model[p[1]]
      BY <2>1, ModelReadsBack4, ZenonT(30)
    <3> QED
      BY <2>1, <3>1, Documents DEF DecodeModel
  <2>3. Fits4(k, Null) /\ Decode4(k, Null) = Null
    <3>1. FitsPlain(k, Null) /\ DecodePlain(k, Null) = Null
      BY NullReadsBack
    <3>2. Decode4(k, Null) = DecodePlain(k, Null)
      BY Documents, ZenonT(30) DEF Decode4, DecodeField
    <3> QED
      BY <3>1, <3>2, ZenonT(30) DEF Fits4, FitsField
  <2>4. \E w : Fits4(k, w) /\ p[2].object[f] = Decode4(k, w)
    BY <2>1, <2>2, <2>3, ZenonT(30) DEF FitsModel
  <2> HIDE DEF k
  <2>5. PICK w : Fits4(k, w) /\ p[2].object[f] = Decode4(k, w)
    BY <2>4, ZenonT(30)
  <2> QED
    BY <2>5, FieldExact4, ZenonT(30) DEF k
<1> DEFINE Says(p, f) == Validate4(Model[p[1]][f], f, p[2].object[f])
           Below(p, f) == Reported(Validate3, Inside(Model[p[1]][f], p[2].object[f]))
<1>2. \A g : g \in Reported(Validate4, S)
             <=> \E p \in S : \E f \in DOMAIN p[2].object : g \in Says(p, f)
  BY DEF Reported, ValidateModel
<1>3. \A g : g \in Reported(Validate3, Deeper(S))
             <=> \E p \in S : \E f \in DOMAIN p[2].object : g \in Below(p, f)
  BY DEF Reported, Deeper
<1>4. \A g : g \in Broken(S) <=> \E p \in S : /\ g \in DOMAIN p[2].object
                                              /\ Breaks(Model[p[1]][g], p[2].object[g])
  BY DEF Broken
<1>5. \A p \in S : \A f \in DOMAIN p[2].object :
        /\ Says(p, f) \subseteq {g \in {f} : Breaks(Model[p[1]][f], p[2].object[f])}
                                 \cup Below(p, f)
        /\ Says(p, f) = {} => ~Breaks(Model[p[1]][f], p[2].object[f]) /\ Below(p, f) = {}
  BY <1>1, ZenonT(30) DEF SaysOf
<1>6. \A q \in Deeper(S) : WasRead(Fits3, Decode3, q[1], q[2])
  BY <1>1 DEF Deeper
<1> HIDE DEF Says, Below
<1>7. ASSUME NEW g \in Reported(Validate4, S), g \notin Broken(S)
      PROVE  g \in Reported(Validate3, Deeper(S))
  <2>1. PICK p \in S : \E f \in DOMAIN p[2].object : g \in Says(p, f)
    BY <1>2, <1>7, ZenonT(30)
  <2>2. PICK f \in DOMAIN p[2].object : g \in Says(p, f)
    BY <2>1, ZenonT(30)
  <2>3. ~Breaks(Model[p[1]][g], p[2].object[g]) \/ g # f
    BY <1>4, <1>7, <2>2, ZenonT(30)
  <2>4. g \in Below(p, f)
    BY <1>5, <2>2, <2>3, ZenonT(30)
  <2> QED
    BY <1>3, <2>2, <2>4, ZenonT(30)
<1>8. ASSUME Reported(Validate4, S) = {}
      PROVE  Broken(S) = {} /\ Reported(Validate3, Deeper(S)) = {}
  <2>1. \A p \in S : \A f \in DOMAIN p[2].object :
          ~Breaks(Model[p[1]][f], p[2].object[f]) /\ Below(p, f) = {}
    BY <1>2, <1>5, <1>8, ZenonT(30)
  <2> QED
    BY <1>3, <1>4, <2>1, ZenonT(30)
<1> QED
  BY <1>6, <1>7, <1>8, ZenonT(30)

-----------------------------------------------------------------------------
(* The invariant and what follows from it.                                  *)

\* The document a model shows, with the document null as an empty one.
Shows(b) == IF b = Null THEN Empty ELSE b

\* The model is what the last accepted document was read into.
Inv == /\ type \in Types
       /\ FitsModel(Fits4, type, Shows(doc))
       /\ m = DecodeModel(Decode4, type, Shows(doc))

\* A document that can be read into a model is an object or null, and is read field by
\* field.
LEMMA ReadTop ==
  ASSUME NEW t, NEW b
  PROVE  /\ Fits(Nested(t), b) <=> FitsModel(Fits4, t, Shows(b))
         /\ FitsModel(Fits4, t, Shows(b)) =>
              Decode(Nested(t), Shows(b)) = DecodeModel(Decode4, t, Shows(b))
<1>1. FitsModel(Fits4, t, Empty)
  BY Documents DEF Empty, FitsModel
<1>2. Fits(Nested(t), b) <=> b = Null \/ FitsModel(Fits4, t, b)
  BY Kinds, ZenonT(30) DEF Fits, FitsField, FitsPlain
<1>3. FitsModel(Fits4, t, Shows(b)) =>
        Decode(Nested(t), Shows(b)) = DecodeModel(Decode4, t, Shows(b))
  BY Kinds DEF Decode, DecodeField, FitsModel
<1> QED
  BY <1>1, <1>2, <1>3, ZenonT(30) DEF Shows

\* UnmarshalBinary() of a document that can be read, and of one that cannot.
LEMMA UnmarshalReads ==
  ASSUME NEW t, NEW x, NEW b
  PROVE  LET r == UnmarshalBinary(t, x, b)
         IN  IF FitsModel(Fits4, t, Shows(b))
             THEN r = [ok |-> TRUE, m |-> DecodeModel(Decode4, t, Shows(b))]
             ELSE r = [ok |-> FALSE, m |-> x]
<1>1. /\ Fits(Nested(t), b) <=> FitsModel(Fits4, t, Shows(b))
      /\ FitsModel(Fits4, t, Shows(b)) =>
           Decode(Nested(t), Shows(b)) = DecodeModel(Decode4, t, Shows(b))
  BY ReadTop, ZenonT(30)
<1>2. UnmarshalBinary(t, x, b) =
        IF ~Fits(Nested(t), b) THEN [ok |-> FALSE, m |-> x]
        ELSE [ok |-> TRUE, m |-> Decode(Nested(t), Shows(b))]
  BY ZenonT(30) DEF UnmarshalBinary, Shows
<1> QED
  BY <1>1, <1>2, ZenonT(30)

\* The invariant holds at first, of a model that nothing was read into.
LEMMA InitInv == Init => Inv
<1> SUFFICES ASSUME Init
             PROVE  Inv
  OBVIOUS
<1>1. Shows(Empty) = Empty /\ FitsModel(Fits4, type, Empty)
  BY Documents DEF Shows, Empty, FitsModel
<1>2. New(type) = DecodeModel(Decode4, type, Empty)
  BY <1>1, ReadTop, ZenonT(30) DEF New
<1> QED
  BY <1>1, <1>2, ZenonT(30) DEF Init, Inv

\* Reading a document, or refusing one, keeps it.
LEMMA NextInv == Inv /\ [Next]_vars => Inv'
<1> SUFFICES ASSUME Inv, [Next]_vars
             PROVE  Inv'
  OBVIOUS
<1>1. CASE UNCHANGED vars
  BY <1>1, ZenonT(30) DEF Inv, vars
<1>2. CASE Next
  <2>1. PICK b \in Bodies(type) : Read(b)
    BY <1>2 DEF Next
  <2> DEFINE r == UnmarshalBinary(type, m, b)
  <2>2. m' = r.m /\ doc' = (IF r.ok THEN b ELSE doc) /\ type' = type
    BY <2>1 DEF Read
  <2>3. CASE FitsModel(Fits4, type, Shows(b))
    <3>1. r = [ok |-> TRUE, m |-> DecodeModel(Decode4, type, Shows(b))]
      BY <2>3, UnmarshalReads, ZenonT(30)
    <3> HIDE DEF r
    <3>2. doc' = b /\ m' = DecodeModel(Decode4, type, Shows(b))
      BY <2>2, <3>1
    <3> QED
      BY <2>2, <2>3, <3>2, ZenonT(30) DEF Inv
  <2>4. CASE ~FitsModel(Fits4, type, Shows(b))
    <3>1. r = [ok |-> FALSE, m |-> m]
      BY <2>4, UnmarshalReads, ZenonT(30)
    <3> HIDE DEF r
    <3>2. doc' = doc /\ m' = m
      BY <2>2, <3>1
    <3> QED
      BY <2>2, <3>2, ZenonT(30) DEF Inv
  <2> QED
    BY <2>3, <2>4
<1> QED
  BY <1>1, <1>2

\* At all times the model is what UnmarshalBinary() made of the last accepted document.
LEMMA Inductive == Spec => []Inv
BY InitInv, NextInv, PTL DEF Spec

\* Whatever documents a client reads, and in whatever order, every field of its model
\* holds a value of its Go type, at every depth: UnmarshalBinary() refuses what has
\* another one.
THEOREM ClientTypes == Spec => []TypeOK
<1>1. Inv => TypeOK
  <2> SUFFICES ASSUME Inv
               PROVE  TypeOK
    OBVIOUS
  <2>1. DOMAIN m.object = DOMAIN Model[type] /\ FitsModel(Fits4, type, m)
    BY ModelReadsBack4, ZenonT(30) DEF Inv
  <2> QED
    BY <2>1, Kinds, ZenonT(30) DEF Inv, TypeOK, Fits, FitsField
<1> QED
  BY <1>1, Inductive, PTL

\* A model that is read into again and again shows the last document that was accepted,
\* and nothing of those before it.
THEOREM ClientShowsLast == Spec => []ShowsLastDocument
<1>1. Inv => ShowsLastDocument
  <2> SUFFICES ASSUME Inv
               PROVE  ShowsLastDocument
    OBVIOUS
  <2>1. UnmarshalBinary(type, New(type), doc)
          = [ok |-> TRUE, m |-> DecodeModel(Decode4, type, Shows(doc))]
    BY UnmarshalReads, ZenonT(30) DEF Inv
  <2>2. UnmarshalBinary(type, New(type), doc).m = DecodeModel(Decode4, type, Shows(doc))
    BY <2>1
  <2> QED
    BY <2>2, ZenonT(30) DEF Inv, ShowsLastDocument
<1> QED
  BY <1>1, Inductive, PTL

\* Any model a client can have reads back from its own bytes as it was: what
\* MarshalBinary() leaves out is what UnmarshalBinary() sets to its zero value.
THEOREM ClientRoundTrip == Spec => []RoundTrip
<1>1. Inv => RoundTrip
  <2> SUFFICES ASSUME Inv
               PROVE  RoundTrip
    OBVIOUS
  <2> DEFINE e == EncodeModel(Encode4, type, m)
  <2>1. /\ m = Object(m.object) /\ e # Null /\ FitsModel(Fits4, type, e)
        /\ DecodeModel(Decode4, type, e) = m
    BY ModelReadsBack4, ZenonT(30) DEF Inv
  <2>2. MarshalBinary(type, m) = e
    <3>1. m.json = "object" /\ Nested(type).of = type
      BY <2>1, Documents, Kinds
    <3> QED
      BY <3>1, ZenonT(30) DEF MarshalBinary, Encode, EncodeField
  <2> HIDE DEF e
  <2>3. Shows(e) = e
    BY <2>1 DEF Shows
  <2>4. FitsModel(Fits4, type, Shows(e)) /\ DecodeModel(Decode4, type, Shows(e)) = m
    BY <2>1, <2>3, ZenonT(30)
  <2>5. UnmarshalBinary(type, New(type), e)
          = [ok |-> TRUE, m |-> DecodeModel(Decode4, type, Shows(e))]
    BY <2>4, UnmarshalReads, ZenonT(30)
  <2> QED
    BY <2>2, <2>4, <2>5, ZenonT(30) DEF RoundTrip
<1> QED
  BY <1>1, Inductive, PTL

\* The fields that break a rule in the union of two sets of models, and the models inside
\* them.
LEMMA UnionOfParts ==
  ASSUME NEW S, NEW T
  PROVE  /\ Broken(S \cup T) = Broken(S) \cup Broken(T)
         /\ Deeper(S \cup T) = Deeper(S) \cup Deeper(T)
BY DEF Broken, Deeper

\* Of whatever documents a client has read, Validate() of its model accepts it exactly when
\* no field, of it or of a model inside it at any depth, breaks a rule of its own, and
\* reports only fields that do.
THEOREM ClientValidateExact == Spec => []ValidateIsExact
<1>1. Inv => ValidateIsExact
  <2> SUFFICES ASSUME Inv
               PROVE  ValidateIsExact
    OBVIOUS
  <2> DEFINE one == {<<type, m>>}
             two == Deeper(one)
             three == Deeper(two)
             four == Deeper(three)
             five == Deeper(four)
             parts == ((one \cup two) \cup (three \cup four)) \cup five
  <2>1. \A p \in one : WasRead(Fits4, Decode4, p[1], p[2])
    <3>1. WasRead(Fits4, Decode4, type, m)
      BY ZenonT(30) DEF Inv, WasRead
    <3> QED
      BY <3>1
  <2>2. Reported(Validate4, one) = Validate(type, m)
    BY DEF Reported, Validate
  <2> HIDE DEF one
  <2>3. /\ Reported(Validate4, one) \subseteq Broken(one) \cup Reported(Validate3, two)
        /\ Reported(Validate4, one) = {} => Broken(one) = {} /\ Reported(Validate3, two) = {}
        /\ \A p \in two : WasRead(Fits3, Decode3, p[1], p[2])
    BY <2>1, LevelExact4, ZenonT(30)
  <2> HIDE DEF two
  <2>4. /\ Reported(Validate3, two) \subseteq Broken(two) \cup Reported(Validate2, three)
        /\ Reported(Validate3, two) = {} => Broken(two) = {} /\ Reported(Validate2, three) = {}
        /\ \A p \in three : WasRead(Fits2, Decode2, p[1], p[2])
    BY <2>3, LevelExact3, ZenonT(30)
  <2> HIDE DEF three
  <2>5. /\ Reported(Validate2, three) \subseteq Broken(three) \cup Reported(Validate1, four)
        /\ Reported(Validate2, three) = {} =>
             Broken(three) = {} /\ Reported(Validate1, four) = {}
        /\ \A p \in four : WasRead(Fits1, Decode1, p[1], p[2])
    BY <2>4, LevelExact2, ZenonT(30)
  <2> HIDE DEF four
  <2>6. /\ Reported(Validate1, four) \subseteq Broken(four) \cup Reported(ValidatePlain, five)
        /\ Reported(Validate1, four) = {} =>
             Broken(four) = {} /\ Reported(ValidatePlain, five) = {}
        /\ \A p \in five : WasRead(FitsPlain, DecodePlain, p[1], p[2])
    BY <2>5, LevelExact1, ZenonT(30)
  <2> HIDE DEF five
  <2>7. Reported(ValidatePlain, five) = Broken(five) /\ Deeper(five) = {}
    BY <2>6, LevelExact0, NothingDeeper, ZenonT(30)
  <2>8. /\ Broken(parts) = ((Broken(one) \cup Broken(two))
                                \cup (Broken(three) \cup Broken(four))) \cup Broken(five)
        /\ Deeper(parts) = ((two \cup three) \cup (four \cup five)) \cup Deeper(five)
    <3> DEFINE s == one \cup two
               t == three \cup four
               u == s \cup t
    <3>1. Broken(s) = Broken(one) \cup Broken(two) /\ Deeper(s) = two \cup three
      BY UnionOfParts, ZenonT(30) DEF two, three
    <3>2. Broken(t) = Broken(three) \cup Broken(four) /\ Deeper(t) = four \cup five
      BY UnionOfParts, ZenonT(30) DEF four, five
    <3> HIDE DEF s, t
    <3>3. Broken(u) = Broken(s) \cup Broken(t) /\ Deeper(u) = Deeper(s) \cup Deeper(t)
      BY UnionOfParts, ZenonT(30)
    <3> HIDE DEF u
    <3>4. /\ Broken(u \cup five) = Broken(u) \cup Broken(five)
          /\ Deeper(u \cup five) = Deeper(u) \cup Deeper(five)
      BY UnionOfParts, ZenonT(30)
    <3> QED
      BY <3>1, <3>2, <3>3, <3>4, ZenonT(30) DEF s, t, u
  <2>9. Parts(type, m) = parts
    <3>1. Parts(type, m) = (((one \cup two) \cup three) \cup four) \cup five
      BY ZenonT(30) DEF Parts, one, two, three, four, five
    <3> QED
      BY <3>1
  <2>10. Deeper(parts) \subseteq parts
    BY <2>7, <2>8
  <2> HIDE DEF parts
  <2>11. Reported(Validate4, one) \subseteq Broken(parts)
    BY <2>3, <2>4, <2>5, <2>6, <2>7, <2>8
  <2>12. Reported(Validate4, one) = {} <=> Broken(parts) = {}
    BY <2>3, <2>4, <2>5, <2>6, <2>7, <2>8, <2>11
  <2> QED
    BY <2>2, <2>9, <2>10, <2>11, <2>12, ZenonT(30) DEF ValidateIsExact
<1> QED
  BY <1>1, Inductive, PTL

=============================================================================
