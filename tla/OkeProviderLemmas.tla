--------------------------- MODULE OkeProviderLemmas ---------------------------
(***************************************************************************)
(* What the proofs about OkeProvider rest on, for all values of its        *)
(* constants: the results Providers has for a state of the clusters, what  *)
(* is read from and written to the documents OKE is sent and sends, and    *)
(* the pools of a cluster through a create and through a scale.            *)
(***************************************************************************)
EXTENDS OkeProvider, TLAPS

\* The seconds a prover may take for a step.
USE SMTT(30), ZenonT(30)

-----------------------------------------------------------------------------
(* Results of the operations of Providers.                                   *)

\* A state of Providers that the statuses stand for.
Inst(from) == [i \in Ids |-> IF from[i] = "live" THEN "building" ELSE from[i]]

\* What Results shows of an annotation.
Shown(a) == IF a.set["state"] # Absent THEN "ready"
            ELSE IF a.set["nodes"] # Absent THEN "nodes" ELSE "nothing"

\* The annotations of the results, as they are shown.
LEMMA ShownFacts ==
  /\ Shown(Abstract!NoChange) = "nothing"
  /\ Shown(Abstract!BackToReady) = "ready"
  /\ \A i \in Ids : Shown(Abstract!Set([id |-> i, work |-> i, nodes |-> "n"])) = "nodes"
  /\ \A i \in Ids : Shown(Abstract!Set([work |-> i, nodes |-> "n"])) = "nodes"
BY OkeAssumption
   DEF Shown, Abstract!NoChange, Abstract!Nothing, Abstract!BackToReady, Abstract!Set

\* A result of an operation of Providers, as Results shows it.
LEMMA ResultShown ==
  ASSUME NEW op, NEW by, NEW id, NEW from \in [Ids -> {"none", "live", "gone"}],
         NEW to, NEW a, NEW ok, NEW fault,
         LET r == Abstract!Result(to, a, ok, fault)
             o == [id |-> id]
         IN  \/ op = "create" /\ r \in Abstract!OkeCreate(Inst(from))
             \/ op = "delete" /\ r \in Abstract!OkeDelete(Inst(from), o)
             \/ op = "scale" /\ r \in Abstract!OkeScale(Inst(from), o, by >= 0)
  PROVE  [from |-> [i \in Ids |-> Seen(to[i])], ok |-> ok, ann |-> Shown(a), fault |-> fault]
           \in Results(op, by, id, from)
<1> DEFINE r == Abstract!Result(to, a, ok, fault)
           o == [id |-> id]
           of(s) == CASE op = "create" -> Abstract!OkeCreate(s)
                      [] op = "delete" -> Abstract!OkeDelete(s, o)
                      [] op = "scale" -> Abstract!OkeScale(s, o, by >= 0)
<1>1. Inst(from) \in Unseen(from)
  BY DEF Inst, Unseen, Seen
<1>2. r.inst = to /\ r.ok = ok /\ r.ann = a /\ r.fault = fault
  BY DEF Abstract!Result
<1>3. r \in of(Inst(from))
  OBVIOUS
<1>4. r \in UNION {of(s) : s \in Unseen(from)}
  BY <1>1, <1>3
<1>5. Results(op, by, id, from) =
        {[from |-> [i \in Ids |-> Seen(x.inst[i])], ok |-> x.ok, ann |-> Shown(x.ann),
          fault |-> x.fault] : x \in UNION {of(s) : s \in Unseen(from)}}
  BY DEF Results, Shown
<1> HIDE DEF r, of
<1> QED
  BY <1>2, <1>4, <1>5, ZenonT(30)

\* The clusters after an operation, as they are seen.
LEMMA SeenAfter ==
  ASSUME NEW from \in [Ids -> {"none", "live", "gone"}]
  PROVE  /\ [i \in Ids |-> Seen(Inst(from)[i])] = from
         /\ \A j \in Ids :
              [i \in Ids |-> Seen(Abstract!At(Inst(from), j, "building")[i])]
                = [from EXCEPT ![j] = "live"]
         /\ \A j \in Ids :
              [i \in Ids |-> Seen(Abstract!At(Inst(from), j, "gone")[i])]
                = [from EXCEPT ![j] = "gone"]
BY ZenonT(30) DEF Inst, Seen, Abstract!At

\* What Providers lets an operation do: it is a result with this state, error and
\* annotation, and a failure only if one happened.
Acts(op, by, id, from, to, ok, ann, faulted) ==
  \E r \in Results(op, by, id, from) :
    r.from = to /\ r.ok = ok /\ r.ann = ann /\ (r.fault => faulted)


\* A result that is shown is one the call may have.
LEMMA ActsShown ==
  ASSUME NEW op, NEW by, NEW id, NEW from, NEW to, NEW ok, NEW ann, NEW fault, NEW faulted,
         fault => faulted,
         [from |-> to, ok |-> ok, ann |-> ann, fault |-> fault] \in Results(op, by, id, from)
  PROVE  Acts(op, by, id, from, to, ok, ann, faulted)
BY DEF Acts

\* CreateKubeCluster() in Providers, where the next free id is the same one.
LEMMA CreateActs ==
  ASSUME NEW by, NEW id, NEW from \in [Ids -> {"none", "live", "gone"}],
         NEW i \in Ids, from[i] = "none", i = CHOOSE j \in Ids : from[j] = "none",
         NEW faulted
  PROVE  LET made == [from EXCEPT ![i] = "live"]
         IN  /\ Acts("create", by, id, from, made, TRUE, "nodes", faulted)
             /\ faulted => /\ Acts("create", by, id, from, made, FALSE, "nothing", faulted)
                           /\ Acts("create", by, id, from, from, FALSE, "nothing", faulted)
<1> DEFINE s == Inst(from)
           made == [from EXCEPT ![i] = "live"]
           new == {j \in Ids : s[j] = "none"}
           a == Abstract!Set([id |-> i, work |-> i, nodes |-> "n"])
           built == Abstract!At(s, i, "building")
<1>1. \A j \in Ids : s[j] = "none" <=> from[j] = "none"
  BY DEF Inst
<1> HIDE DEF s
<1>2. new # {} /\ i = CHOOSE j \in new : TRUE
  BY <1>1
<1>3. /\ Abstract!Result(s, Abstract!NoChange, FALSE, TRUE) \in Abstract!OkeCreate(s)
      /\ Abstract!Result(built, a, TRUE, FALSE) \in Abstract!OkeCreate(s)
      /\ Abstract!Result(built, Abstract!NoChange, FALSE, TRUE) \in Abstract!OkeCreate(s)
  BY <1>2, ZenonT(30) DEF Abstract!OkeCreate, Abstract!Fine, Abstract!Broken
<1>4. /\ [j \in Ids |-> Seen(s[j])] = from /\ [j \in Ids |-> Seen(built[j])] = made
      /\ Shown(Abstract!NoChange) = "nothing" /\ Shown(a) = "nodes"
  BY SeenAfter, ShownFacts, ZenonT(30) DEF s
<1> HIDE DEF a, built, made
<1>5. /\ [from |-> from, ok |-> FALSE, ann |-> "nothing", fault |-> TRUE]
           \in Results("create", by, id, from)
      /\ [from |-> made, ok |-> TRUE, ann |-> "nodes", fault |-> FALSE]
           \in Results("create", by, id, from)
      /\ [from |-> made, ok |-> FALSE, ann |-> "nothing", fault |-> TRUE]
           \in Results("create", by, id, from)
  <2>1. ASSUME NEW to, NEW b, NEW ok, NEW fault,
               Abstract!Result(to, b, ok, fault) \in Abstract!OkeCreate(s)
        PROVE  [from |-> [j \in Ids |-> Seen(to[j])], ok |-> ok, ann |-> Shown(b),
                fault |-> fault] \in Results("create", by, id, from)
    BY <2>1, ResultShown, ZenonT(30) DEF s
  <2>2. [from |-> [j \in Ids |-> Seen(s[j])], ok |-> FALSE, ann |-> Shown(Abstract!NoChange),
         fault |-> TRUE] \in Results("create", by, id, from)
    BY <1>3, <2>1, ZenonT(30)
  <2>3. [from |-> [j \in Ids |-> Seen(built[j])], ok |-> TRUE, ann |-> Shown(a),
         fault |-> FALSE] \in Results("create", by, id, from)
    BY <1>3, <2>1, ZenonT(30)
  <2>4. [from |-> [j \in Ids |-> Seen(built[j])], ok |-> FALSE,
         ann |-> Shown(Abstract!NoChange), fault |-> TRUE] \in Results("create", by, id, from)
    BY <1>3, <2>1, ZenonT(30)
  <2> QED
    BY <1>4, <2>2, <2>3, <2>4, ZenonT(30)
<1> QED
  BY <1>5, ZenonT(30) DEF Acts, made

\* DeleteKubeCluster() in Providers.
LEMMA DeleteActs ==
  ASSUME NEW by, NEW id \in Ids, NEW from \in [Ids -> {"none", "live", "gone"}], NEW faulted
  PROVE  /\ Acts("delete", by, id, from, [from EXCEPT ![id] = "gone"], TRUE, "nothing",
                 faulted)
         /\ faulted => Acts("delete", by, id, from, from, TRUE, "nothing", faulted)
<1> DEFINE s == Inst(from)
           gone == [from EXCEPT ![id] = "gone"]
           o == [id |-> id]
           left == Abstract!At(s, id, "gone")
<1>1. o["id"] = id /\ id # Absent
  BY OkeAssumption
<1>2. /\ [j \in Ids |-> Seen(s[j])] = from /\ [j \in Ids |-> Seen(left[j])] = gone
      /\ Shown(Abstract!NoChange) = "nothing"
  BY SeenAfter, ShownFacts, ZenonT(30)
<1> HIDE DEF s, gone, o
<1>3. /\ Abstract!Result(left, Abstract!NoChange, TRUE, FALSE) \in Abstract!OkeDelete(s, o)
      /\ Abstract!Result(s, Abstract!NoChange, TRUE, TRUE) \in Abstract!OkeDelete(s, o)
  BY <1>1 DEF Abstract!OkeDelete, Abstract!Fine
<1> HIDE DEF left
<1>4. ASSUME NEW to, NEW b, NEW ok, NEW fault,
             Abstract!Result(to, b, ok, fault) \in Abstract!OkeDelete(s, o)
      PROVE  [from |-> [j \in Ids |-> Seen(to[j])], ok |-> ok, ann |-> Shown(b),
              fault |-> fault] \in Results("delete", by, id, from)
  BY <1>4, ResultShown, ZenonT(30) DEF s, o
<1>5. [from |-> [j \in Ids |-> Seen(left[j])], ok |-> TRUE, ann |-> Shown(Abstract!NoChange),
       fault |-> FALSE] \in Results("delete", by, id, from)
  BY <1>3, <1>4, ZenonT(30)
<1>6. [from |-> [j \in Ids |-> Seen(s[j])], ok |-> TRUE, ann |-> Shown(Abstract!NoChange),
       fault |-> TRUE] \in Results("delete", by, id, from)
  BY <1>3, <1>4, ZenonT(30)
<1> QED
  BY <1>2, <1>5, <1>6, ActsShown, ZenonT(30) DEF gone


\* ScaleKubeCluster() in Providers, of a cluster that exists.
LEMMA ScaleActs ==
  ASSUME NEW by, NEW id \in Ids, NEW from \in [Ids -> {"none", "live", "gone"}],
         from[id] = "live", NEW faulted
  PROVE  /\ Acts("scale", by, id, from, from, TRUE, "nodes", faulted)
         /\ Acts("scale", by, id, from, from, TRUE, "nothing", faulted)
         /\ ~(by >= 0) => Acts("scale", by, id, from, from, TRUE, "ready", faulted)
<1> DEFINE s == Inst(from)
           o == [id |-> id]
           a == Abstract!Set([work |-> id, nodes |-> "n"])
           built == Abstract!At(s, id, "building")
<1>1. o["id"] = id /\ id # Absent /\ s[id] = "building"
  BY OkeAssumption DEF Inst
<1>2. /\ [j \in Ids |-> Seen(s[j])] = from
      /\ [j \in Ids |-> Seen(built[j])] = [from EXCEPT ![id] = "live"]
      /\ Shown(Abstract!NoChange) = "nothing" /\ Shown(a) = "nodes"
      /\ Shown(Abstract!BackToReady) = "ready"
  BY SeenAfter, ShownFacts, ZenonT(30)
<1>3. [from EXCEPT ![id] = "live"] = from
  OBVIOUS
<1> HIDE DEF s, o
<1>4. /\ Abstract!Result(built, a, TRUE, FALSE) \in Abstract!OkeScale(s, o, by >= 0)
      /\ Abstract!Result(built, Abstract!NoChange, TRUE, FALSE)
           \in Abstract!OkeScale(s, o, by >= 0)
      /\ ~(by >= 0) => Abstract!Result(s, Abstract!BackToReady, TRUE, FALSE)
                         \in Abstract!OkeScale(s, o, by >= 0)
  BY <1>1, ZenonT(30) DEF Abstract!OkeScale, Abstract!Unknown, Abstract!Fine
<1> HIDE DEF a, built
<1>5. ASSUME NEW to, NEW b, NEW ok, NEW fault,
             Abstract!Result(to, b, ok, fault) \in Abstract!OkeScale(s, o, by >= 0)
      PROVE  [from |-> [j \in Ids |-> Seen(to[j])], ok |-> ok, ann |-> Shown(b),
              fault |-> fault] \in Results("scale", by, id, from)
  BY <1>5, ResultShown, ZenonT(30) DEF s, o
<1>6. [from |-> [j \in Ids |-> Seen(built[j])], ok |-> TRUE, ann |-> Shown(a),
       fault |-> FALSE] \in Results("scale", by, id, from)
  BY <1>4, <1>5, ZenonT(30)
<1>7. [from |-> [j \in Ids |-> Seen(built[j])], ok |-> TRUE,
       ann |-> Shown(Abstract!NoChange), fault |-> FALSE] \in Results("scale", by, id, from)
  BY <1>4, <1>5, ZenonT(30)
<1>8. ~(by >= 0) =>
        [from |-> [j \in Ids |-> Seen(s[j])], ok |-> TRUE,
         ann |-> Shown(Abstract!BackToReady), fault |-> FALSE]
          \in Results("scale", by, id, from)
  BY <1>4, <1>5, ZenonT(30)
<1> QED
  BY <1>2, <1>3, <1>6, <1>7, <1>8, ActsShown, ZenonT(30)

\* A scale that fails, of a cluster that exists or is gone.
LEMMA ScaleBreaks ==
  ASSUME NEW by, NEW id \in Ids, NEW from \in [Ids -> {"none", "live", "gone"}]
  PROVE  Acts("scale", by, id, from, from, FALSE, "nothing", TRUE)
<1> DEFINE s == Inst(from)
           o == [id |-> id]
<1>1. o["id"] = id /\ id # Absent
  BY OkeAssumption
<1>2. [j \in Ids |-> Seen(s[j])] = from /\ Shown(Abstract!NoChange) = "nothing"
  BY SeenAfter, ShownFacts
<1> HIDE DEF s, o
<1>3. Abstract!Result(s, Abstract!NoChange, FALSE, TRUE) \in Abstract!OkeScale(s, o, by >= 0)
  BY <1>1, ZenonT(30) DEF Abstract!OkeScale, Abstract!Broken
<1>4. [from |-> [j \in Ids |-> Seen(s[j])], ok |-> FALSE, ann |-> Shown(Abstract!NoChange),
       fault |-> TRUE] \in Results("scale", by, id, from)
  BY <1>3, ResultShown, ZenonT(30) DEF s, o
<1> QED
  BY <1>2, <1>4, ActsShown, ZenonT(30)

\* A call without an id in Providers.
LEMMA NoIdActs ==
  ASSUME NEW op \in {"delete", "scale"}, NEW by, NEW faulted,
         NEW from \in [Ids -> {"none", "live", "gone"}]
  PROVE  Acts(op, by, Absent, from, from, FALSE, "nothing", faulted)
<1> DEFINE s == Inst(from)
           o == [id |-> Absent]
<1>1. o["id"] = Absent
  OBVIOUS
<1>2. [j \in Ids |-> Seen(s[j])] = from /\ Shown(Abstract!NoChange) = "nothing"
  BY SeenAfter, ShownFacts
<1> HIDE DEF s, o
<1>3. /\ Abstract!Result(s, Abstract!NoChange, FALSE, FALSE) \in Abstract!OkeDelete(s, o)
      /\ Abstract!Result(s, Abstract!NoChange, FALSE, FALSE)
           \in Abstract!OkeScale(s, o, by >= 0)
  BY <1>1 DEF Abstract!OkeDelete, Abstract!OkeScale, Abstract!Refused
<1>4. [from |-> [j \in Ids |-> Seen(s[j])], ok |-> FALSE, ann |-> Shown(Abstract!NoChange),
       fault |-> FALSE] \in Results(op, by, Absent, from)
  BY <1>3, ResultShown, ZenonT(30) DEF s, o
<1> QED
  BY <1>2, <1>4, ActsShown, ZenonT(30)


-----------------------------------------------------------------------------
(* JSON documents.                                                          *)

\* The documents are told apart by their kind, and give back what they are made of.
LEMMA Documents ==
  /\ \A s : Text(s).text = s /\ Text(s).json = "text" /\ Text(s) # Null
  /\ \A n : Number(n).number = n /\ Number(n).json = "number" /\ Number(n) # Null
  /\ \A o : Object(o).object = o /\ Object(o).json = "object" /\ Object(o) # Null
  /\ \A a : Array(a).items = a /\ Array(a).json = "array" /\ Array(a) # Null
  /\ Null.json = "null"
  /\ Garbage.json = "garbage" /\ Garbage # Null
  /\ NoReply.json = "lost" /\ NoReply # Null
BY DEF Text, Number, Object, Array, Null, Garbage, NoReply

\* The kind of a field and what it is made of.
LEMMA Kinds ==
  /\ String.kind = "string" /\ Integer.kind = "int32"
  /\ \A vs : Enum(vs).kind = "enum"
  /\ \A t : Nested(t).kind = "nested" /\ Nested(t).of = t
  /\ \A t : Each(t).kind = "each" /\ Each(t).of = t
BY DEF String, Integer, Enum, Nested, Each

\* The fields of the models the provider reads and writes.
LEMMA Models ==
  /\ Model["ClusterWorkItemResponse"] = ClusterWorkItemResponse
  /\ Model["ClusterPoolsResponse"] = ClusterPoolsResponse
  /\ Model["ClusterPools"] = ClusterPools
  /\ Model["ClusterDetails"] = ClusterDetails
  /\ Model["Cluster"] = Cluster
  /\ Model["WorkItem"] = WorkItem
  /\ Model["Pool"] = Pool
  /\ Model["AdDetails"] = AdDetails
BY DEF Model

\* A value that can be read into a plain field can be read at any depth, and a value that
\* is no object and no list is read as a plain field.
LEMMA PlainFields ==
  /\ \A k, v : FitsPlain(k, v) => Fits2(k, v) /\ Fits3(k, v) /\ Fits4(k, v)
  /\ \A k, v : v.json \notin {"object", "array"} =>
       /\ Decode2(k, v) = DecodePlain(k, v)
       /\ Decode3(k, v) = DecodePlain(k, v)
       /\ Decode4(k, v) = DecodePlain(k, v)
       /\ Encode2(k, v) = EncodePlain(k, v)
       /\ Encode3(k, v) = EncodePlain(k, v)
       /\ Encode4(k, v) = EncodePlain(k, v)
<1>1. \A k, v : FitsPlain(k, v) => Fits2(k, v) /\ Fits3(k, v) /\ Fits4(k, v)
  BY DEF Fits2, Fits3, Fits4, FitsField
<1>2. ASSUME NEW k, NEW v, v.json \notin {"object", "array"}
      PROVE  /\ Decode2(k, v) = DecodePlain(k, v)
             /\ Decode3(k, v) = DecodePlain(k, v)
             /\ Decode4(k, v) = DecodePlain(k, v)
  BY <1>2, ZenonT(30) DEF Decode2, Decode3, Decode4, DecodeField
<1>3. ASSUME NEW k, NEW v, v.json \notin {"object", "array"}
      PROVE  /\ Encode2(k, v) = EncodePlain(k, v)
             /\ Encode3(k, v) = EncodePlain(k, v)
             /\ Encode4(k, v) = EncodePlain(k, v)
  BY <1>3, ZenonT(30) DEF Encode2, Encode3, Encode4, EncodeField
<1> QED
  BY <1>1, <1>2, <1>3

\* ReadReply() of an object: it can be read when its fields can be, into a model with
\* a zero value for every field the document lacks.
LEMMA ReadObject ==
  ASSUME NEW t, NEW o
  PROVE  LET r == ReadReply(t, Object(o)) IN
         /\ r.ok <=> \A f \in DOMAIN Model[t] \cap DOMAIN o : Fits4(Model[t][f], o[f])
         /\ r.ok => r.m = [f \in DOMAIN Model[t] |->
                             IF f \in DOMAIN o THEN Decode4(Model[t][f], o[f]) ELSE Null]
<1> DEFINE fits == \A f \in DOMAIN Model[t] \cap DOMAIN o : Fits4(Model[t][f], o[f])
           m == [f \in DOMAIN Model[t] |->
                   IF f \in DOMAIN o THEN Decode4(Model[t][f], o[f]) ELSE Null]
<1>1. Fits(Nested(t), Object(o)) <=> fits
  BY Documents, Kinds DEF Fits, FitsField, FitsModel, FitsPlain
<1>2. Decode(Nested(t), Object(o)) = Object(m)
  BY Documents, Kinds DEF Decode, DecodeField, DecodeModel
<1>3. /\ UnmarshalBinary(t, New(t), Object(o)).ok <=> fits
      /\ fits => UnmarshalBinary(t, New(t), Object(o)).m = Object(m)
  BY <1>1, <1>2, Documents DEF UnmarshalBinary
<1> QED
  BY <1>3, Documents DEF ReadReply

\* ReadReply() of what is no document is an error.
LEMMA ReadNothing ==
  \A t : ~ReadReply(t, Garbage).ok /\ ~ReadReply(t, NoReply).ok
<1> TAKE t
<1>1. ~Fits(Nested(t), Garbage) /\ ~Fits(Nested(t), NoReply)
  BY Documents, Kinds, ZenonT(30) DEF Fits, FitsField, FitsModel, FitsPlain
<1> QED
  BY <1>1 DEF ReadReply, UnmarshalBinary

\* A text other than "" is read as it is; a number other than 0 as well.
LEMMA PlainValues ==
  /\ \A k, s : /\ k.kind \in {"string", "enum"} => FitsPlain(k, Text(s))
               /\ s # EmptyString => DecodePlain(k, Text(s)) = Text(s)
               /\ DecodePlain(k, Text(s)) \in {Text(s), Null}
  /\ \A n : /\ FitsPlain(Integer, Number(n))
            /\ n # 0 => DecodePlain(Integer, Number(n)) = Number(n)
  /\ \A k : FitsPlain(k, Null) /\ DecodePlain(k, Null) = Null
<1>1. ASSUME NEW k, NEW s
      PROVE  /\ k.kind \in {"string", "enum"} => FitsPlain(k, Text(s))
             /\ s # EmptyString => DecodePlain(k, Text(s)) = Text(s)
             /\ DecodePlain(k, Text(s)) \in {Text(s), Null}
  <2>1. Text(s) = Text(EmptyString) => s = EmptyString
    BY Documents
  <2>2. Text(s) # Number(0)
    BY Documents
  <2> QED
    BY <2>1, <2>2, Documents DEF FitsPlain, DecodePlain
<1>2. ASSUME NEW n
      PROVE  /\ FitsPlain(Integer, Number(n))
             /\ n # 0 => DecodePlain(Integer, Number(n)) = Number(n)
  <2>1. Number(n) = Number(0) => n = 0
    BY Documents
  <2>2. Number(n) # Text(EmptyString)
    BY Documents
  <2> QED
    BY <2>1, <2>2, Documents, Kinds DEF FitsPlain, DecodePlain
<1>3. ASSUME NEW k PROVE FitsPlain(k, Null) /\ DecodePlain(k, Null) = Null
  BY Documents DEF FitsPlain, DecodePlain
<1> QED
  BY <1>1, <1>2, <1>3

\* The answer to a request for work names the cluster and the work item it names; an
\* error object is read as one that names neither.
LEMMA ReadWork ==
  LET r(reply) == ReadReply("ClusterWorkItemResponse", reply) IN
  /\ \A i \in Ids, w \in Works :
       /\ r(WorkItemBody(i, w)).ok
       /\ r(WorkItemBody(i, w)).m.clusterId = Text(i)
       /\ r(WorkItemBody(i, w)).m.workItemId = Text(w)
  /\ \A i \in Ids :
       LET reply == Object([clusterId |-> Text(i)])
       IN  r(reply).ok /\ r(reply).m.clusterId = Text(i) /\ r(reply).m.workItemId = Null
  /\ r(ErrorBody).ok /\ r(ErrorBody).m.clusterId = Null /\ r(ErrorBody).m.workItemId = Null
<1> DEFINE t == "ClusterWorkItemResponse"
           r(reply) == ReadReply(t, reply)
<1>1. Model[t] = [f \in {"clusterId", "workItemId"} |-> String]
  BY Models DEF ClusterWorkItemResponse, Strings
<1>2. ASSUME NEW x, x \in Ids \cup Works
      PROVE  Fits4(String, Text(x)) /\ Decode4(String, Text(x)) = Text(x)
  BY <1>2, OkeAssumption, PlainValues, PlainFields, Documents, Kinds
<1> HIDE DEF t
<1>3. ASSUME NEW o
      PROVE  /\ r(Object(o)).ok <=>
                  \A f \in {"clusterId", "workItemId"} \cap DOMAIN o : Fits4(String, o[f])
             /\ r(Object(o)).ok =>
                  \A f \in {"clusterId", "workItemId"} :
                    r(Object(o)).m[f] = IF f \in DOMAIN o THEN Decode4(String, o[f]) ELSE Null
  <2>1. DOMAIN Model[t] = {"clusterId", "workItemId"}
        /\ \A f \in {"clusterId", "workItemId"} : Model[t][f] = String
    BY <1>1
  <2>2. /\ r(Object(o)).ok <=>
             \A f \in DOMAIN Model[t] \cap DOMAIN o : Fits4(Model[t][f], o[f])
        /\ r(Object(o)).ok =>
             r(Object(o)).m = [f \in DOMAIN Model[t] |->
                IF f \in DOMAIN o THEN Decode4(Model[t][f], o[f]) ELSE Null]
    BY ReadObject
  <2> HIDE DEF r
  <2> QED
    BY <2>1, <2>2, ZenonT(30)
<1> HIDE DEF r
<1>4. ASSUME NEW i \in Ids, NEW w \in Works
      PROVE  /\ r(WorkItemBody(i, w)).ok
             /\ r(WorkItemBody(i, w)).m.clusterId = Text(i)
             /\ r(WorkItemBody(i, w)).m.workItemId = Text(w)
  BY <1>2, <1>3 DEF WorkItemBody
<1>5. ASSUME NEW i \in Ids
      PROVE  LET reply == Object([clusterId |-> Text(i)])
             IN  r(reply).ok /\ r(reply).m.clusterId = Text(i) /\ r(reply).m.workItemId = Null
  BY <1>2, <1>3
<1>6. r(ErrorBody).ok /\ r(ErrorBody).m.clusterId = Null /\ r(ErrorBody).m.workItemId = Null
  BY <1>3, ZenonT(30) DEF ErrorBody
<1> QED
  BY <1>4, <1>5, <1>6 DEF t, r

-----------------------------------------------------------------------------
(* Pools.                                                                   *)

\* The kinds of the fields of a pool and of an availability domain.
LEMMA PoolFields ==
  /\ DOMAIN Pool = {"imageId", "imageName", "k8Version", "name", "shape", "ads",
                    "workersPerAD"}
  /\ Pool["ads"] = Each("AdDetails") /\ Pool["workersPerAD"] = Integer
  /\ \A f \in DOMAIN Pool \ {"ads", "workersPerAD"} : Pool[f] = String
  /\ DOMAIN AdDetails = {"id", "subnet"}
  /\ \A f \in DOMAIN AdDetails : AdDetails[f] = String
<1> DEFINE others == [ads |-> Each("AdDetails"), workersPerAD |-> Integer]
<1>1. DOMAIN others = {"ads", "workersPerAD"} /\ others["ads"] = Each("AdDetails")
      /\ others["workersPerAD"] = Integer
  OBVIOUS
<1> HIDE DEF others
<1>2. Pool = StringsAnd({"imageId", "imageName", "k8Version", "name", "shape"}, others)
  BY DEF Pool, others
<1> QED
  BY <1>1, <1>2 DEF StringsAnd, AdDetails, Strings

\* A plain field is left out when it has its zero value and written as it is otherwise.
LEMMA WritePlain ==
  ASSUME NEW k \in {String, Integer}, NEW v, v.json \notin {"object", "array"}
  PROVE  /\ Omits(k, v) <=> v = Null
         /\ Encode2(k, v) = v /\ Encode3(k, v) = v
<1>1. k # StringKept
  BY DEF String, Integer, StringKept
<1>2. k.kind \in {"string", "int32"}
  BY Kinds
<1> QED
  BY <1>1, <1>2, PlainFields DEF Omits, EncodePlain

\* What is written of an availability domain and what is read of it.
LEMMA AdCodec ==
  ASSUME NEW a, WrittenAd(a)
  PROVE  LET m == DecodeModel(Decode2, "AdDetails", a)
         IN  /\ a # Null /\ FitsModel(Fits2, "AdDetails", a)
             /\ EncodeModel(Encode2, "AdDetails", m) = a
<1> DEFINE o == a.object
           m == [f \in {"id", "subnet"} |-> IF f \in DOMAIN o THEN o[f] ELSE Null]
<1>1. /\ a = Object(o) /\ o = [f \in DOMAIN o |-> o[f]] /\ DOMAIN o \subseteq {"id", "subnet"}
      /\ \A f \in DOMAIN o : o[f] = Text(o[f].text) /\ o[f].text # EmptyString
  BY PoolFields DEF WrittenAd, Written, WrittenText
<1> HIDE DEF o
<1>2. Model["AdDetails"] = AdDetails /\ DOMAIN AdDetails = {"id", "subnet"}
      /\ \A f \in {"id", "subnet"} : AdDetails[f] = String
  BY PoolFields, Models
<1>3. \A f \in DOMAIN o : /\ Fits2(String, o[f]) /\ Decode2(String, o[f]) = o[f]
                          /\ o[f].json = "text" /\ o[f] # Null
  BY <1>1, PlainValues, PlainFields, Documents, Kinds
<1>4. FitsModel(Fits2, "AdDetails", a)
  BY <1>1, <1>2, <1>3, Documents DEF FitsModel
<1>5. DecodeModel(Decode2, "AdDetails", a) = Object(m)
  BY <1>1, <1>2, <1>3, Documents DEF DecodeModel
<1>6. \A f \in {"id", "subnet"} : m[f].json \notin {"object", "array"}
                                  /\ (m[f] = Null <=> f \notin DOMAIN o)
  BY <1>1, <1>3, Documents, ZenonT(30)
<1>7. \A f \in {"id", "subnet"} : /\ Omits(String, m[f]) <=> f \notin DOMAIN o
                                  /\ Encode2(String, m[f]) = m[f]
  BY <1>6, WritePlain
<1>8. EncodeModel(Encode2, "AdDetails", Object(m)) =
        Object([f \in {g \in DOMAIN m : ~Omits(Model["AdDetails"][g], m[g])} |->
                  Encode2(Model["AdDetails"][f], m[f])])
  BY Documents, ZenonT(30) DEF EncodeModel
<1>9. {g \in DOMAIN m : ~Omits(Model["AdDetails"][g], m[g])} = DOMAIN o
  BY <1>1, <1>2, <1>7, ZenonT(30)
<1>10. [f \in DOMAIN o |-> Encode2(Model["AdDetails"][f], m[f])] = o
  BY <1>1, <1>2, <1>7
<1> QED
  BY <1>1, <1>4, <1>5, <1>8, <1>9, <1>10, Documents, ZenonT(30)

\* What is read of a pool.
LEMMA ReadPool ==
  ASSUME NEW p, WrittenPool(p)
  PROVE  LET m == DecodeModel(Decode3, "Pool", p).object
             ads == p.object.ads.items
         IN  /\ p # Null /\ FitsModel(Fits3, "Pool", p)
             /\ DecodeModel(Decode3, "Pool", p) = Object(m)
             /\ m = [f \in DOMAIN Pool |-> m[f]]
             /\ m.ads = Array([i \in DOMAIN ads |-> DecodeModel(Decode2, "AdDetails", ads[i])])
             /\ \A f \in DOMAIN Pool \ {"ads"} :
                  m[f] = IF f \in DOMAIN p.object THEN p.object[f] ELSE Null
<1> DEFINE o == p.object
           ads == o.ads.items
           adsRead == Array([i \in DOMAIN ads |-> DecodeModel(Decode2, "AdDetails", ads[i])])
           m == [f \in DOMAIN Pool |-> IF f \in DOMAIN o THEN Decode3(Pool[f], o[f]) ELSE Null]
<1>1. /\ p = Object(o) /\ DOMAIN o \subseteq DOMAIN Pool
      /\ "ads" \in DOMAIN o /\ o["ads"] = Array(ads) /\ ads \in Seq(Range(ads))
      /\ \A i \in DOMAIN ads : WrittenAd(ads[i])
      /\ "workersPerAD" \in DOMAIN o =>
           o["workersPerAD"] = Number(o["workersPerAD"].number)
             /\ o["workersPerAD"].number # 0
      /\ \A f \in DOMAIN o \ {"ads", "workersPerAD"} :
           o[f] = Text(o[f].text) /\ o[f].text # EmptyString
  BY ZenonT(30) DEF WrittenPool, Written, WrittenList, WrittenNumber, WrittenText
<1>2. Decode3(Each("AdDetails"), Array(ads)) = adsRead
  BY Documents, Kinds DEF Decode3, DecodeField
<1>3. Fits3(Each("AdDetails"), Array(ads))
  <2>1. Array(ads).items = ads /\ IsList(Array(ads))
    BY <1>1, Documents, ZenonT(30) DEF IsList
  <2>2. \A i \in DOMAIN ads : FitsModel(Fits2, "AdDetails", ads[i])
    BY <1>1, AdCodec, ZenonT(30)
  <2>3. Each("AdDetails").kind = "each" /\ Each("AdDetails").of = "AdDetails"
    BY Kinds
  <2> HIDE DEF ads
  <2> QED
    BY <2>1, <2>2, <2>3, ZenonT(30) DEF Fits3, FitsField
<1> HIDE DEF o, ads
<1>4. \A f \in DOMAIN o \ {"ads"} : Fits3(Pool[f], o[f]) /\ Decode3(Pool[f], o[f]) = o[f]
  <2> SUFFICES ASSUME NEW f \in DOMAIN o \ {"ads"}
               PROVE  Fits3(Pool[f], o[f]) /\ Decode3(Pool[f], o[f]) = o[f]
    BY ZenonT(60)
  <2>1. CASE f = "workersPerAD"
    <3>1. Pool[f] = Integer /\ o[f] = Number(o[f].number) /\ o[f].number # 0
      BY <1>1, <2>1, PoolFields, ZenonT(60)
    <3>2. FitsPlain(Integer, o[f]) /\ DecodePlain(Integer, o[f]) = o[f]
      BY <3>1, PlainValues, ZenonT(60)
    <3>3. o[f].json = "number"
      BY <3>1, Documents, ZenonT(60)
    <3>4. QED
      BY <3>1, <3>2, <3>3, PlainFields, ZenonT(60)
  <2>2. CASE f # "workersPerAD"
    <3>1. Pool[f] = String /\ o[f] = Text(o[f].text) /\ o[f].text # EmptyString
      BY <1>1, <2>2, PoolFields, ZenonT(60)
    <3>2. FitsPlain(String, o[f]) /\ DecodePlain(String, o[f]) = o[f]
      <4>1. String.kind \in {"string", "enum"}
        BY Kinds
      <4>2. /\ FitsPlain(String, Text(o[f].text))
            /\ DecodePlain(String, Text(o[f].text)) = Text(o[f].text)
        BY <3>1, <4>1, PlainValues, ZenonT(60)
      <4>3. QED
        BY <3>1, <4>2, ZenonT(60)
    <3>3. o[f].json = "text"
      BY <3>1, Documents, ZenonT(60)
    <3>4. QED
      BY <3>1, <3>2, <3>3, PlainFields, ZenonT(60)
  <2>3. QED
    BY <2>1, <2>2, ZenonT(60)
<1>5. Model["Pool"] = Pool
  BY Models
<1>6. FitsModel(Fits3, "Pool", p)
  <2>1. p.json = "object" /\ p.object = o
    BY <1>1, Documents, ZenonT(60)
  <2>2. Fits3(Pool["ads"], o["ads"])
    BY <1>1, <1>3, PoolFields, ZenonT(60)
  <2>3. \A f \in DOMAIN o : Fits3(Pool[f], o[f])
    BY <1>4, <2>2, ZenonT(60)
  <2>4. QED
    BY <1>5, <2>1, <2>3, ZenonT(60) DEF FitsModel
<1>7. DecodeModel(Decode3, "Pool", p) = Object(m)
  BY <1>1, <1>5, Documents DEF DecodeModel
<1>8. m["ads"] = adsRead
  BY <1>1, <1>2, PoolFields
<1>9. \A f \in DOMAIN Pool \ {"ads"} : m[f] = IF f \in DOMAIN o THEN o[f] ELSE Null
  BY <1>4
<1>10. DecodeModel(Decode3, "Pool", p).object = m
  BY <1>7, Documents
<1> HIDE DEF m
<1>11. m = [f \in DOMAIN Pool |-> m[f]]
  BY DEF m
<1> QED
  BY <1>1, <1>6, <1>7, <1>8, <1>9, <1>10, <1>11, Documents, ZenonT(30) DEF o, ads

\* What is written of a pool: the list of its availability domains and every other field
\* that has not its zero value.
LEMMA WritePool ==
  ASSUME NEW m, DOMAIN m = DOMAIN Pool, NEW items, m.ads = Array(items),
         \A f \in DOMAIN Pool \ {"ads"} : m[f].json \notin {"object", "array"}
  PROVE  LET ads == [i \in DOMAIN items |-> EncodeModel(Encode2, "AdDetails", items[i])]
         IN  EncodeModel(Encode3, "Pool", Object(m)) =
               Object([f \in {g \in DOMAIN Pool : g = "ads" \/ m[g] # Null} |->
                         IF f = "ads" THEN Array(ads) ELSE m[f]])
<1> DEFINE ads == [i \in DOMAIN items |-> EncodeModel(Encode2, "AdDetails", items[i])]
           kept == {g \in DOMAIN Pool : g = "ads" \/ m[g] # Null}
<1>1. Model["Pool"] = Pool
  BY Models
<1>2. EncodeModel(Encode3, "Pool", Object(m)) =
        Object([f \in {g \in DOMAIN m : ~Omits(Pool[g], m[g])} |-> Encode3(Pool[f], m[f])])
  BY <1>1, Documents DEF EncodeModel
<1>3. \A f \in DOMAIN Pool \ {"ads"} : /\ Omits(Pool[f], m[f]) <=> m[f] = Null
                                       /\ Encode3(Pool[f], m[f]) = m[f]
  BY PoolFields, WritePlain
<1>4. ~Omits(Pool["ads"], m["ads"])
  BY Documents DEF Omits
<1>5. Encode3(Pool["ads"], m["ads"]) = Array(ads)
  BY PoolFields, Documents, Kinds DEF Encode3, EncodeField
<1>6. {g \in DOMAIN m : ~Omits(Pool[g], m[g])} = kept
  BY <1>3, <1>4, PoolFields
<1>7. [f \in kept |-> Encode3(Pool[f], m[f])] =
        [f \in kept |-> IF f = "ads" THEN Array(ads) ELSE m[f]]
  BY <1>3, <1>5
<1> QED
  BY <1>2, <1>6, <1>7, ZenonT(30)

\* A pool that is read and written back with another number of workers is a pool as OKE
\* has them, and has the fields it had besides the number.
LEMMA PoolCodec ==
  ASSUME NEW p, WrittenPool(p), NEW n \in MinInt .. MaxInt
  PROVE  LET m == DecodeModel(Decode3, "Pool", p).object
             q == EncodeModel(Encode3, "Pool", Object([m EXCEPT !.workersPerAD = Held(n)]))
             others == DOMAIN p.object \ {"workersPerAD"}
         IN  /\ EncodeModel(Encode3, "Pool", Object(m)) = p
             /\ WrittenPool(q)
             /\ DOMAIN q.object \ {"workersPerAD"} = others
             /\ \A f \in others : q.object[f] = p.object[f]
             /\ "workersPerAD" \in DOMAIN q.object <=> n # 0
             /\ n # 0 => q.object.workersPerAD = Number(n)
<1> DEFINE o == p.object
           ads == o.ads.items
           m == DecodeModel(Decode3, "Pool", p).object
           read == [i \in DOMAIN ads |-> DecodeModel(Decode2, "AdDetails", ads[i])]
           back == [i \in DOMAIN read |-> EncodeModel(Encode2, "AdDetails", read[i])]
           new == [m EXCEPT !.workersPerAD = Held(n)]
           Kept(x) == {g \in DOMAIN Pool : g = "ads" \/ x[g] # Null}
           Put(x) == [f \in Kept(x) |-> IF f = "ads" THEN Array(back) ELSE x[f]]
<1>1. /\ p = Object(o) /\ o = [f \in DOMAIN o |-> o[f]] /\ DOMAIN o \subseteq DOMAIN Pool
      /\ "ads" \in DOMAIN o /\ o["ads"] = Array(ads) /\ ads \in Seq(Range(ads))
      /\ \A i \in DOMAIN ads : WrittenAd(ads[i])
      /\ "workersPerAD" \in DOMAIN o => WrittenNumber(o["workersPerAD"])
      /\ \A f \in DOMAIN o \ {"ads", "workersPerAD"} : WrittenText(o[f])
  BY DEF WrittenPool, Written, WrittenList
<1>2. /\ m = [f \in DOMAIN Pool |-> m[f]] /\ m["ads"] = Array(read)
      /\ \A f \in DOMAIN Pool \ {"ads"} : m[f] = IF f \in DOMAIN o THEN o[f] ELSE Null
  BY ReadPool
<1>3. back = ads
  <2>1. \A i \in DOMAIN ads : EncodeModel(Encode2, "AdDetails", read[i]) = ads[i]
    BY <1>1, AdCodec, ZenonT(30)
  <2>2. ads = [i \in DOMAIN ads |-> ads[i]]
    BY <1>1
  <2> HIDE DEF ads
  <2> QED
    BY <2>1, <2>2
<1>4. \A f \in DOMAIN o \ {"ads"} : o[f].json \in {"text", "number"} /\ o[f] # Null
  BY <1>1, Documents DEF WrittenNumber, WrittenText
<1> HIDE DEF o, ads, m, back
<1>5. \A f \in DOMAIN Pool \ {"ads"} : /\ m[f].json \notin {"object", "array"}
                                       /\ m[f] = Null <=> f \notin DOMAIN o
  BY <1>2, <1>4, Documents
<1>6. EncodeModel(Encode3, "Pool", Object(m)) = Object(Put(m))
  BY <1>2, <1>5, WritePool DEF back
<1>7. Put(m) = o
  <2>1. Kept(m) = DOMAIN o
    BY <1>1, <1>5, PoolFields, ZenonT(30)
  <2>2. \A f \in DOMAIN o : Put(m)[f] = o[f]
    BY <1>1, <1>2, <1>3, <2>1, ZenonT(30)
  <2> QED
    BY <1>1, <2>1, <2>2, ZenonT(30)
<1>8. /\ new = [f \in DOMAIN Pool |-> new[f]] /\ new["workersPerAD"] = Held(n)
      /\ \A f \in DOMAIN Pool \ {"workersPerAD"} : new[f] = m[f]
  BY <1>2, PoolFields
<1>9. Held(n).json \in {"null", "number"} /\ (Held(n) = Null <=> n = 0)
      /\ (n # 0 => Held(n) = Number(n))
  BY Documents DEF Held
<1> HIDE DEF new
<1>10. \A f \in DOMAIN Pool \ {"ads"} : new[f].json \notin {"object", "array"}
  BY <1>5, <1>8, <1>9
<1>11. EncodeModel(Encode3, "Pool", Object(new)) = Object(Put(new))
  <2>1. DOMAIN new = DOMAIN Pool /\ new["ads"] = Array(read)
    BY <1>2, <1>8, PoolFields
  <2> QED
    BY <1>10, <2>1, WritePool DEF back
<1>12. /\ Kept(new) \ {"workersPerAD"} = DOMAIN o \ {"workersPerAD"}
       /\ "workersPerAD" \in Kept(new) <=> n # 0
  <2>1. ASSUME NEW f \in DOMAIN Pool \ {"workersPerAD"}
        PROVE  f \in Kept(new) <=> f \in DOMAIN o
    BY <1>1, <1>5, <1>8
  <2>2. "workersPerAD" \in Kept(new) <=> n # 0
    BY <1>8, <1>9, PoolFields
  <2> QED
    BY <1>1, <2>1, <2>2
<1>13. \A f \in DOMAIN o \ {"workersPerAD"} : Put(new)[f] = o[f]
  BY <1>1, <1>2, <1>3, <1>8, <1>12, ZenonT(30)
<1>14. n # 0 => Put(new)["workersPerAD"] = Number(n)
  BY <1>8, <1>9, <1>12
<1> DEFINE u == Put(new)
<1>15. DOMAIN u = Kept(new) /\ u = [f \in DOMAIN u |-> u[f]]
  OBVIOUS
<1> HIDE DEF u, Put, Kept
<1>16. WrittenPool(Object(u))
  <2>1. Written(Object(u), DOMAIN Pool)
    BY <1>15, Documents DEF Written, Kept
  <2>2. "ads" \in DOMAIN u /\ u["ads"] = o["ads"]
    BY <1>1, <1>12, <1>13, <1>15 DEF u
  <2>3. "workersPerAD" \in DOMAIN u => WrittenNumber(u["workersPerAD"])
    BY <1>12, <1>14, <1>15, Documents DEF WrittenNumber, u
  <2>4. \A f \in DOMAIN u \ {"ads", "workersPerAD"} : WrittenText(u[f])
    BY <1>1, <1>12, <1>13, <1>15, ZenonT(30) DEF u
  <2>5. WrittenList(u["ads"]) /\ \A i \in DOMAIN u["ads"].items : WrittenAd(u["ads"].items[i])
    BY <1>1, <2>2, Documents DEF WrittenList
  <2> QED
    BY <2>1, <2>2, <2>3, <2>4, <2>5, Documents, ZenonT(60) DEF WrittenPool
<1>17. /\ EncodeModel(Encode3, "Pool", Object(m)) = p
       /\ EncodeModel(Encode3, "Pool", Object(new)) = Object(u)
       /\ Object(u).object = u
  BY <1>1, <1>6, <1>7, <1>11, Documents DEF u
<1>18. /\ DOMAIN u \ {"workersPerAD"} = DOMAIN o \ {"workersPerAD"}
       /\ \A f \in DOMAIN o \ {"workersPerAD"} : u[f] = o[f]
       /\ "workersPerAD" \in DOMAIN u <=> n # 0
       /\ n # 0 => u["workersPerAD"] = Number(n)
  BY <1>12, <1>13, <1>14, <1>15 DEF u
<1> QED
  BY <1>16, <1>17, <1>18 DEF o, m, new

\* Pools as OKE has them, with those asked for in front.
PoolsOK(v) ==
  /\ WrittenList(v) /\ v.items # <<>>
  /\ \A k \in DOMAIN v.items : WrittenPool(v.items[k])
  /\ Len(v.items[1].object.ads.items) = Len(NodeZones)

\* The document a scale reads the pools from, as the model holds it.
ReadPools(v) ==
  Array([k \in DOMAIN v.items |-> DecodeModel(Decode3, "Pool", v.items[k])])

\* What OKE reads in a request is what is written of each of its pools.
LEMMA SentPools ==
  ASSUME NEW items
  PROVE  Sent(Array(items)) =
           Array([k \in DOMAIN items |-> EncodeModel(Encode3, "Pool", items[k])])
<1> DEFINE t == "ClusterPools"
           none == [f \in {"clusterId", "pools"} |-> Null]
           m == [none EXCEPT !.pools = Array(items)]
           kept == {g \in DOMAIN m : ~Omits(ClusterPools[g], m[g])}
           written == [f \in kept |-> Encode4(ClusterPools[f], m[f])]
<1>1. /\ Model[t] = ClusterPools /\ DOMAIN ClusterPools = {"clusterId", "pools"}
      /\ ClusterPools["pools"] = Each("Pool")
  BY Models DEF ClusterPools, StringsAnd
<1>2. New(t) = Object(none)
  <2>1. Empty = Object(<<>>) /\ DOMAIN <<>> = {}
    BY DEF Empty
  <2>2. New(t) = DecodeModel(Decode4, t, Empty)
    BY <2>1, Documents, Kinds DEF New, Decode, DecodeField
  <2> QED
    BY <1>1, <2>1, <2>2, Documents DEF DecodeModel
<1>3. Encode(Nested(t), Object(m)) = Object(written)
  <2>1. Object(m).json = "object" /\ Object(m).object = m /\ Object(m) # Null
    BY Documents
  <2>2. Encode(Nested(t), Object(m)) = EncodeModel(Encode4, t, Object(m))
    BY <2>1, Kinds DEF Encode, EncodeField
  <2> HIDE DEF m
  <2> QED
    BY <1>1, <2>1, <2>2, ZenonT(30) DEF EncodeModel
<1>4. m["pools"] = Array(items) /\ "pools" \in DOMAIN m
  OBVIOUS
<1>5. "pools" \in kept
  BY <1>1, <1>4, Documents DEF Omits
<1>6. written["pools"] = Encode4(Each("Pool"), Array(items))
  BY <1>1, <1>4, <1>5
<1>7. Encode4(Each("Pool"), Array(items)) =
        Array([k \in DOMAIN items |-> EncodeModel(Encode3, "Pool", items[k])])
  BY Documents, Kinds DEF Encode4, EncodeField
<1> HIDE DEF none, written
<1>8. Sent(Array(items)) = Object(written).object.pools
  BY <1>2, <1>3, Documents DEF Sent, MarshalBinary
<1> QED
  BY <1>6, <1>7, <1>8, Documents

\* The answer to a request for pools is read as the pools OKE has; an error object as an
\* answer without pools.
LEMMA ReadPoolsReply ==
  LET r(reply) == ReadReply("ClusterPoolsResponse", reply) IN
  /\ \A v : PoolsOK(v) =>
       LET reply == Object([pools |-> v])
       IN  r(reply).ok /\ r(reply).m.pools = ReadPools(v)
  /\ r(ErrorBody).ok /\ r(ErrorBody).m.pools = Null
<1> DEFINE t == "ClusterPoolsResponse"
           r(reply) == ReadReply(t, reply)
<1>1. /\ Model[t] = ClusterPoolsResponse
      /\ DOMAIN ClusterPoolsResponse = {"resourceOwnerId", "pools"}
      /\ ClusterPoolsResponse["pools"] = Each("Pool")
  BY Models DEF ClusterPoolsResponse, StringsAnd
<1> HIDE DEF t
<1>2. ASSUME NEW o
      PROVE  /\ ("resourceOwnerId" \notin DOMAIN o
                   /\ ("pools" \in DOMAIN o => Fits4(Each("Pool"), o["pools"])))
                  => r(Object(o)).ok
             /\ r(Object(o)).ok =>
                  r(Object(o)).m["pools"] =
                    IF "pools" \in DOMAIN o THEN Decode4(Each("Pool"), o["pools"]) ELSE Null
  <2>1. /\ r(Object(o)).ok <=>
             \A f \in DOMAIN Model[t] \cap DOMAIN o : Fits4(Model[t][f], o[f])
        /\ r(Object(o)).ok =>
             r(Object(o)).m = [f \in DOMAIN Model[t] |->
                IF f \in DOMAIN o THEN Decode4(Model[t][f], o[f]) ELSE Null]
    BY ReadObject
  <2> HIDE DEF r
  <2> QED
    BY <1>1, <2>1
<1> HIDE DEF r
<1>3. ASSUME NEW v, PoolsOK(v)
      PROVE  LET reply == Object([pools |-> v])
             IN  r(reply).ok /\ r(reply).m.pools = ReadPools(v)
  <2>1. /\ v = Array(v.items) /\ v.items \in Seq(Range(v.items))
        /\ \A k \in DOMAIN v.items : WrittenPool(v.items[k])
    BY <1>3 DEF PoolsOK, WrittenList
  <2>2. Fits4(Each("Pool"), v)
    <3>1. \A k \in DOMAIN v.items : FitsModel(Fits3, "Pool", v.items[k])
      BY <2>1, ReadPool, ZenonT(30)
    <3>2. IsList(v)
      BY <2>1, Documents DEF IsList
    <3>3. Each("Pool").kind = "each" /\ Each("Pool").of = "Pool"
      BY Kinds
    <3> QED
      BY <3>1, <3>2, <3>3, ZenonT(30) DEF Fits4, FitsField
  <2>3. Decode4(Each("Pool"), v) = ReadPools(v)
    BY <2>1, Documents, Kinds DEF Decode4, DecodeField, ReadPools
  <2>4. DOMAIN [pools |-> v] = {"pools"} /\ [pools |-> v]["pools"] = v
    OBVIOUS
  <2>5. r(Object([pools |-> v])).ok
    BY <1>2, <2>2, <2>4
  <2> QED
    BY <1>2, <2>3, <2>4, <2>5
<1>4. r(ErrorBody).ok /\ r(ErrorBody).m.pools = Null
  <2>1. DOMAIN [code |-> Number(1), message |-> Text("refused")] = {"code", "message"}
    OBVIOUS
  <2>2. r(ErrorBody).ok
    BY <1>2, <2>1 DEF ErrorBody
  <2> QED
    BY <1>2, <2>1, <2>2 DEF ErrorBody
<1> QED
  BY <1>3, <1>4 DEF t, r

\* The status of a work item is read as Complete only if it is.
LEMMA ReadStatus ==
  LET r(reply) == ReadReply("WorkItem", reply) IN
  /\ \A s : LET reply == Object([statusString |-> Text(s)])
            IN  r(reply).ok /\ r(reply).m.statusString = Text("Complete") => s = "Complete"
  /\ ~(r(ErrorBody).ok /\ r(ErrorBody).m.statusString = Text("Complete"))
<1> DEFINE t == "WorkItem"
           r(reply) == ReadReply(t, reply)
           others == [activity |-> Actarray, status |-> Between(0, 3), type |-> Between(0, 2),
                      statusString |-> Enum({"New", "Running", "Complete", "Failed"})]
<1>1. "statusString" \in DOMAIN others
  OBVIOUS
<1> HIDE DEF others
<1>2. Model[t] = WorkItem /\ "statusString" \in DOMAIN WorkItem
  BY <1>1, Models, ZenonT(60) DEF WorkItem, StringsAnd, others
<1> HIDE DEF t
<1>3. ASSUME NEW o, r(Object(o)).ok
      PROVE  r(Object(o)).m["statusString"] =
               IF "statusString" \in DOMAIN o
               THEN Decode4(WorkItem["statusString"], o["statusString"]) ELSE Null
  <2>1. r(Object(o)).m = [f \in DOMAIN Model[t] |->
           IF f \in DOMAIN o THEN Decode4(Model[t][f], o[f]) ELSE Null]
    BY <1>3, ReadObject
  <2> HIDE DEF r
  <2> QED
    BY <1>2, <2>1
<1> HIDE DEF r
<1>4. ASSUME NEW k, NEW s, Decode4(k, Text(s)) = Text("Complete") PROVE s = "Complete"
  BY <1>4, PlainFields, PlainValues, Documents
<1>5. ASSUME NEW s, r(Object([statusString |-> Text(s)])).ok,
             r(Object([statusString |-> Text(s)])).m.statusString = Text("Complete")
      PROVE  s = "Complete"
  <2>1. DOMAIN [statusString |-> Text(s)] = {"statusString"}
        /\ [statusString |-> Text(s)]["statusString"] = Text(s)
    OBVIOUS
  <2> QED
    BY <1>3, <1>4, <1>5, <2>1
<1>6. ~(r(ErrorBody).ok /\ r(ErrorBody).m.statusString = Text("Complete"))
  <2>1. DOMAIN [code |-> Number(1), message |-> Text("refused")] = {"code", "message"}
    OBVIOUS
  <2> QED
    BY <1>3, <2>1, Documents DEF ErrorBody
<1> QED
  BY <1>5, <1>6 DEF t, r

\* An error object is read as details without a cluster.
LEMMA ReadDetailsError ==
  ReadReply("ClusterDetails", ErrorBody).ok =>
    ReadReply("ClusterDetails", ErrorBody).m.k8 = Null
<1> DEFINE t == "ClusterDetails"
           o == [code |-> Number(1), message |-> Text("refused")]
<1>1. DOMAIN o = {"code", "message"} /\ ErrorBody = Object(o)
  BY DEF ErrorBody
<1>2. Model[t] = ClusterDetails /\ "k8" \in DOMAIN ClusterDetails
  BY Models DEF ClusterDetails
<1> HIDE DEF t, o
<1>3. ReadReply(t, Object(o)).ok =>
        ReadReply(t, Object(o)).m = [f \in DOMAIN Model[t] |->
          IF f \in DOMAIN o THEN Decode4(Model[t][f], o[f]) ELSE Null]
  BY ReadObject
<1> QED
  BY <1>1, <1>2, <1>3, ZenonT(30) DEF t

\* The details of a cluster are read with its state, as running only if it is.
LEMMA ReadDetails ==
  LET r(reply) == ReadReply("ClusterDetails", reply) IN
  \A a, b :
    LET reply == Object([k8 |-> Object([mastersState |-> Text(a), nodesState |-> Text(b)])])
    IN  r(reply).ok =>
          r(reply).m.k8 # Null
            /\ (Runs(r(reply).m.k8.object) => a = "RUNNING" /\ b = "RUNNING")
<1> DEFINE t == "ClusterDetails"
           r(reply) == ReadReply(t, reply)
           others == [endpoints |-> Other, bmcClusterConfig |-> Nested("BMCClusterConfig"),
                      cloudDetails |-> Nested("CloudDetails"),
                      metadata |-> Nested("ClusterMetadata"),
                      stateDetails |-> Nested("StateDetails"),
                      mastersState |-> ClusterMastersState,
                      nodesState |-> ClusterNodesState, state |-> ClusterState,
                      tkmState |-> ClusterTkmState, tkwState |-> ClusterTkwState]
<1>1. "mastersState" \in DOMAIN others /\ "nodesState" \in DOMAIN others
  OBVIOUS
<1> HIDE DEF others
<1>2. /\ Model["Cluster"] = Cluster
      /\ "mastersState" \in DOMAIN Cluster /\ "nodesState" \in DOMAIN Cluster
  BY <1>1, Models, ZenonT(30) DEF Cluster, StringsAnd, others
<1>3. Model[t] = ClusterDetails /\ "k8" \in DOMAIN ClusterDetails
      /\ ClusterDetails["k8"] = Nested("Cluster")
  BY Models DEF ClusterDetails
<1> HIDE DEF t
<1>4. ASSUME NEW k, NEW s, Decode3(k, Text(s)) = Text("RUNNING") PROVE s = "RUNNING"
  BY <1>4, PlainFields, PlainValues, Documents
<1> SUFFICES ASSUME NEW a, NEW b,
                    r(Object([k8 |-> Object([mastersState |-> Text(a),
                                             nodesState |-> Text(b)])])).ok
             PROVE  LET k8 == r(Object([k8 |-> Object([mastersState |-> Text(a),
                                                       nodesState |-> Text(b)])])).m.k8
                    IN  /\ k8 # Null
                        /\ Runs(k8.object) => a = "RUNNING" /\ b = "RUNNING"
  BY DEF t
<1> DEFINE c == [mastersState |-> Text(a), nodesState |-> Text(b)]
           o == [k8 |-> Object(c)]
           m == [f \in DOMAIN Cluster |->
                   IF f \in DOMAIN c THEN Decode3(Cluster[f], c[f]) ELSE Null]
<1>5. /\ DOMAIN c = {"mastersState", "nodesState"}
      /\ c["mastersState"] = Text(a) /\ c["nodesState"] = Text(b)
      /\ DOMAIN o = {"k8"} /\ o["k8"] = Object(c)
  OBVIOUS
<1>6. r(Object(o)).m = [f \in DOMAIN Model[t] |->
                          IF f \in DOMAIN o THEN Decode4(Model[t][f], o[f]) ELSE Null]
  BY ReadObject
<1> HIDE DEF c, o, r
<1>7. r(Object(o)).m["k8"] = Decode4(Nested("Cluster"), Object(c))
  BY <1>3, <1>5, <1>6, ZenonT(30)
<1>8. Decode4(Nested("Cluster"), Object(c)) = Object(m)
  BY <1>2, Documents, Kinds DEF Decode4, DecodeField, DecodeModel
<1>9. /\ m["mastersState"] = Decode3(Cluster["mastersState"], Text(a))
      /\ m["nodesState"] = Decode3(Cluster["nodesState"], Text(b))
  BY <1>2, <1>5
<1> HIDE DEF m
<1>10. r(Object(o)).m["k8"] # Null /\ r(Object(o)).m["k8"].object = m
  BY <1>7, <1>8, Documents
<1>11. Runs(m) => a = "RUNNING" /\ b = "RUNNING"
  BY <1>4, <1>9 DEF Runs
<1> QED
  BY <1>10, <1>11 DEF o, c

-----------------------------------------------------------------------------
(* Numbers of workers.                                                      *)

\* The remainder of a division.
LEMMA ModRange ==
  ASSUME NEW a \in Int, NEW m \in Nat \ {0}
  PROVE  a % m \in 0 .. (m - 1)
  OBVIOUS

\* The conversion int32() gives an int32.
LEMMA Int32Range ==
  ASSUME NEW n \in Int
  PROVE  Int32(n) \in MinInt .. MaxInt
<1>1. n - MinInt \in Int /\ 2 * (MaxInt + 1) \in Nat \ {0}
  BY OkeAssumption DEF MinInt
<1>2. (n - MinInt) % (2 * (MaxInt + 1)) \in 0 .. (2 * (MaxInt + 1) - 1)
  BY <1>1, ModRange, ZenonT(30)
<1> QED
  BY <1>2, OkeAssumption DEF Int32, MinInt

\* The new number of workers is an int32 again.
LEMMA ScaledType ==
  ASSUME NEW n \in MinInt .. MaxInt, NEW by \in Int
  PROVE  Scaled(n, by) \in MinInt .. MaxInt
<1>1. MinInt \in Int /\ MaxInt \in Int /\ 1 \in MinInt .. MaxInt
  BY OkeAssumption DEF MinInt
<1>2. n + Int32(by) \in Int
  BY <1>1, Int32Range
<1>3. Int32(n + Int32(by)) \in MinInt .. MaxInt
  BY <1>2, Int32Range
<1> QED
  BY <1>1, <1>3, ZenonT(30) DEF Scaled

\* The number of nodes is the one a pool at OKE has; a number of 0 is not written.
CountOf(p, nodes) ==
  IF "workersPerAD" \in DOMAIN p.object
  THEN nodes = p.object.workersPerAD.number * Len(NodeZones) ELSE nodes = 0

\* The pools of an answer are not empty, and the first has an int32 of workers.
LEMMA FirstPool ==
  ASSUME NEW v, PoolsOK(v)
  PROVE  /\ ReadPools(v) # Null /\ ReadPools(v) # Array(<<>>)
         /\ 1 \in DOMAIN v.items /\ DOMAIN ReadPools(v).items = DOMAIN v.items
         /\ Workers(ReadPools(v).items[1]) \in MinInt .. MaxInt
<1> DEFINE items == v.items
           read == [k \in DOMAIN items |-> DecodeModel(Decode3, "Pool", items[k])]
           p == items[1]
           m == DecodeModel(Decode3, "Pool", p).object
<1>1. /\ items \in Seq(Range(items)) /\ items # <<>>
      /\ \A k \in DOMAIN items : WrittenPool(items[k])
  BY DEF PoolsOK, WrittenList
<1> HIDE DEF items
<1>2. 1 \in DOMAIN items
  BY <1>1
<1>3. ReadPools(v) = Array(read)
  BY DEF ReadPools, items
<1>4. read # <<>> /\ DOMAIN read = DOMAIN items /\ read[1] = DecodeModel(Decode3, "Pool", p)
  BY <1>2
<1>5. WrittenPool(p)
  BY <1>1, <1>2
<1> HIDE DEF read, p, m
<1>6. /\ DecodeModel(Decode3, "Pool", p) = Object(m)
      /\ m["workersPerAD"] =
           IF "workersPerAD" \in DOMAIN p.object THEN p.object["workersPerAD"] ELSE Null
  BY <1>5, ReadPool, PoolFields, ZenonT(30) DEF m
<1>7. "workersPerAD" \in DOMAIN p.object =>
        /\ p.object["workersPerAD"] # Null
        /\ p.object["workersPerAD"].number \in MinInt .. MaxInt
  BY <1>5, Documents, ZenonT(30) DEF WrittenPool, WrittenNumber
<1>8. Workers(Object(m)) \in MinInt .. MaxInt
  <2>1. 0 \in MinInt .. MaxInt
    BY OkeAssumption DEF MinInt
  <2>2. Object(m).object = m
    BY Documents
  <2> QED
    BY <1>6, <1>7, <2>1, <2>2, ZenonT(30) DEF Workers
<1> QED
  BY <1>2, <1>3, <1>4, <1>6, <1>8, Documents DEF items

\* A function on 1 .. n is a sequence.
LEMMA FunctionIsList ==
  ASSUME NEW n \in Nat, NEW s, s = [k \in 1 .. n |-> s[k]]
  PROVE  s \in Seq(Range(s)) /\ Len(s) = n
<1>1. \A k \in 1 .. n : s[k] \in Range(s)
  BY DEF Range
<1> QED
  BY <1>1

\* Sequences that differ in the first element only have the same tail.
LEMMA SameTail ==
  ASSUME NEW s, NEW t, s \in Seq(Range(s)), t \in Seq(Range(t)), s # <<>>, Len(t) = Len(s),
         \A k \in DOMAIN s \ {1} : t[k] = s[k]
  PROVE  Tail(t) = Tail(s)
<1>1. /\ Tail(s) \in Seq(Range(s)) /\ Len(Tail(s)) = Len(s) - 1
      /\ \A k \in 1 .. (Len(s) - 1) : Tail(s)[k] = s[k + 1]
  OBVIOUS
<1>2. /\ Tail(t) \in Seq(Range(t)) /\ Len(Tail(t)) = Len(s) - 1
      /\ \A k \in 1 .. (Len(s) - 1) : Tail(t)[k] = t[k + 1]
  OBVIOUS
<1>3. \A k \in 1 .. (Len(s) - 1) : t[k + 1] = s[k + 1]
  OBVIOUS
<1> QED
  BY <1>1, <1>2, <1>3

\* The pools that are read, changed and sent back: the first has the new number of workers,
\* everything else is as OKE had it, and the count is right.
LEMMA ScaledPools ==
  ASSUME NEW v, PoolsOK(v), NEW n \in MinInt .. MaxInt
  PROVE  LET go == Resized(ReadPools(v), n)
             new == Sent(go)
             others == DOMAIN v.items[1].object \ {"workersPerAD"}
         IN  /\ PoolsOK(new)
             /\ Tail(new.items) = Tail(v.items)
             /\ DOMAIN new.items[1].object \ {"workersPerAD"} = others
             /\ \A f \in others : new.items[1].object[f] = v.items[1].object[f]
             /\ CountOf(new.items[1], Nodes(go.items[1]))
<1> DEFINE items == v.items
           p == items[1]
           m == DecodeModel(Decode3, "Pool", p).object
           read == [k \in DOMAIN items |-> DecodeModel(Decode3, "Pool", items[k])]
           first == Object([m EXCEPT !.workersPerAD = Held(n)])
           go == [read EXCEPT ![1] = first]
           back == [k \in DOMAIN go |-> EncodeModel(Encode3, "Pool", go[k])]
           q == EncodeModel(Encode3, "Pool", first)
<1>1. /\ items \in Seq(Range(items)) /\ items # <<>>
      /\ \A k \in DOMAIN items : WrittenPool(items[k])
      /\ Len(p.object.ads.items) = Len(NodeZones)
  BY DEF PoolsOK, WrittenList
<1>2. Resized(ReadPools(v), n) = Array(go)
  <2>1. ReadPools(v).items = read
    BY Documents DEF ReadPools
  <2>2. 1 \in DOMAIN items
    BY <1>1
  <2>3. read[1].object = m
    BY <2>2
  <2> HIDE DEF read, m
  <2> QED
    BY <2>1, <2>3 DEF Resized
<1>3. Sent(Array(go)) = Array(back)
  BY SentPools, ZenonT(30)
<1> HIDE DEF items
<1>4. 1 \in DOMAIN items /\ DOMAIN items = 1 .. Len(items) /\ Len(items) \in Nat
  BY <1>1
<1>5. /\ DOMAIN go = DOMAIN items /\ go[1] = first
      /\ \A k \in DOMAIN items \ {1} : go[k] = DecodeModel(Decode3, "Pool", items[k])
  BY <1>4
<1>6. \A k \in DOMAIN items \ {1} : back[k] = items[k]
  <2> TAKE k \in DOMAIN items \ {1}
  <2>1. WrittenPool(items[k]) /\ 1 \in MinInt .. MaxInt
    BY <1>1, OkeAssumption DEF MinInt
  <2>2. /\ DecodeModel(Decode3, "Pool", items[k]) =
             Object(DecodeModel(Decode3, "Pool", items[k]).object)
        /\ EncodeModel(Encode3, "Pool", Object(DecodeModel(Decode3, "Pool", items[k]).object))
             = items[k]
    BY <2>1, ReadPool, PoolCodec, ZenonT(30)
  <2> QED
    BY <1>5, <2>2
<1>7. back[1] = q
  BY <1>4, <1>5
<1>8. WrittenPool(p)
  BY <1>1, <1>4
<1> HIDE DEF p, go
<1>9. /\ WrittenPool(q)
      /\ DOMAIN q.object \ {"workersPerAD"} = DOMAIN p.object \ {"workersPerAD"}
      /\ \A f \in DOMAIN p.object \ {"workersPerAD"} : q.object[f] = p.object[f]
      /\ "workersPerAD" \in DOMAIN q.object <=> n # 0
      /\ n # 0 => q.object["workersPerAD"] = Number(n)
  BY <1>8, PoolCodec
<1> HIDE DEF q, first
<1>10. back = [k \in 1 .. Len(items) |-> back[k]]
  BY <1>4, <1>5
<1> HIDE DEF back
<1>11. back \in Seq(Range(back)) /\ Len(back) = Len(items)
  BY <1>4, <1>10, FunctionIsList
<1>12. DOMAIN back = DOMAIN items /\ back # <<>>
  BY <1>4, <1>11
<1>13. Tail(back) = Tail(items)
  BY <1>1, <1>6, <1>11, SameTail
<1>14. "ads" \in DOMAIN p.object /\ q.object["ads"] = p.object["ads"]
  BY <1>8, <1>9 DEF WrittenPool
<1>15. PoolsOK(Array(back))
  <2>1. \A k \in DOMAIN back : WrittenPool(back[k])
    BY <1>1, <1>6, <1>7, <1>9, <1>12
  <2>2. Len(back[1].object.ads.items) = Len(NodeZones)
    BY <1>1, <1>7, <1>14
  <2> QED
    BY <1>11, <1>12, <2>1, <2>2, Documents, ZenonT(30) DEF PoolsOK, WrittenList
<1>16. CountOf(q, Nodes(first))
  <2> DEFINE ads == p.object.ads.items
             w == [m EXCEPT !.workersPerAD = Held(n)]
  <2>1. /\ m = [f \in DOMAIN Pool |-> m[f]]
        /\ m["ads"] = Array([i \in DOMAIN ads |-> DecodeModel(Decode2, "AdDetails", ads[i])])
    BY <1>8, ReadPool
  <2>2. ads \in Seq(Range(ads))
    BY <1>8 DEF WrittenPool, WrittenList
  <2> HIDE DEF m, ads
  <2>3. w["workersPerAD"] = Held(n) /\ w["ads"] = m["ads"]
    BY <2>1, PoolFields
  <2>a. first = Object(w)
    BY DEF first
  <2> HIDE DEF w
  <2>4. Len(m["ads"].items) = Len(ads)
    <3> DEFINE s == [i \in DOMAIN ads |-> DecodeModel(Decode2, "AdDetails", ads[i])]
    <3>1. DOMAIN ads = 1 .. Len(ads) /\ Len(ads) \in Nat
      BY <2>2
    <3>2. s = [k \in 1 .. Len(ads) |-> s[k]]
      BY <3>1
    <3> HIDE DEF s
    <3>3. Len(s) = Len(ads)
      BY <3>1, <3>2, FunctionIsList
    <3> QED
      BY <2>1, <3>3, Documents DEF s
  <2>5. Len(ads) = Len(NodeZones) /\ Len(NodeZones) \in Nat
    BY <1>1, OkeAssumption DEF ads, p
  <2>6. Workers(first) = n
    BY <2>3, <2>a, Documents DEF Workers, Held
  <2>7. Nodes(first) = n * Len(NodeZones)
    <3>1. Len(first.object.ads.items) = Len(NodeZones)
      BY <2>3, <2>a, <2>4, <2>5, Documents
    <3> QED
      BY <2>6, <3>1 DEF Nodes
  <2>8. n \in Int
    BY OkeAssumption DEF MinInt
  <2> QED
    BY <1>9, <2>5, <2>7, <2>8, Documents DEF CountOf
<1>17. /\ Sent(Resized(ReadPools(v), n)) = Array(back)
       /\ Array(back).items[1] = q
       /\ Resized(ReadPools(v), n).items[1] = first
  BY <1>2, <1>3, <1>5, <1>7, Documents, ZenonT(60)
<1>18. Tail(Array(back).items) = Tail(v.items) /\ p = v.items[1]
  BY <1>13, Documents, ZenonT(30) DEF items, p
<1> QED
  BY <1>9, <1>15, <1>16, <1>17, <1>18, ZenonT(30)

\* What is written of an availability domain that is named, with "" for a name or not.
LEMMA NamedAd ==
  ASSUME NEW s
  PROVE  WrittenAd(EncodeModel(Encode2, "AdDetails", Object([id |-> HeldText(s)])))
<1> DEFINE o == [id |-> HeldText(s)]
           kept == {g \in DOMAIN o : ~Omits(AdDetails[g], o[g])}
           u == [f \in kept |-> Encode2(AdDetails[f], o[f])]
<1>1. DOMAIN o = {"id"} /\ o["id"] = HeldText(s)
  OBVIOUS
<1> HIDE DEF o
<1>2. EncodeModel(Encode2, "AdDetails", Object(o)) = Object(u)
  BY Models, Documents, ZenonT(60) DEF EncodeModel
<1>3. AdDetails["id"] = String /\ DOMAIN AdDetails = {"id", "subnet"}
  BY PoolFields
<1>4. /\ HeldText(s).json \in {"null", "text"}
      /\ HeldText(s) # Null => WrittenText(HeldText(s))
  BY Documents DEF HeldText, WrittenText
<1>5. /\ Omits(String, HeldText(s)) <=> HeldText(s) = Null
      /\ Encode2(String, HeldText(s)) = HeldText(s)
  BY <1>4, WritePlain
<1>6. DOMAIN u \subseteq {"id"} /\ u = [f \in DOMAIN u |-> u[f]]
      /\ \A f \in DOMAIN u : WrittenText(u[f])
  BY <1>1, <1>3, <1>4, <1>5, ZenonT(30)
<1> HIDE DEF u
<1> QED
  BY <1>2, <1>3, <1>6, Documents DEF WrittenAd, Written, o

\* The pools of a cluster that is created, and their count.
LEMMA CreatedPools ==
  ASSUME NEW text
  PROVE  LET v == Array(Sent(Array(<<DefaultPool(text)>>)).items \o OtherPools)
         IN  PoolsOK(v) /\ CountOf(v.items[1], Nodes(DefaultPool(text)))
<1> DEFINE n == WorkersPerAD(text)
           none == [f \in DOMAIN Pool |-> Null]
           m == [none EXCEPT !.name = Text("DEFAULT"), !.ads = Array(Ads),
                             !.workersPerAD = Held(n)]
           ads == [i \in DOMAIN Ads |-> EncodeModel(Encode2, "AdDetails", Ads[i])]
           kept == {g \in DOMAIN Pool : g = "ads" \/ m[g] # Null}
           u == [f \in kept |-> IF f = "ads" THEN Array(ads) ELSE m[f]]
           q == Object(u)
           items == <<q>> \o OtherPools
<1>1. DefaultPool(text) = Object(m)
  <2>1. Empty = Object(<<>>) /\ DOMAIN <<>> = {} /\ Model["Pool"] = Pool
    BY Models DEF Empty
  <2>2. New("Pool") = DecodeModel(Decode4, "Pool", Empty)
    BY <2>1, Documents, Kinds DEF New, Decode, DecodeField
  <2>3. New("Pool") = Object(none)
    BY <2>1, <2>2, Documents DEF DecodeModel
  <2>4. New("Pool").object = none
    BY <2>3, Documents
  <2> HIDE DEF none
  <2> QED
    BY <2>4, ZenonT(30) DEF DefaultPool
<1>2. n \in MinInt .. MaxInt
  BY OkeAssumption DEF WorkersPerAD
<1>3. Held(n).json \in {"null", "number"} /\ (Held(n) = Null <=> n = 0)
      /\ (n # 0 => Held(n) = Number(n))
  BY Documents DEF Held
<1> HIDE DEF n
<1>4. /\ DOMAIN m = DOMAIN Pool /\ m["ads"] = Array(Ads) /\ m["workersPerAD"] = Held(n)
      /\ m["name"] = Text("DEFAULT")
      /\ \A f \in DOMAIN Pool \ {"ads", "workersPerAD", "name"} : m[f] = Null
  BY PoolFields, ZenonT(30)
<1> HIDE DEF m
<1>5. \A f \in DOMAIN Pool \ {"ads"} : m[f].json \notin {"object", "array"}
  BY <1>3, <1>4, Documents
<1>6. EncodeModel(Encode3, "Pool", Object(m)) = q
  BY <1>4, <1>5, WritePool
<1>7. /\ DOMAIN Ads = 1 .. Len(NodeZones) /\ Len(NodeZones) \in Nat
      /\ \A i \in DOMAIN Ads : Ads[i] = Object([id |-> HeldText(NodeZones[i])])
      /\ Ads = [i \in DOMAIN Ads |-> Ads[i]]
  BY OkeAssumption DEF Ads
<1>8. \A i \in DOMAIN ads : WrittenAd(ads[i])
  BY <1>7, NamedAd, ZenonT(30)
<1>9. ads \in Seq(Range(ads)) /\ Len(ads) = Len(NodeZones)
  <2>1. ads = [k \in 1 .. Len(NodeZones) |-> ads[k]]
    BY <1>7
  <2> HIDE DEF ads
  <2> QED
    BY <1>7, <2>1, FunctionIsList
<1>10. Len(Ads) = Len(NodeZones)
  BY <1>7, FunctionIsList
<1> HIDE DEF ads
<1>11. "DEFAULT" # EmptyString
  BY DEF EmptyString
<1>12. /\ DOMAIN u \subseteq DOMAIN Pool /\ u = [f \in DOMAIN u |-> u[f]]
       /\ "ads" \in DOMAIN u /\ u["ads"] = Array(ads)
       /\ "workersPerAD" \in DOMAIN u <=> n # 0
       /\ n # 0 => u["workersPerAD"] = Number(n)
       /\ \A f \in DOMAIN u \ {"ads", "workersPerAD"} : u[f] = Text("DEFAULT")
  BY <1>3, <1>4, PoolFields, ZenonT(60)
<1> HIDE DEF u
<1>13. WrittenPool(q)
  <2>1. Written(q, DOMAIN Pool)
    BY <1>12, Documents DEF Written
  <2>2. WrittenList(u["ads"]) /\ \A i \in DOMAIN u["ads"].items : WrittenAd(u["ads"].items[i])
    BY <1>8, <1>9, <1>12, Documents DEF WrittenList
  <2>3. "workersPerAD" \in DOMAIN u => WrittenNumber(u["workersPerAD"])
    BY <1>2, <1>12, Documents DEF WrittenNumber
  <2>4. \A f \in DOMAIN u \ {"ads", "workersPerAD"} : WrittenText(u[f])
    BY <1>11, <1>12, Documents DEF WrittenText
  <2> QED
    BY <1>12, <2>1, <2>2, <2>3, <2>4, Documents, ZenonT(30) DEF WrittenPool
<1>14. Sent(Array(<<DefaultPool(text)>>)).items = <<q>>
  <2>1. Sent(Array(<<Object(m)>>)) =
          Array([k \in DOMAIN <<Object(m)>> |-> EncodeModel(Encode3, "Pool", <<Object(m)>>[k])])
    BY SentPools
  <2>2. [k \in DOMAIN <<Object(m)>> |-> EncodeModel(Encode3, "Pool", <<Object(m)>>[k])]
          = <<EncodeModel(Encode3, "Pool", Object(m))>>
    OBVIOUS
  <2> QED
    BY <1>1, <1>6, <2>1, <2>2, Documents
<1> HIDE DEF q
<1>15. /\ items # <<>> /\ items[1] = q
       /\ DOMAIN items = 1 .. (1 + Len(OtherPools)) /\ Len(OtherPools) \in Nat
       /\ items = [k \in 1 .. (1 + Len(OtherPools)) |-> items[k]]
       /\ \A k \in DOMAIN items \ {1} : items[k] = OtherPools[k - 1]
                                        /\ k - 1 \in DOMAIN OtherPools
  BY OkeAssumption
<1> HIDE DEF items
<1>16. items \in Seq(Range(items))
  BY <1>15, FunctionIsList
<1>17. \A k \in DOMAIN items : WrittenPool(items[k])
  BY <1>13, <1>15, OkeAssumption, ZenonT(30)
<1>18. Len(q.object.ads.items) = Len(NodeZones)
  BY <1>9, <1>12, Documents DEF q
<1>19. PoolsOK(Array(items))
  BY <1>15, <1>16, <1>17, <1>18, Documents, ZenonT(30) DEF PoolsOK, WrittenList
<1>20. CountOf(q, Nodes(Object(m)))
  <2>1. Workers(Object(m)) = n
    BY <1>3, <1>4, Documents DEF Workers
  <2>2. Len(Object(m).object.ads.items) = Len(NodeZones)
    BY <1>4, <1>10, Documents
  <2>3. Nodes(Object(m)) = n * Len(NodeZones)
    BY <2>1, <2>2 DEF Nodes
  <2>4. n \in Int
    BY <1>2, OkeAssumption DEF MinInt
  <2> QED
    BY <1>7, <1>12, <2>3, <2>4, Documents DEF CountOf, q
<1>21. Array(Sent(Array(<<DefaultPool(text)>>)).items \o OtherPools) = Array(items)
  BY <1>14 DEF items
<1>22. Array(items).items[1] = q
  BY <1>15, Documents
<1> HIDE DEF m
<1> QED
  BY <1>1, <1>19, <1>20, <1>21, <1>22, ZenonT(30)

=============================================================================
