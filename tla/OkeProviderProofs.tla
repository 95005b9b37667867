--------------------------- MODULE OkeProviderProofs ---------------------------
(***************************************************************************)
(* Proofs about OkeProvider for every number of clusters, work items,      *)
(* zones, pools, calls and failures: the inductive invariant, step by      *)
(* step, and what follows from it.                                         *)
(***************************************************************************)
EXTENDS OkeProviderLemmas

\* The seconds a prover may take for a step.
USE SMTT(30), ZenonT(30)

-----------------------------------------------------------------------------
(* The inductive invariant.                                                 *)

\* Every cluster OKE knows or knew has pools.
OkeOK ==
  /\ oke = [i \in Ids |-> oke[i]]
  /\ \A i \in Ids :
       /\ oke[i] = [status |-> oke[i].status, masters |-> oke[i].masters,
                    nodes |-> oke[i].nodes, pools |-> oke[i].pools]
       /\ oke[i].status \in {"none", "live", "gone"}
       /\ oke[i].status = "none" => oke[i].pools = Null
       /\ oke[i].status # "none" => PoolsOK(oke[i].pools)

WorksOK ==
  works \in [Works -> [of : Ids \cup {Absent},
                       status : {"none", "Running", "Complete", "Failed"}]]

Made(id) == id \in Ids /\ oke[id].status # "none"

\* The object names a cluster OKE has made.
ObjOK ==
  /\ obj = [id |-> obj.id, work |-> obj.work, nodes |-> obj.nodes]
  /\ obj.id = Absent \/ Made(obj.id)
  /\ obj.work \in Works \cup {Absent}

\* The worker is the only one to make, delete and scale clusters: nothing has changed since
\* its call began, and what a scale sends is what it has read, with another number.
CallOK ==
  /\ call = [op |-> call.op, pc |-> call.pc, text |-> call.text, by |-> call.by,
             id |-> call.id, pools |-> call.pools, from |-> call.from]
  /\ call.pc \in {"idle", "create", "delete", "scale", "put"}
  /\ call.id = Absent \/ Made(call.id)
  /\ call.text \in Texts /\ call.by \in Sizes \cup {0}
  /\ call.op = CASE call.pc = "idle" -> "none" [] call.pc = "put" -> "scale"
                 [] OTHER -> call.pc
  /\ call.op # "none" => answer = NoAnswer /\ call.from = Statuses /\ call.id = obj.id
  /\ call.pc = "put" =>
       /\ call.id \in Ids /\ Known(call.id)
       /\ \E n \in MinInt .. MaxInt :
            call.pools = Resized(ReadPools(oke[call.id].pools), n)

\* A work item is taken for done when it is.
LookOK ==
  /\ look = [op |-> look.op, pc |-> look.pc, id |-> look.id, work |-> look.work,
             done |-> look.done]
  /\ look.pc \in {"idle", "work", "cluster", "valid", "export"}
  /\ look.id = Absent \/ Made(look.id)
  /\ look.work \in Works \cup {Absent}
  /\ look.done \in BOOLEAN
  /\ look.done => look.work # Absent /\ works[look.work].status = "Complete"
  /\ look.pc = "work" => look.work # Absent
  /\ look.pc = "cluster" /\ look.work # Absent => look.done

BoundsOK == calls \in 0 .. MaxCalls /\ faults \in 0 .. MaxFaults

IInv == OkeOK /\ WorksOK /\ ObjOK /\ CallOK /\ LookOK /\ BoundsOK /\ PanicsOnRefusalOnly

\* What never comes back: a cluster that was made, one that was deleted, a work item that
\* is done, a failure.
Grows ==
  /\ \A i \in Ids : /\ oke[i].status # "none" => oke'[i].status # "none"
                    /\ oke[i].status = "gone" => oke'[i].status = "gone"
  /\ \A w \in Works : works[w].status = "Complete" => works'[w].status = "Complete"
  /\ faults' >= faults

\* The invariant holds of the types the runs check.
LEMMA InvTypes == IInv => TypeOK
<1> SUFFICES ASSUME IInv PROVE TypeOK
  OBVIOUS
<1>1. ASSUME NEW i \in Ids, oke[i].pools # Null,
             NEW pool \in Range(Decode(Each("Pool"), oke[i].pools).items)
      PROVE  Workers(pool) \in MinInt .. MaxInt
  <2> DEFINE v == oke[i].pools
  <2>1. PoolsOK(v)
    BY <1>1 DEF IInv, OkeOK
  <2>2. v = Array(v.items) /\ \A k \in DOMAIN v.items : WrittenPool(v.items[k])
    BY <2>1, ZenonT(30) DEF PoolsOK, WrittenList
  <2> HIDE DEF v
  <2>3. Decode(Each("Pool"), v) =
          Array([k \in DOMAIN v.items |-> DecodeModel(Decode4, "Pool", v.items[k])])
    BY <2>2, Documents, Kinds DEF Decode, DecodeField
  <2>4. PICK k \in DOMAIN v.items : pool = DecodeModel(Decode4, "Pool", v.items[k])
    BY <1>1, <2>3, Documents DEF Range, v
  <2> DEFINE o == v.items[k].object
             m == [f \in DOMAIN Pool |->
                     IF f \in DOMAIN o THEN Decode4(Pool[f], o[f]) ELSE Null]
  <2>5. v.items[k] = Object(o)
        /\ ("workersPerAD" \in DOMAIN o => WrittenNumber(o["workersPerAD"]))
    BY <2>2, ZenonT(30) DEF WrittenPool, Written
  <2> HIDE DEF o
  <2>6. pool = Object(m)
    BY <2>4, <2>5, Models, Documents DEF DecodeModel
  <2>7. m["workersPerAD"] =
          IF "workersPerAD" \in DOMAIN o THEN Decode4(Integer, o["workersPerAD"]) ELSE Null
    BY PoolFields
  <2> HIDE DEF m
  <2>8. "workersPerAD" \in DOMAIN o =>
          /\ Decode4(Integer, o["workersPerAD"]) = o["workersPerAD"]
          /\ o["workersPerAD"].number \in MinInt .. MaxInt
    BY <2>5, PlainFields, PlainValues, Documents DEF WrittenNumber
  <2>9. 0 \in MinInt .. MaxInt
    BY OkeAssumption DEF MinInt
  <2> QED
    BY <2>6, <2>7, <2>8, <2>9, Documents DEF Workers
<1>2. \A i \in Ids : oke[i].status \in {"none", "live", "gone"}
  BY DEF IInv, OkeOK
<1>3. /\ obj.id \in Ids \cup {Absent} /\ obj.work \in Works \cup {Absent}
      /\ call.id \in Ids \cup {Absent} /\ look.id \in Ids \cup {Absent}
  BY DEF IInv, ObjOK, CallOK, LookOK, Made
<1> QED
  BY <1>1, <1>2, <1>3 DEF TypeOK, IInv, WorksOK, CallOK, LookOK, BoundsOK

\* A call that returns leaves the worker idle; so does the end of the process.
LEMMA IdleOK ==
  /\ call' = Idle => CallOK'
  /\ look' = Resting => LookOK'
<1>1. call' = Idle => CallOK'
  BY OkeAssumption DEF CallOK, Idle
<1>2. look' = Resting => LookOK'
  BY DEF LookOK, Resting
<1> QED
  BY <1>1, <1>2

\* What names a cluster goes on doing so, and what was true of a panic stays true.
LEMMA GrowsKeeps ==
  ASSUME IInv, Grows
  PROVE  /\ \A id : Made(id) => Made(id)'
         /\ obj' = obj => ObjOK'
         /\ look' = look => LookOK'
         /\ panicked' = panicked /\ BoundsOK' => PanicsOnRefusalOnly'
<1>1. \A id : Made(id) => Made(id)'
  BY DEF Grows, Made
<1>2. obj' = obj => ObjOK'
  BY <1>1 DEF IInv, ObjOK
<1>3. look' = look => LookOK'
  <2> SUFFICES ASSUME look' = look PROVE LookOK'
    OBVIOUS
  <2>1. look.work # Absent => look.work \in Works
    BY DEF IInv, LookOK
  <2>2. look.done => works'[look.work].status = "Complete"
    BY <2>1 DEF IInv, LookOK, Grows
  <2> QED
    BY <1>1, <2>2 DEF IInv, LookOK
<1>4. panicked' = panicked /\ BoundsOK' => PanicsOnRefusalOnly'
  <2> SUFFICES ASSUME panicked' = panicked, BoundsOK', panicked # Null
               PROVE  PanicsOnRefusalOnly'
    BY DEF PanicsOnRefusalOnly
  <2>1. panicked = ErrorBody /\ (faults > 0 \/ \E i \in Ids : oke[i].status = "gone")
    BY DEF IInv, PanicsOnRefusalOnly
  <2>2. faults \in Nat /\ faults' \in Nat
    BY OkeAssumption DEF IInv, BoundsOK
  <2>3. ErrorBody' = ErrorBody
    BY DEF ErrorBody
  <2> QED
    BY <2>1, <2>2, <2>3 DEF PanicsOnRefusalOnly, Grows
<1> QED
  BY <1>1, <1>2, <1>3, <1>4

\* What a failure costs.
LEMMA FaultBounds ==
  ASSUME BoundsOK, NoFault \/ Fault, calls' = calls
  PROVE  BoundsOK' /\ faults' >= faults
BY OkeAssumption DEF BoundsOK, NoFault, Fault

\* An exchange costs a failure or none.
LEMMA ExchangeFault ==
  ASSUME NEW known, NEW answers, NEW odd, NEW acted, NEW reply,
         Exchange(known, answers, odd, acted, reply)
  PROVE  NoFault \/ Fault
BY DEF Exchange

\* The beginning of a call.
LEMMA BeginsKeeps ==
  ASSUME IInv, NEW op \in {"create", "delete", "scale"}, NEW text \in Texts,
         NEW by \in Sizes \cup {0}, Begins(op, text, by)
  PROVE  IInv'
<1>1. /\ calls < MaxCalls /\ calls' = calls + 1
      /\ call' = [Idle EXCEPT !.op = op, !.pc = op, !.text = text, !.by = by, !.id = obj.id,
                              !.from = Statuses]
      /\ answer' = NoAnswer /\ panicked' = Null
      /\ UNCHANGED <<oke, works, obj, look, faults>>
  BY DEF Begins
<1>2. Grows
  BY <1>1, OkeAssumption DEF Grows, IInv, BoundsOK
<1>3. OkeOK' /\ WorksOK' /\ ObjOK' /\ LookOK' /\ PanicsOnRefusalOnly'
  <2>1. ObjOK' /\ LookOK'
    BY <1>1, <1>2, GrowsKeeps
  <2>2. OkeOK' /\ WorksOK'
    BY <1>1 DEF IInv, OkeOK, WorksOK
  <2>3. PanicsOnRefusalOnly'
    BY <1>1 DEF PanicsOnRefusalOnly, Null
  <2> QED
    BY <2>1, <2>2, <2>3, ZenonT(30)
<1>4. BoundsOK'
  BY <1>1, OkeAssumption DEF IInv, BoundsOK
<1>5. Statuses' = Statuses
  BY <1>1 DEF Statuses
<1>6. call' = [op |-> op, pc |-> op, text |-> text, by |-> by, id |-> obj.id, pools |-> Null,
               from |-> Statuses]
  BY <1>1, ZenonT(30) DEF Idle
<1>7. call'.id = Absent \/ Made(call.id)'
  BY <1>1, <1>3, <1>6 DEF ObjOK, Made
<1>8. CallOK'
  BY <1>1, <1>5, <1>6, <1>7, ZenonT(30) DEF CallOK
<1> QED
  BY <1>3, <1>4, <1>8 DEF IInv

\* What CreateKubeCluster() comes to: OKE makes the cluster and the object is annotated, or
\* there was a failure and nobody knows whether it did.
CreateMakes(i, w) ==
  /\ oke' = [oke EXCEPT ![i] =
       Building(Array(Sent(Array(<<DefaultPool(call.text)>>)).items \o OtherPools))]
  /\ works' = [works EXCEPT ![w] = [of |-> i, status |-> "Running"]]

LEMMA CreateOutcome ==
  ASSUME NEW i \in Ids, NEW w \in Works, CreateKubeCluster(i, w)
  PROVE  /\ At("create") /\ FreshId(i) /\ FreshWork(w) /\ Calls
         /\ \/ /\ NoFault /\ CreateMakes(i, w)
               /\ Return(TRUE, "nodes", [id |-> i, work |-> w,
                                         nodes |-> Nodes(DefaultPool(call.text))])
            \/ /\ Fault /\ (CreateMakes(i, w) \/ UNCHANGED <<oke, works>>)
               /\ Fails
<1> DEFINE pools == Array(<<DefaultPool(call.text)>>)
           answers == {WorkItemBody(i, w)}
           odd == {Object([clusterId |-> Text(i)])}
           told(m) == [id |-> Name(m.clusterId), work |-> Name(m.workItemId),
                       nodes |-> Nodes(pools.items[1])]
           r(reply) == ReadReply("ClusterWorkItemResponse", reply)
<1>1. /\ At("create") /\ FreshId(i) /\ FreshWork(w) /\ Calls
      /\ \E acted \in BOOLEAN, reply \in Replies(answers \cup odd) :
           /\ Exchange(TRUE, answers, odd, acted, reply)
           /\ IF acted THEN Makes(i, w, Sent(pools)) ELSE UNCHANGED <<oke, works>>
           /\ IF Accepted(r(reply)) THEN Return(TRUE, "nodes", told(r(reply).m)) ELSE Fails
  BY ZenonT(30) DEF CreateKubeCluster
<1>2. PICK acted \in BOOLEAN, reply \in Replies(answers \cup odd) :
        /\ Exchange(TRUE, answers, odd, acted, reply)
        /\ IF acted THEN Makes(i, w, Sent(pools)) ELSE UNCHANGED <<oke, works>>
        /\ IF Accepted(r(reply)) THEN Return(TRUE, "nodes", told(r(reply).m)) ELSE Fails
  BY <1>1, ZenonT(30)
<1>3. acted => CreateMakes(i, w)
  BY <1>2 DEF Makes, CreateMakes
<1>4. /\ Accepted(r(WorkItemBody(i, w)))
      /\ told(r(WorkItemBody(i, w)).m) =
           [id |-> i, work |-> w, nodes |-> Nodes(DefaultPool(call.text))]
  <2>1. /\ r(WorkItemBody(i, w)).ok
        /\ r(WorkItemBody(i, w)).m.clusterId = Text(i)
        /\ r(WorkItemBody(i, w)).m.workItemId = Text(w)
    BY ReadWork
  <2>2. pools.items[1] = DefaultPool(call.text)
    BY Documents
  <2> HIDE DEF r, pools
  <2> QED
    BY <2>1, <2>2, Documents DEF Accepted, Name
<1>5. /\ ~Accepted(r(ErrorBody))
      /\ ~Accepted(r(Object([clusterId |-> Text(i)])))
      /\ ~Accepted(r(Garbage)) /\ ~Accepted(r(NoReply))
  BY ReadWork, ReadNothing DEF Accepted
<1> HIDE DEF r, told, pools
<1>6. CASE NoFault /\ acted /\ reply \in answers
  BY <1>1, <1>2, <1>3, <1>4, <1>6, ZenonT(30)
<1>7. CASE Fault /\ reply \in {ErrorBody, Garbage, NoReply} \cup odd
  <2>1. ~Accepted(r(reply))
    BY <1>5, <1>7
  <2> QED
    BY <1>1, <1>2, <1>3, <1>7, <2>1, ZenonT(30)
<1> QED
  BY <1>2, <1>6, <1>7, ZenonT(30) DEF Exchange

\* CreateKubeCluster() keeps the invariant.
LEMMA CreateKeeps ==
  ASSUME IInv, NEW i \in Ids, NEW w \in Works, CreateKubeCluster(i, w)
  PROVE  IInv'
<1> DEFINE v == Array(Sent(Array(<<DefaultPool(call.text)>>)).items \o OtherPools)
<1>1. /\ oke[i].status = "none" /\ works[w].status = "none" /\ calls' = calls
      /\ look' = look /\ call' = Idle /\ panicked' = panicked
      /\ CreateMakes(i, w) \/ UNCHANGED <<oke, works>>
      /\ NoFault \/ Fault
      /\ \/ obj' = obj
         \/ CreateMakes(i, w) /\ obj' = [id |-> i, work |-> w,
                                         nodes |-> Nodes(DefaultPool(call.text))]
  BY CreateOutcome DEF FreshId, FreshWork, Calls, Return, Fails
<1>2. BoundsOK' /\ faults' >= faults
  BY <1>1, FaultBounds, ZenonT(30) DEF IInv
<1>3. PoolsOK(v)
  BY CreatedPools
<1> HIDE DEF v
<1>4. CreateMakes(i, w) =>
        /\ oke' = [oke EXCEPT ![i] = Building(v)]
        /\ works' = [works EXCEPT ![w] = [of |-> i, status |-> "Running"]]
  BY DEF CreateMakes, v
<1>5. OkeOK'
  <2>1. CASE UNCHANGED <<oke, works>>
    BY <2>1 DEF IInv, OkeOK
  <2>2. CASE oke' = [oke EXCEPT ![i] = Building(v)]
    <3>1. oke'[i] = Building(v) /\ \A j \in Ids \ {i} : oke'[j] = oke[j]
      BY <2>2 DEF IInv, OkeOK
    <3>2. oke' = [j \in Ids |-> oke'[j]]
      BY <2>2, ZenonT(30) DEF IInv, OkeOK
    <3> QED
      BY <1>3, <3>1, <3>2 DEF IInv, OkeOK, Building
  <2> QED
    BY <1>1, <1>4, <2>1, <2>2, ZenonT(30)
<1>6. WorksOK'
  BY <1>1, <1>4 DEF IInv, WorksOK
<1>7. Grows
  <2>1. \A j \in Ids : /\ oke[j].status # "none" => oke'[j].status # "none"
                       /\ oke[j].status = "gone" => oke'[j].status = "gone"
    BY <1>1, <1>4, ZenonT(30) DEF IInv, OkeOK, Building
  <2>2. \A x \in Works : works[x].status = "Complete" => works'[x].status = "Complete"
    BY <1>1, <1>4 DEF IInv, WorksOK
  <2> QED
    BY <1>2, <2>1, <2>2 DEF Grows
<1>8. ObjOK'
  <2>1. CASE obj' = obj
    BY <1>7, <2>1, GrowsKeeps
  <2>2. CASE CreateMakes(i, w) /\ obj' = [id |-> i, work |-> w,
                                          nodes |-> Nodes(DefaultPool(call.text))]
    <3>1. oke'[i].status = "live"
      BY <1>4, <2>2 DEF IInv, OkeOK, Building
    <3> QED
      BY <2>2, <3>1 DEF ObjOK, Made
  <2> QED
    BY <1>1, <2>1, <2>2
<1> QED
  BY <1>1, <1>2, <1>5, <1>6, <1>7, <1>8, IdleOK, GrowsKeeps, ZenonT(30) DEF IInv


\* What DeleteKubeCluster() comes to: the cluster is gone, or there was a failure and it is
\* as it was.
LEMMA DeleteOutcome ==
  ASSUME IInv, DeleteKubeCluster
  PROVE  /\ call.pc = "delete" /\ call.id \in Ids /\ oke[call.id].status # "none"
         /\ Return(TRUE, "nothing", NoAnnotation) /\ Calls /\ works' = works
         /\ \/ oke' = [oke EXCEPT ![call.id].status = "gone"] /\ (NoFault \/ Fault)
            \/ oke' = oke /\ oke[call.id].status = "gone" /\ NoFault
            \/ oke' = oke /\ Fault
<1>1. /\ call.pc = "delete" /\ call.id # Absent
      /\ Return(TRUE, "nothing", NoAnnotation) /\ Calls /\ works' = works
      /\ \E acted \in BOOLEAN, reply \in Replies({Empty}) :
           /\ Exchange(Known(call.id), {Empty}, {}, acted, reply)
           /\ oke' = IF acted THEN [oke EXCEPT ![call.id].status = "gone"] ELSE oke
  BY ZenonT(30) DEF DeleteKubeCluster, At
<1>2. call.id \in Ids /\ oke[call.id].status # "none"
  BY <1>1 DEF IInv, CallOK, Made
<1>3. ~Known(call.id) => oke[call.id].status = "gone"
  BY <1>2 DEF Known, IInv, OkeOK
<1>4. PICK acted \in BOOLEAN, reply \in Replies({Empty}) :
        /\ Exchange(Known(call.id), {Empty}, {}, acted, reply)
        /\ oke' = IF acted THEN [oke EXCEPT ![call.id].status = "gone"] ELSE oke
  BY <1>1
<1>5. CASE acted
  BY <1>1, <1>2, <1>4, <1>5, ExchangeFault, ZenonT(30)
<1>6. CASE ~acted
  BY <1>1, <1>2, <1>3, <1>4, <1>6, ZenonT(30) DEF Exchange
<1> QED
  BY <1>5, <1>6, ZenonT(30)

\* DeleteKubeCluster() keeps the invariant, and so does a call without an id.
LEMMA DeleteKeeps ==
  ASSUME IInv, DeleteKubeCluster \/ NoClusterId
  PROVE  IInv'
<1>1. CASE DeleteKubeCluster
  <2>1. /\ call.id \in Ids /\ oke[call.id].status # "none" /\ works' = works
        /\ oke' = oke \/ oke' = [oke EXCEPT ![call.id].status = "gone"]
        /\ NoFault \/ Fault
        /\ look' = look /\ calls' = calls
        /\ call' = Idle /\ obj' = NoAnnotation /\ panicked' = panicked
    BY <1>1, DeleteOutcome, ZenonT(30) DEF Return, Calls
  <2>2. BoundsOK' /\ faults' >= faults
    BY <2>1, FaultBounds DEF IInv
  <2>3. \A j \in Ids : /\ oke'[j].pools = oke[j].pools /\ oke'[j].masters = oke[j].masters
                       /\ oke'[j].nodes = oke[j].nodes
                       /\ oke'[j].status = IF oke' # oke /\ j = call.id THEN "gone"
                                           ELSE oke[j].status
                       /\ oke'[j] = [status |-> oke'[j].status, masters |-> oke'[j].masters,
                                     nodes |-> oke'[j].nodes, pools |-> oke'[j].pools]
    BY <2>1 DEF IInv, OkeOK
  <2>4. oke' = [j \in Ids |-> oke'[j]]
    BY <2>1 DEF IInv, OkeOK
  <2>5. OkeOK'
    BY <2>1, <2>3, <2>4 DEF IInv, OkeOK
  <2>6. Grows
    BY <2>1, <2>2, <2>3, ZenonT(30) DEF Grows
  <2>7. ObjOK' /\ WorksOK'
    BY <2>1 DEF ObjOK, NoAnnotation, IInv, WorksOK
  <2> QED
    BY <2>1, <2>2, <2>5, <2>6, <2>7, IdleOK, GrowsKeeps, ZenonT(30) DEF IInv
<1>2. CASE NoClusterId
  <2>1. /\ UNCHANGED <<oke, works, obj, look, calls, faults, panicked>> /\ call' = Idle
    BY <1>2 DEF NoClusterId, NoFault, Fails, Return, Calls
  <2>2. Grows
    BY <2>1, OkeAssumption DEF Grows, IInv, BoundsOK
  <2>3. OkeOK' /\ WorksOK' /\ BoundsOK'
    BY <2>1 DEF IInv, OkeOK, WorksOK, BoundsOK
  <2> QED
    BY <2>1, <2>2, <2>3, IdleOK, GrowsKeeps, ZenonT(30) DEF IInv
<1> QED
  BY <1>1, <1>2

\* What the first half of ScaleKubeCluster() comes to: there was a failure, or the process
\* ends on an error object, or there is nothing to be scaled down, or the pools are read.
ScaleFails == Fault /\ Fails /\ Calls

ScalePanics ==
  /\ Panics(ErrorBody) /\ UNCHANGED calls
  /\ Fault \/ (NoFault /\ oke[call.id].status = "gone")

ScaleReady ==
  Known(call.id) /\ NoFault /\ Calls /\ call.by < 0 /\ Return(TRUE, "ready", obj)

ScaleReads ==
  /\ Known(call.id) /\ NoFault /\ Calls
  /\ \E n \in MinInt .. MaxInt :
       call' = [call EXCEPT !.pc = "put",
                            !.pools = Resized(ReadPools(oke[call.id].pools), n)]
  /\ UNCHANGED <<obj, answer, panicked>>

LEMMA ScaleGetsOutcome ==
  ASSUME IInv, ScaleGetsPools
  PROVE  /\ call.pc = "scale" /\ call.id \in Ids /\ oke[call.id].status # "none"
         /\ UNCHANGED <<oke, works>>
         /\ ScaleFails \/ ScalePanics \/ ScaleReady \/ ScaleReads
<1> DEFINE body == PoolsBody(call.id)
           v == oke[call.id].pools
           r(reply) == ReadReply("ClusterPoolsResponse", reply)
           pools(reply) == r(reply).m.pools
           n(reply) == Workers(pools(reply).items[1])
           Handle(reply) ==
             IF ~r(reply).ok THEN Fails /\ Calls
             ELSE IF pools(reply) = Null \/ pools(reply) = Array(<<>>)
                  THEN Panics(reply) /\ UNCHANGED calls
             ELSE IF n(reply) = 1 /\ call.by < 0 THEN Return(TRUE, "ready", obj) /\ Calls
             ELSE /\ call' = [call EXCEPT !.pc = "put",
                        !.pools = Resized(pools(reply), Scaled(n(reply), call.by))]
                  /\ Calls /\ UNCHANGED <<obj, answer, panicked>>
<1>1. /\ call.pc = "scale" /\ call.id # Absent /\ UNCHANGED <<oke, works>>
      /\ \E reply \in Replies({body}) : Asks(Known(call.id), body, reply) /\ Handle(reply)
  BY ZenonT(30) DEF ScaleGetsPools, At
<1>2. call.id \in Ids /\ oke[call.id].status # "none"
  BY <1>1 DEF IInv, CallOK, Made
<1>3. PoolsOK(v) /\ (~Known(call.id) => oke[call.id].status = "gone")
  BY <1>2 DEF IInv, OkeOK, Known
<1>4. PICK reply \in Replies({body}) : Asks(Known(call.id), body, reply) /\ Handle(reply)
  BY <1>1, ZenonT(30)
<1>5. PICK acted \in BOOLEAN : Exchange(Known(call.id), {body}, {}, acted, reply)
  BY <1>4 DEF Asks
<1>6. /\ r(body).ok /\ pools(body) = ReadPools(v)
      /\ r(ErrorBody).ok /\ pools(ErrorBody) = Null
      /\ ~r(Garbage).ok /\ ~r(NoReply).ok
  BY <1>3, ReadPoolsReply, ReadNothing, ZenonT(30) DEF PoolsBody
<1>7. CASE Known(call.id) /\ NoFault /\ reply = body
  <2>1. /\ ReadPools(v) # Null /\ ReadPools(v) # Array(<<>>)
        /\ Workers(ReadPools(v).items[1]) \in MinInt .. MaxInt
    BY <1>3, FirstPool, ZenonT(30)
  <2>2. call.by \in Int
    BY OkeAssumption DEF IInv, CallOK
  <2>3. Scaled(n(reply), call.by) \in MinInt .. MaxInt
    BY <1>6, <1>7, <2>1, <2>2, ScaledType, ZenonT(30)
  <2> HIDE DEF r, v, body
  <2>4. \/ call.by < 0 /\ Return(TRUE, "ready", obj) /\ Calls
        \/ /\ call' = [call EXCEPT !.pc = "put",
                        !.pools = Resized(ReadPools(v), Scaled(n(reply), call.by))]
           /\ Calls /\ UNCHANGED <<obj, answer, panicked>>
    BY <1>4, <1>6, <1>7, <2>1, ZenonT(30)
  <2>5. ScaleReady \/ ScaleReads
    <3> HIDE DEF n
    <3> QED
      BY <1>7, <2>3, <2>4, ZenonT(30) DEF ScaleReady, ScaleReads, v
  <2> QED
    BY <1>1, <1>2, <2>5
<1>8. CASE reply = ErrorBody
  <2>1. Panics(ErrorBody) /\ UNCHANGED calls
    BY <1>4, <1>6, <1>8
  <2>2. body # ErrorBody
    BY <1>3, <1>6, FirstPool, ZenonT(30)
  <2>3. Fault \/ (NoFault /\ ~Known(call.id))
    BY <1>5, <1>8, <2>2, ZenonT(30) DEF Exchange
  <2> QED
    BY <1>1, <1>2, <1>3, <2>1, <2>3, ZenonT(30) DEF ScalePanics
<1>9. CASE Fault /\ reply \in {Garbage, NoReply}
  <2>1. Fails /\ Calls
    BY <1>4, <1>6, <1>9, ZenonT(30)
  <2> QED
    BY <1>1, <1>2, <1>9, <2>1, ZenonT(30) DEF ScaleFails
<1> QED
  BY <1>5, <1>7, <1>8, <1>9, ZenonT(30) DEF Exchange


\* The first half of ScaleKubeCluster() keeps the invariant.
LEMMA ScaleGetsKeeps ==
  ASSUME IInv, ScaleGetsPools
  PROVE  IInv'
<1>1. /\ call.pc = "scale" /\ call.id \in Ids /\ oke[call.id].status # "none"
      /\ UNCHANGED <<oke, works>>
      /\ ScaleFails \/ ScalePanics \/ ScaleReady \/ ScaleReads
  BY ScaleGetsOutcome
<1>2. /\ calls' = calls /\ obj' = obj /\ look' \in {look, Resting}
      /\ NoFault \/ Fault
  BY <1>1, ZenonT(30) DEF ScaleFails, ScalePanics, ScaleReady, ScaleReads, Fails, Return,
                           Panics, Ends, Calls
<1>3. BoundsOK' /\ faults' >= faults
  BY <1>2, FaultBounds DEF IInv
<1>4. OkeOK' /\ WorksOK' /\ Grows
  BY <1>1, <1>3, ZenonT(30) DEF IInv, OkeOK, WorksOK, Grows
<1>5. ObjOK' /\ LookOK'
  BY <1>2, <1>4, GrowsKeeps, IdleOK
<1>6. CASE ScaleFails \/ ScaleReady
  <2>1. call' = Idle /\ panicked' = panicked
    BY <1>6 DEF ScaleFails, ScaleReady, Fails, Return
  <2> QED
    BY <1>3, <1>4, <1>5, <2>1, GrowsKeeps, IdleOK, ZenonT(30) DEF IInv
<1>7. CASE ScalePanics
  <2>1. call' = Idle /\ panicked' = ErrorBody
    BY <1>7, ZenonT(30) DEF ScalePanics, Panics, Ends
  <2>2. faults' > 0 \/ oke'[call.id].status = "gone"
    <3>1. CASE Fault
      BY <3>1, OkeAssumption DEF Fault, IInv, BoundsOK
    <3>2. CASE oke[call.id].status = "gone"
      BY <1>1, <3>2, ZenonT(30)
    <3> QED
      BY <1>7, <3>1, <3>2 DEF ScalePanics
  <2>3. PanicsOnRefusalOnly'
    BY <1>1, <2>1, <2>2, ZenonT(30) DEF PanicsOnRefusalOnly, ErrorBody
  <2> QED
    BY <1>3, <1>4, <1>5, <2>1, <2>3, IdleOK, ZenonT(30) DEF IInv
<1>8. CASE ScaleReads
  <2>1. PICK n \in MinInt .. MaxInt :
          call' = [call EXCEPT !.pc = "put",
                               !.pools = Resized(ReadPools(oke[call.id].pools), n)]
    BY <1>8, ZenonT(30) DEF ScaleReads
  <2> DEFINE sent == Resized(ReadPools(oke[call.id].pools), n)
  <2>2. Known(call.id) /\ answer' = answer /\ panicked' = panicked
    BY <1>8, ZenonT(30) DEF ScaleReads
  <2>3. /\ call = [op |-> call.op, pc |-> call.pc, text |-> call.text, by |-> call.by,
                   id |-> call.id, pools |-> call.pools, from |-> call.from]
        /\ call.text \in Texts /\ call.by \in Sizes \cup {0} /\ call.op = "scale"
        /\ answer = NoAnswer /\ call.from = Statuses /\ call.id = obj.id
    BY <1>1 DEF IInv, CallOK
  <2>4. Resized(ReadPools(oke[call.id].pools), n)' =
          Resized(ReadPools(oke'[call'.id].pools), n)
    BY DEF Resized, ReadPools
  <2> HIDE DEF sent
  <2>5. call' = [op |-> "scale", pc |-> "put", text |-> call.text, by |-> call.by,
                 id |-> call.id, pools |-> sent, from |-> call.from]
    BY <2>1, <2>3, ZenonT(30) DEF sent
  <2>6. Statuses' = Statuses /\ NoAnswer' = NoAnswer
    BY <1>1 DEF Statuses, NoAnswer
  <2>7. Made(call.id)' /\ Known(call.id)' /\ call'.id \in Ids
    BY <1>1, <2>2, <2>5, ZenonT(30) DEF Made, Known
  <2>8. call'.pools = Resized(ReadPools(oke'[call'.id].pools), n)
    BY <1>1, <2>5 DEF sent
  <2>9. CallOK'
    BY <1>2, <2>2, <2>3, <2>5, <2>6, <2>7, <2>8, ZenonT(30) DEF CallOK
  <2> QED
    BY <1>3, <1>4, <1>5, <2>2, <2>9, GrowsKeeps, ZenonT(30) DEF IInv
<1> QED
  BY <1>1, <1>6, <1>7, <1>8

\* What the second half of ScaleKubeCluster() comes to: OKE takes the pools, with a work
\* item or without, or there was a failure and nobody knows whether it did.
ScaleMakes(w) ==
  /\ oke' = [oke EXCEPT ![call.id].pools = Sent(call.pools), ![call.id].nodes = "PROVISIONING"]
  /\ works' = [works EXCEPT ![w] = [of |-> call.id, status |-> "Running"]]

LEMMA ScalePutsOutcome ==
  ASSUME IInv, NEW w \in Works, ScalePutsPools(w)
  PROVE  /\ At("put") /\ FreshWork(w) /\ Calls
         /\ \/ /\ NoFault /\ ScaleMakes(w)
               /\ Return(TRUE, "nodes", [obj EXCEPT !.work = w,
                                                    !.nodes = Nodes(call.pools.items[1])])
            \/ NoFault /\ ScaleMakes(w) /\ Return(TRUE, "nothing", obj)
            \/ Fault /\ (ScaleMakes(w) \/ UNCHANGED <<oke, works>>) /\ Fails
<1> DEFINE id == call.id
           answers == {WorkItemBody(id, w), Object([clusterId |-> Text(id)])}
           odd == {WorkItemBody(i, w) : i \in Ids \ {id}}
           told(m) == [obj EXCEPT !.work = Name(m.workItemId),
                                  !.nodes = Nodes(call.pools.items[1])]
           r(reply) == ReadReply("ClusterWorkItemResponse", reply)
           Handle(reply) ==
             IF ~r(reply).ok \/ Name(r(reply).m.clusterId) # id THEN Fails
             ELSE IF r(reply).m.workItemId = Null THEN Return(TRUE, "nothing", obj)
             ELSE Return(TRUE, "nodes", told(r(reply).m))
<1>1. /\ At("put") /\ FreshWork(w) /\ Calls
      /\ \E acted \in BOOLEAN, reply \in Replies(answers \cup odd) :
           /\ Exchange(Known(id), answers, odd, acted, reply)
           /\ IF acted THEN ScaleMakes(w) ELSE UNCHANGED <<oke, works>>
           /\ Handle(reply)
  BY ZenonT(30) DEF ScalePutsPools, ScaleMakes
<1>2. id \in Ids /\ Known(id)
  BY <1>1 DEF At, IInv, CallOK
<1>3. PICK acted \in BOOLEAN, reply \in Replies(answers \cup odd) :
        /\ Exchange(Known(id), answers, odd, acted, reply)
        /\ IF acted THEN ScaleMakes(w) ELSE UNCHANGED <<oke, works>>
        /\ Handle(reply)
  BY <1>1, ZenonT(30)
<1>4. \A i \in Ids : /\ r(WorkItemBody(i, w)).ok
                     /\ r(WorkItemBody(i, w)).m.clusterId = Text(i)
                     /\ r(WorkItemBody(i, w)).m.workItemId = Text(w)
  BY ReadWork
<1>5. LET doc == Object([clusterId |-> Text(id)])
      IN  r(doc).ok /\ r(doc).m.clusterId = Text(id) /\ r(doc).m.workItemId = Null
  BY <1>2, ReadWork
<1>6. \A s : Name(Text(s)) = s /\ Text(s) # Null
  BY Documents DEF Name
<1>7. Name(r(ErrorBody).m.clusterId) # id /\ ~r(Garbage).ok /\ ~r(NoReply).ok
  <2>1. Name(Null) # id
    BY <1>2, OkeAssumption DEF Name
  <2> QED
    BY <2>1, ReadWork, ReadNothing, ZenonT(30)
<1> HIDE DEF r, id
<1>8. CASE NoFault /\ acted /\ reply \in answers
  <2>1. CASE reply = WorkItemBody(id, w)
    <3>1. told(r(reply).m) = [obj EXCEPT !.work = w, !.nodes = Nodes(call.pools.items[1])]
      BY <1>2, <1>4, <1>6, <2>1, ZenonT(30)
    <3> HIDE DEF told
    <3>2. Return(TRUE, "nodes", told(r(reply).m))
      BY <1>2, <1>3, <1>4, <1>6, <2>1, ZenonT(30)
    <3> QED
      BY <1>1, <1>3, <1>8, <3>1, <3>2, ZenonT(30)
  <2>2. CASE reply = Object([clusterId |-> Text(id)])
    <3> HIDE DEF told
    <3>1. Return(TRUE, "nothing", obj)
      BY <1>3, <1>5, <1>6, <2>2, ZenonT(30)
    <3> QED
      BY <1>1, <1>3, <1>8, <3>1, ZenonT(30)
  <2> QED
    BY <1>8, <2>1, <2>2, ZenonT(30)
<1>9. CASE Fault /\ reply \in {ErrorBody, Garbage, NoReply} \cup odd
  <2>1. ~r(reply).ok \/ Name(r(reply).m.clusterId) # id
    BY <1>4, <1>6, <1>7, <1>9
  <2>2. Fails
    BY <1>3, <2>1, ZenonT(30)
  <2> QED
    BY <1>1, <1>3, <1>9, <2>2, ZenonT(30)
<1> QED
  BY <1>2, <1>3, <1>8, <1>9, ZenonT(30) DEF Exchange


\* The pools OKE has after a scale: they are as they were, with another number.
LEMMA PutPools ==
  ASSUME IInv, call.pc = "put"
  PROVE  LET old == oke[call.id].pools.items
             new == Sent(call.pools).items
             others == DOMAIN old[1].object \ {"workersPerAD"}
         IN  /\ call.id \in Ids /\ oke[call.id].status = "live"
             /\ PoolsOK(Sent(call.pools))
             /\ Tail(new) = Tail(old)
             /\ DOMAIN new[1].object \ {"workersPerAD"} = others
             /\ \A f \in others : new[1].object[f] = old[1].object[f]
             /\ CountOf(new[1], Nodes(call.pools.items[1]))
<1>1. /\ call.id \in Ids /\ oke[call.id].status = "live"
      /\ \E n \in MinInt .. MaxInt : call.pools = Resized(ReadPools(oke[call.id].pools), n)
  BY DEF IInv, CallOK, Known
<1>2. PICK n \in MinInt .. MaxInt : call.pools = Resized(ReadPools(oke[call.id].pools), n)
  BY <1>1
<1> DEFINE v == oke[call.id].pools
           sent == call.pools
<1>3. PoolsOK(v)
  BY <1>1 DEF IInv, OkeOK
<1>4. sent = Resized(ReadPools(v), n)
  BY <1>2
<1> HIDE DEF v, sent
<1>5. /\ PoolsOK(Sent(sent))
      /\ Tail(Sent(sent).items) = Tail(v.items)
      /\ DOMAIN Sent(sent).items[1].object \ {"workersPerAD"} =
           DOMAIN v.items[1].object \ {"workersPerAD"}
      /\ \A f \in DOMAIN v.items[1].object \ {"workersPerAD"} :
           Sent(sent).items[1].object[f] = v.items[1].object[f]
      /\ CountOf(Sent(sent).items[1], Nodes(sent.items[1]))
  BY <1>3, <1>4, ScaledPools, ZenonT(30)
<1> QED
  BY <1>1, <1>5, ZenonT(30) DEF v, sent

\* The second half of ScaleKubeCluster() keeps the invariant.
LEMMA ScalePutsKeeps ==
  ASSUME IInv, NEW w \in Works, ScalePutsPools(w)
  PROVE  IInv'
<1>1. /\ call.pc = "put" /\ works[w].status = "none" /\ calls' = calls
      /\ look' = look /\ call' = Idle /\ panicked' = panicked
      /\ ScaleMakes(w) \/ UNCHANGED <<oke, works>>
      /\ NoFault \/ Fault
      /\ \/ obj' = obj
         \/ obj' = [obj EXCEPT !.work = w, !.nodes = Nodes(call.pools.items[1])]
  BY ScalePutsOutcome, ZenonT(30) DEF At, FreshWork, Calls, Return, Fails
<1>2. BoundsOK' /\ faults' >= faults
  BY <1>1, FaultBounds DEF IInv
<1>3. call.id \in Ids /\ oke[call.id].status = "live" /\ PoolsOK(Sent(call.pools))
  BY <1>1, PutPools, ZenonT(30)
<1>4. /\ oke' = [j \in Ids |-> oke'[j]]
      /\ \A j \in Ids :
           /\ oke'[j] = [status |-> oke'[j].status, masters |-> oke'[j].masters,
                         nodes |-> oke'[j].nodes, pools |-> oke'[j].pools]
           /\ oke'[j].status = oke[j].status
           /\ oke'[j].pools \in {oke[j].pools, Sent(call.pools)}
           /\ j # call.id => oke'[j].pools = oke[j].pools
  BY <1>1, <1>3 DEF ScaleMakes, IInv, OkeOK
<1>5. OkeOK'
  BY <1>3, <1>4 DEF IInv, OkeOK
<1>6. WorksOK'
  BY <1>1, <1>3 DEF IInv, WorksOK, ScaleMakes
<1>7. Grows
  <2>1. \A x \in Works : works[x].status = "Complete" => works'[x].status = "Complete"
    BY <1>1 DEF IInv, WorksOK, ScaleMakes
  <2> QED
    BY <1>2, <1>4, <2>1 DEF Grows
<1>8. ObjOK'
  <2>1. CASE obj' = obj
    BY <1>7, <2>1, GrowsKeeps
  <2>2. CASE obj' = [obj EXCEPT !.work = w, !.nodes = Nodes(call.pools.items[1])]
    <3>1. obj' = [id |-> obj.id, work |-> w, nodes |-> Nodes(call.pools.items[1])]
      BY <2>2, ZenonT(30) DEF IInv, ObjOK
    <3>2. obj.id = Absent \/ (obj.id \in Ids /\ oke'[obj.id].status # "none")
      BY <1>4 DEF IInv, ObjOK, Made
    <3> QED
      BY <3>1, <3>2 DEF ObjOK, Made
  <2> QED
    BY <1>1, <2>1, <2>2
<1> QED
  BY <1>1, <1>2, <1>5, <1>6, <1>7, <1>8, IdleOK, GrowsKeeps, ZenonT(30) DEF IInv

-----------------------------------------------------------------------------
(* The reconcile loop.                                                      *)

\* The call of the worker goes on while the reconcile loop changes the work item.
LEMMA CallGoesOn ==
  ASSUME IInv, UNCHANGED <<oke, call, answer>>, obj'.id = obj.id
  PROVE  CallOK'
<1>1. Statuses' = Statuses /\ NoAnswer' = NoAnswer
  BY DEF Statuses, NoAnswer
<1> QED
  BY <1>1, ZenonT(30) DEF IInv, CallOK, Made, Known, Resized, ReadPools

\* What a step of the reconcile loop comes to: it goes on or ends and takes the work item
\* it has found done off the object, or the process ends on an error object.
LookGoes ==
  /\ UNCHANGED <<oke, works, call, answer, calls>> /\ (NoFault \/ Fault)
  /\ panicked' \in {panicked, Null}
  /\ obj' = obj \/ (look.done /\ obj' = [obj EXCEPT !.work = Absent])

LookPanics ==
  /\ UNCHANGED <<oke, works, calls>>
  /\ Panics(ErrorBody)
  /\ Fault \/ (NoFault /\ \E i \in Ids : oke[i].status = "gone")

\* The clusters and the work items are left alone, whatever the reconcile loop does.
LEMMA LookKeepsRest ==
  ASSUME IInv, LookGoes \/ LookPanics
  PROVE  /\ OkeOK' /\ WorksOK' /\ ObjOK' /\ CallOK' /\ BoundsOK' /\ PanicsOnRefusalOnly'
         /\ Grows
<1>1. calls' = calls /\ UNCHANGED <<oke, works>> /\ (NoFault \/ Fault)
  BY DEF LookGoes, LookPanics
<1>2. BoundsOK' /\ faults' >= faults
  BY <1>1, FaultBounds DEF IInv
<1>3. OkeOK' /\ WorksOK' /\ Grows
  BY <1>1, <1>2 DEF IInv, OkeOK, WorksOK, Grows
<1>4. CASE LookGoes
  <2>1. obj' = [id |-> obj.id, work |-> obj'.work, nodes |-> obj.nodes]
        /\ obj'.work \in {obj.work, Absent} /\ obj'.id = obj.id
    BY <1>4 DEF LookGoes, IInv, ObjOK
  <2>2. ObjOK'
    BY <1>1, <2>1 DEF IInv, ObjOK, Made
  <2>3. CallOK'
    BY <1>4, <2>1, CallGoesOn DEF LookGoes
  <2>4. PanicsOnRefusalOnly'
    <3>1. CASE panicked' = panicked
      BY <1>2, <1>3, <3>1, GrowsKeeps
    <3>2. CASE panicked' = Null
      BY <3>2 DEF PanicsOnRefusalOnly, Null
    <3> QED
      BY <1>4, <3>1, <3>2 DEF LookGoes
  <2> QED
    BY <1>2, <1>3, <2>2, <2>3, <2>4
<1>5. CASE LookPanics
  <2>1. call' = Idle /\ obj' = obj /\ panicked' = ErrorBody
    BY <1>5 DEF LookPanics, Panics, Ends
  <2>2. ObjOK' /\ CallOK'
    BY <1>3, <2>1, GrowsKeeps, IdleOK
  <2>3. faults' > 0 \/ \E i \in Ids : oke'[i].status = "gone"
    <3>1. CASE Fault
      BY <3>1, OkeAssumption DEF Fault, IInv, BoundsOK
    <3>2. CASE \E i \in Ids : oke[i].status = "gone"
      BY <1>1, <3>2
    <3> QED
      BY <1>5, <3>1, <3>2 DEF LookPanics
  <2>4. PanicsOnRefusalOnly'
    BY <2>1, <2>3 DEF PanicsOnRefusalOnly, ErrorBody
  <2> QED
    BY <1>2, <1>3, <2>2, <2>4
<1> QED
  BY <1>4, <1>5


\* The call of the reconcile loop goes on: it begins, finds the work item done, or finds
\* the cluster running.
LookBegun ==
  /\ look' = [op |-> look'.op, pc |-> look'.pc, id |-> obj.id, work |-> obj.work,
              done |-> FALSE]
  /\ look'.pc \in {"work", "cluster", "export"}
  /\ look'.pc = "work" <=> obj.work # Absent /\ look'.pc # "export"

LookFindsDone ==
  /\ look.pc = "work" /\ works[look.work].status = "Complete"
  /\ look' = [look EXCEPT !.pc = "cluster", !.done = TRUE]

LookFindsValid ==
  /\ look.pc = "cluster" /\ look.id \in Ids /\ Known(look.id)
  /\ oke[look.id].masters = "RUNNING" /\ oke[look.id].nodes = "RUNNING"
  /\ look' = [look EXCEPT !.pc = "valid"]

LookGoesOn == look' = Resting \/ LookBegun \/ LookFindsDone \/ LookFindsValid

\* The steps of the reconcile loop that ask OKE nothing.
LEMMA LookQuietOutcome ==
  ASSUME IInv,
         (\E op \in {"validate", "export"} : LookBegins(op)) \/ ValidateSucceeds
           \/ LookNoClusterId
  PROVE  LookGoes /\ LookGoesOn
<1>1. ASSUME NEW op \in {"validate", "export"}, LookBegins(op)
      PROVE  LookGoes /\ LookGoesOn
  <2>1. LookGoes
    BY <1>1 DEF LookBegins, LookGoes, Looks
  <2>2. look' = [op |-> op, id |-> obj.id, work |-> obj.work, done |-> FALSE,
                 pc |-> IF op = "export" THEN "export"
                        ELSE IF obj.work = Absent THEN "cluster" ELSE "work"]
    BY <1>1 DEF LookBegins
  <2>3. LookBegun
    BY <2>2 DEF LookBegun
  <2> QED
    BY <2>1, <2>3 DEF LookGoesOn
<1>2. CASE ValidateSucceeds
  BY <1>2 DEF ValidateSucceeds, LookReturns, LookGoes, Looks, LookGoesOn
<1>3. CASE LookNoClusterId
  BY <1>3 DEF LookNoClusterId, LookReturns, LookGoes, Looks, LookGoesOn, IInv, LookOK
<1> QED
  BY <1>1, <1>2, <1>3

\* ValidateKubeCluster() looks at the work item.
LEMMA WorkItemOutcome ==
  ASSUME IInv, ValidateGetsWorkItem
  PROVE  LookGoes /\ LookGoesOn
<1> DEFINE body == StatusBody(look.work)
           r(reply) == ReadReply("WorkItem", reply)
           complete(reply) == r(reply).ok /\ r(reply).m.statusString = Text("Complete")
           Handle(reply) ==
             IF complete(reply)
             THEN /\ look' = [look EXCEPT !.pc = "cluster", !.done = TRUE]
                  /\ UNCHANGED <<obj, panicked>>
             ELSE LookReturns(FALSE)
<1>1. /\ look.pc = "work" /\ Looks
      /\ \E reply \in Replies({body}) : Asks(TRUE, body, reply) /\ Handle(reply)
  BY ZenonT(30) DEF ValidateGetsWorkItem
<1>2. PICK reply \in Replies({body}) : Asks(TRUE, body, reply) /\ Handle(reply)
  BY <1>1, ZenonT(30)
<1>3. PICK acted \in BOOLEAN : Exchange(TRUE, {body}, {}, acted, reply)
  BY <1>2, ZenonT(30) DEF Asks
<1>4. NoFault \/ Fault
  BY <1>3, ExchangeFault, ZenonT(30)
<1>5. /\ complete(body) => works[look.work].status = "Complete"
      /\ ~complete(ErrorBody) /\ ~complete(Garbage) /\ ~complete(NoReply)
  BY ReadStatus, ReadNothing DEF StatusBody
<1>6. reply \in {body, ErrorBody, Garbage, NoReply}
  BY <1>2 DEF Replies
<1> HIDE DEF complete, body
<1>7. CASE complete(reply)
  <2>1. LookFindsDone
    BY <1>1, <1>2, <1>5, <1>6, <1>7 DEF LookFindsDone
  <2>2. LookGoes
    BY <1>1, <1>2, <1>4, <1>7 DEF LookGoes, Looks
  <2> QED
    BY <2>1, <2>2 DEF LookGoesOn
<1>8. CASE ~complete(reply)
  <2>1. LookReturns(FALSE)
    BY <1>2, <1>8, ZenonT(30)
  <2> QED
    BY <1>1, <1>4, <2>1 DEF LookReturns, LookGoes, Looks, LookGoesOn
<1> QED
  BY <1>7, <1>8

\* ValidateKubeCluster() looks at the cluster.
LEMMA ClusterOutcome ==
  ASSUME IInv, ValidateGetsCluster
  PROVE  LookPanics \/ (LookGoes /\ LookGoesOn)
<1> DEFINE body == DetailsBody(look.id)
           r(reply) == ReadReply("ClusterDetails", reply)
           Handle(reply) ==
             IF ~r(reply).ok THEN LookReturns(look.done) /\ Looks
             ELSE IF r(reply).m.k8 = Null THEN Panics(reply) /\ UNCHANGED <<oke, works, calls>>
             ELSE /\ obj' = IF look.done THEN [obj EXCEPT !.work = Absent] ELSE obj
                  /\ look' = IF Runs(r(reply).m.k8.object) THEN [look EXCEPT !.pc = "valid"]
                             ELSE Resting
                  /\ Looks /\ UNCHANGED panicked
<1>1. /\ look.pc = "cluster" /\ look.id # Absent
      /\ \E reply \in Replies({body}) : Asks(Known(look.id), body, reply) /\ Handle(reply)
  BY DEF ValidateGetsCluster
<1>2. look.id \in Ids /\ (~Known(look.id) => oke[look.id].status = "gone")
      /\ look.done \in BOOLEAN
  BY <1>1 DEF IInv, LookOK, Made, OkeOK, Known
<1>3. PICK reply \in Replies({body}) : Asks(Known(look.id), body, reply) /\ Handle(reply)
  BY <1>1
<1>4. PICK acted \in BOOLEAN : Exchange(Known(look.id), {body}, {}, acted, reply)
  BY <1>3 DEF Asks
<1>5. NoFault \/ Fault
  BY <1>4, ExchangeFault
<1>6. /\ r(body).ok =>
           /\ r(body).m.k8 # Null
           /\ Runs(r(body).m.k8.object) =>
                oke[look.id].masters = "RUNNING" /\ oke[look.id].nodes = "RUNNING"
      /\ ~r(Garbage).ok /\ ~r(NoReply).ok
  BY ReadDetails, ReadNothing, ZenonT(30) DEF DetailsBody
<1>7. reply \in {body, ErrorBody, Garbage, NoReply}
  BY <1>3 DEF Replies
<1>8. reply = ErrorBody /\ body # ErrorBody =>
        Fault \/ (NoFault /\ \E i \in Ids : oke[i].status = "gone")
  BY <1>2, <1>4 DEF Exchange
<1>9. reply = body => reply = ErrorBody \/ Known(look.id)
  <2>1. body \notin {Garbage, NoReply}
    BY Documents DEF DetailsBody
  <2> QED
    BY <1>4, <2>1 DEF Exchange
<1>10. LookReturns(look.done) /\ Looks => LookGoes /\ LookGoesOn
  BY <1>2, <1>5 DEF LookReturns, Looks, LookGoes, LookGoesOn
<1> HIDE DEF r, body
<1>11. CASE ~r(reply).ok
  BY <1>3, <1>10, <1>11
<1>12. CASE r(reply).ok /\ r(reply).m.k8 = Null
  <2>1. Panics(reply) /\ UNCHANGED <<oke, works, calls>>
    BY <1>3, <1>12
  <2>2. reply = ErrorBody /\ body # ErrorBody
    BY <1>6, <1>7, <1>12
  <2> QED
    BY <1>8, <2>1, <2>2 DEF LookPanics
<1>13. CASE r(reply).ok /\ r(reply).m.k8 # Null
  <2>1. /\ obj' = IF look.done THEN [obj EXCEPT !.work = Absent] ELSE obj
        /\ look' = IF Runs(r(reply).m.k8.object) THEN [look EXCEPT !.pc = "valid"]
                   ELSE Resting
        /\ Looks /\ UNCHANGED panicked
    BY <1>3, <1>13
  <2>2. LookGoes
    BY <1>2, <1>5, <2>1 DEF LookGoes, Looks
  <2>3. LookGoesOn
    <3>1. CASE ~Runs(r(reply).m.k8.object)
      BY <2>1, <3>1 DEF LookGoesOn
    <3>2. CASE Runs(r(reply).m.k8.object) /\ reply = body /\ Known(look.id)
      BY <1>1, <1>2, <1>6, <1>13, <2>1, <3>2, ZenonT(30) DEF LookGoesOn, LookFindsValid
    <3>3. CASE reply = ErrorBody
      BY <1>13, <3>3, ReadDetailsError DEF r
    <3> QED
      BY <1>6, <1>7, <1>9, <1>13, <3>1, <3>2, <3>3, ZenonT(30)
  <2> QED
    BY <2>2, <2>3
<1> QED
  BY <1>11, <1>12, <1>13


\* ExportKubeConfig() fetches the kubeconfig.
LEMMA ExportOutcome ==
  ASSUME IInv, ExportKubeConfig
  PROVE  LookPanics \/ (LookGoes /\ LookGoesOn)
<1> DEFINE Handle(reply) ==
             IF reply = ErrorBody THEN Panics(reply) /\ UNCHANGED <<oke, works, calls>>
             ELSE LookReturns(FALSE) /\ Looks
<1>1. /\ look.pc = "export" /\ look.id # Absent
      /\ \E reply \in Replies({KubeConfigBody}) :
           Asks(Known(look.id), KubeConfigBody, reply) /\ Handle(reply)
  BY ZenonT(30) DEF ExportKubeConfig
<1>2. look.id \in Ids /\ (~Known(look.id) => oke[look.id].status = "gone")
  BY <1>1 DEF IInv, LookOK, Made, OkeOK, Known
<1>3. PICK reply \in Replies({KubeConfigBody}) :
        Asks(Known(look.id), KubeConfigBody, reply) /\ Handle(reply)
  BY <1>1, ZenonT(30)
<1>4. PICK acted \in BOOLEAN : Exchange(Known(look.id), {KubeConfigBody}, {}, acted, reply)
  BY <1>3 DEF Asks
<1>5. NoFault \/ Fault
  BY <1>4, ExchangeFault
<1>6. KubeConfigBody # ErrorBody
  <2>1. DOMAIN [contexts |-> Array(<<Empty>>)]
          # DOMAIN [code |-> Number(1), message |-> Text("refused")]
    OBVIOUS
  <2> QED
    BY <2>1, Documents DEF KubeConfigBody, ErrorBody
<1>7. CASE reply = ErrorBody
  <2>1. Fault \/ (NoFault /\ \E i \in Ids : oke[i].status = "gone")
    BY <1>2, <1>4, <1>6, <1>7, ZenonT(30) DEF Exchange
  <2> QED
    BY <1>3, <1>7, <2>1 DEF LookPanics
<1>8. CASE reply # ErrorBody
  BY <1>3, <1>5, <1>8 DEF LookReturns, Looks, LookGoes, LookGoesOn
<1> QED
  BY <1>7, <1>8

\* What a step of the reconcile loop comes to.
LEMMA LookOutcome ==
  ASSUME IInv, Look
  PROVE  LookPanics \/ (LookGoes /\ LookGoesOn)
BY LookQuietOutcome, WorkItemOutcome, ClusterOutcome, ExportOutcome DEF Look

\* The reconcile loop keeps the invariant.
LEMMA LookKeeps ==
  ASSUME IInv, Look
  PROVE  IInv'
<1>1. LookPanics \/ (LookGoes /\ LookGoesOn)
  BY LookOutcome
<1>2. /\ OkeOK' /\ WorksOK' /\ ObjOK' /\ CallOK' /\ BoundsOK' /\ PanicsOnRefusalOnly'
      /\ Grows
  BY <1>1, LookKeepsRest
<1>3. LookOK'
  <2>1. CASE look' = Resting
    BY <2>1, IdleOK
  <2>2. UNCHANGED <<oke, works>>
    BY <1>1 DEF LookPanics, LookGoes
  <2>3. CASE LookBegun
    <3>1. look'.id = Absent \/ Made(look.id)'
      BY <2>2, <2>3 DEF LookBegun, IInv, ObjOK, Made
    <3>2. /\ look'.id = obj.id /\ look'.work = obj.work /\ look'.done = FALSE
          /\ look' = [op |-> look'.op, pc |-> look'.pc, id |-> look'.id, work |-> look'.work,
                      done |-> look'.done]
      BY <2>3 DEF LookBegun
    <3>3. /\ look'.pc \in {"work", "cluster", "export"}
          /\ look'.pc = "work" => obj.work # Absent
          /\ look'.pc = "cluster" => obj.work = Absent
      BY <2>3 DEF LookBegun
    <3>4. obj.work \in Works \cup {Absent}
      BY DEF IInv, ObjOK
    <3> QED
      BY <3>1, <3>2, <3>3, <3>4, ZenonT(30) DEF LookOK
  <2>4. CASE LookFindsDone
    <3>1. look' = [op |-> look.op, pc |-> "cluster", id |-> look.id, work |-> look.work,
                   done |-> TRUE]
      BY <2>4, ZenonT(30) DEF LookFindsDone, IInv, LookOK
    <3>2. look'.id = Absent \/ Made(look.id)'
      BY <2>2, <3>1 DEF IInv, LookOK, Made
    <3>3. look.work # Absent /\ look.work \in Works \cup {Absent}
          /\ works'[look.work].status = "Complete"
      BY <2>2, <2>4 DEF LookFindsDone, IInv, LookOK
    <3> QED
      BY <3>1, <3>2, <3>3, ZenonT(30) DEF LookOK
  <2>5. CASE LookFindsValid
    <3>1. look' = [op |-> look.op, pc |-> "valid", id |-> look.id, work |-> look.work,
                   done |-> look.done]
      BY <2>5 DEF LookFindsValid, IInv, LookOK
    <3>2. look'.id = Absent \/ Made(look.id)'
      BY <2>2, <3>1 DEF IInv, LookOK, Made
    <3> QED
      BY <2>2, <3>1, <3>2 DEF IInv, LookOK
  <2>6. CASE LookPanics
    BY <2>1, <2>6 DEF LookPanics, Panics, Ends
  <2> QED
    BY <1>1, <2>1, <2>3, <2>4, <2>5, <2>6, ZenonT(30) DEF LookGoesOn
<1> QED
  BY <1>2, <1>3 DEF IInv

\* The cloud and the end of the process keep the invariant.
LEMMA CloudKeeps ==
  ASSUME IInv, Cloud \/ Crash
  PROVE  IInv'
<1>1. ASSUME NEW i \in Ids, OkeStarts(i) PROVE IInv'
  <2>1. /\ oke' = [oke EXCEPT ![i].masters = "RUNNING"]
             \/ oke' = [oke EXCEPT ![i].nodes = "RUNNING"]
        /\ UNCHANGED <<works, obj, call, look, answer, panicked, calls, faults>>
    BY <1>1 DEF OkeStarts, Moves, NoFault
  <2>2. /\ oke' = [j \in Ids |-> oke'[j]]
        /\ \A j \in Ids :
             /\ oke'[j] = [status |-> oke'[j].status, masters |-> oke'[j].masters,
                           nodes |-> oke'[j].nodes, pools |-> oke'[j].pools]
             /\ oke'[j].status = oke[j].status /\ oke'[j].pools = oke[j].pools
    BY <2>1 DEF IInv, OkeOK
  <2>3. OkeOK' /\ WorksOK' /\ BoundsOK'
    BY <2>1, <2>2, ZenonT(30) DEF IInv, OkeOK, WorksOK, BoundsOK
  <2>4. Grows
    BY <2>1, <2>2, OkeAssumption DEF Grows, IInv, BoundsOK
  <2>5. Statuses' = Statuses
    BY <2>2 DEF Statuses
  <2>6. CallOK'
    <3>1. call'.id = Absent \/ Made(call.id)'
      BY <2>1, <2>2, ZenonT(30) DEF IInv, CallOK, Made
    <3>2. call.pc = "put" =>
            /\ call.id \in Ids /\ oke'[call.id].status = "live"
            /\ \E n \in MinInt .. MaxInt :
                 call.pools = Resized(ReadPools(oke'[call.id].pools), n)
      BY <2>2 DEF IInv, CallOK, Known
    <3>3. NoAnswer' = NoAnswer
      BY DEF NoAnswer
    <3> QED
      BY <2>1, <2>5, <3>1, <3>2, <3>3, ZenonT(30) DEF IInv, CallOK, Known
  <2> QED
    BY <2>1, <2>3, <2>4, <2>6, GrowsKeeps, ZenonT(30) DEF IInv
<1>2. ASSUME NEW w \in Works, OkeCompletes(w) PROVE IInv'
  <2>1. /\ works[w].status = "Running"
        /\ works' = [works EXCEPT ![w].status = "Complete"]
             \/ works' = [works EXCEPT ![w].status = "Failed"]
        /\ UNCHANGED <<oke, obj, call, look, answer, panicked, calls>>
        /\ NoFault \/ Fault
    BY <1>2 DEF OkeCompletes, Moves
  <2>2. BoundsOK' /\ faults' >= faults
    BY <2>1, FaultBounds DEF IInv
  <2>3. OkeOK' /\ WorksOK'
    BY <2>1 DEF IInv, OkeOK, WorksOK
  <2>4. Grows
    BY <2>1, <2>2 DEF Grows, IInv, WorksOK
  <2>5. CallOK'
    BY <2>1, CallGoesOn
  <2> QED
    BY <2>1, <2>2, <2>3, <2>4, <2>5, GrowsKeeps, ZenonT(30) DEF IInv
<1>3. CASE Crash
  <2>1. /\ UNCHANGED <<oke, works, panicked, calls, obj>> /\ Fault
        /\ call' = Idle /\ look' = Resting
    BY <1>3 DEF Crash, Ends
  <2>2. BoundsOK' /\ faults' >= faults
    BY <2>1, FaultBounds DEF IInv
  <2>3. OkeOK' /\ WorksOK' /\ Grows
    BY <2>1, <2>2, ZenonT(30) DEF IInv, OkeOK, WorksOK, Grows
  <2> QED
    BY <2>1, <2>2, <2>3, GrowsKeeps, IdleOK, ZenonT(30) DEF IInv
<1> QED
  BY <1>1, <1>2, <1>3 DEF Cloud


-----------------------------------------------------------------------------
(* The invariant holds.                                                     *)

\* The initial state satisfies the invariant.
LEMMA InvInit == Init => IInv
<1> SUFFICES ASSUME Init PROVE IInv
  OBVIOUS
<1>1. /\ oke = [i \in Ids |-> NoCluster] /\ works = [w \in Works |-> NoWork]
      /\ obj = NoAnnotation /\ call = Idle /\ look = Resting
      /\ panicked = Null /\ calls = 0 /\ faults = 0
  BY DEF Init
<1>2. OkeOK
  BY <1>1 DEF OkeOK, NoCluster
<1>3. WorksOK
  BY <1>1 DEF WorksOK, NoWork
<1>4. ObjOK
  BY <1>1 DEF ObjOK, NoAnnotation
<1>5. CallOK
  BY <1>1, OkeAssumption DEF CallOK, Idle
<1>6. LookOK
  BY <1>1 DEF LookOK, Resting
<1>7. BoundsOK /\ PanicsOnRefusalOnly
  BY <1>1, OkeAssumption DEF BoundsOK, PanicsOnRefusalOnly
<1> QED
  BY <1>2, <1>3, <1>4, <1>5, <1>6, <1>7 DEF IInv

\* A step of the worker keeps the invariant.
LEMMA WorkerKeeps ==
  ASSUME IInv, Worker
  PROVE  IInv'
<1>1. ASSUME NEW text \in Texts, Begins("create", text, 0) PROVE IInv'
  BY <1>1, BeginsKeeps
<1>2. ASSUME Begins("delete", EmptyString, 0) PROVE IInv'
  BY <1>2, BeginsKeeps, OkeAssumption
<1>3. ASSUME NEW by \in Sizes, Begins("scale", EmptyString, by) PROVE IInv'
  BY <1>3, BeginsKeeps, OkeAssumption
<1> QED
  BY <1>1, <1>2, <1>3, CreateKeeps, DeleteKeeps, ScaleGetsKeeps, ScalePutsKeeps, ZenonT(30)
     DEF Worker

\* Every step keeps the invariant.
LEMMA InvNext == IInv /\ [Next]_vars => IInv'
<1> SUFFICES ASSUME IInv, [Next]_vars PROVE IInv'
  OBVIOUS
<1>1. CASE UNCHANGED vars
  <2>1. UNCHANGED <<oke, works, obj, call, look, answer, panicked, calls, faults>>
    BY <1>1 DEF vars
  <2>2. OkeOK' /\ WorksOK' /\ BoundsOK' /\ Grows
    BY <2>1, OkeAssumption DEF IInv, OkeOK, WorksOK, BoundsOK, Grows
  <2> QED
    BY <2>1, <2>2, GrowsKeeps, CallGoesOn DEF IInv
<1> QED
  BY <1>1, WorkerKeeps, LookKeeps, CloudKeeps DEF Next

\* TypeOK: what OKE is asked for is always an int32 of workers, the object and the calls
\* name clusters and work items OKE has, whatever was refused, lost or unreadable.
THEOREM OkeTypes == Spec => []TypeOK
<1>1. IInv => TypeOK
  BY InvTypes
<1> QED
  BY <1>1, InvInit, InvNext, PTL DEF Spec

\* PanicsOnRefusalOnly: the process ends on an error object alone, and OKE sends one only
\* after a failure or for a cluster it has deleted.
THEOREM OkePanicsOnRefusal == Spec => []PanicsOnRefusalOnly
<1>1. IInv => PanicsOnRefusalOnly
  BY DEF IInv
<1> QED
  BY <1>1, InvInit, InvNext, PTL DEF Spec


-----------------------------------------------------------------------------
(* What a step does with the clusters and with an answer that was given.    *)

\* The pools of a cluster change in a scale alone.
LEMMA PoolsMove ==
  ASSUME IInv, [Next]_vars, NEW i \in Ids, oke[i].status = "live"
  PROVE  \/ oke'[i].pools = oke[i].pools
         \/ call.pc = "put" /\ i = call.id /\ oke'[i].pools = Sent(call.pools)
<1>1. CASE oke' = oke
  BY <1>1
<1>2. ASSUME NEW j \in Ids, NEW w \in Works, CreateKubeCluster(j, w)
      PROVE  oke'[i].pools = oke[i].pools
  <2>1. oke[j].status = "none" /\ (oke' = oke \/ CreateMakes(j, w))
    BY <1>2, CreateOutcome, ZenonT(30) DEF FreshId
  <2> QED
    BY <2>1 DEF CreateMakes, IInv, OkeOK
<1>3. CASE DeleteKubeCluster
  <2>1. /\ oke' = oke \/ oke' = [oke EXCEPT ![call.id].status = "gone"]
        /\ call.id \in Ids
    BY <1>3, DeleteOutcome, ZenonT(30)
  <2>2. /\ oke = [j \in Ids |-> oke[j]]
        /\ oke[i] = [status |-> oke[i].status, masters |-> oke[i].masters,
                     nodes |-> oke[i].nodes, pools |-> oke[i].pools]
    BY DEF IInv, OkeOK
  <2> QED
    BY <2>1, <2>2
<1>4. ASSUME NEW w \in Works, ScalePutsPools(w)
      PROVE  \/ oke'[i].pools = oke[i].pools
             \/ call.pc = "put" /\ i = call.id /\ oke'[i].pools = Sent(call.pools)
  <2>1. call.pc = "put" /\ (oke' = oke \/ ScaleMakes(w))
    BY <1>4, ScalePutsOutcome, ZenonT(30) DEF At
  <2> QED
    BY <2>1 DEF ScaleMakes, IInv, OkeOK
<1>5. ASSUME NEW j \in Ids, OkeStarts(j)
      PROVE  oke'[i].pools = oke[i].pools
  BY <1>5 DEF OkeStarts, IInv, OkeOK
<1>6. CASE Look
  BY <1>1, <1>6, LookOutcome DEF LookPanics, LookGoes
<1> QED
  BY <1>1, <1>2, <1>3, <1>4, <1>5, <1>6, ZenonT(30)
     DEF Next, Worker, Begins, NoClusterId, ScaleGetsPools, Cloud, OkeCompletes, Crash, vars

\* An answer that was given is still true: of the state it describes, nothing has changed but
\* that a work item was taken off the object.
Stays ==
  /\ answer' = answer
  /\ obj'.id = obj.id /\ obj'.nodes = obj.nodes /\ obj'.work \in {obj.work, Absent}
  /\ \A i \in Ids : oke'[i].status = oke[i].status /\ oke'[i].pools = oke[i].pools
  /\ \A w \in Works : works'[w].of = works[w].of

\* A call returns.
Returns ==
  \/ \E i \in Ids, w \in Works : CreateKubeCluster(i, w)
  \/ DeleteKubeCluster \/ NoClusterId
  \/ ScaleGetsPools
  \/ \E w \in Works : ScalePutsPools(w)

\* Every other step begins a call, ends the process or leaves the answer as true as it was.
LEMMA AnswerStays ==
  ASSUME IInv, [Next]_vars
  PROVE  answer' = NoAnswer \/ Stays \/ Returns
<1>1. CASE Look
  <2>1. LookPanics \/ LookGoes
    BY <1>1, LookOutcome
  <2>2. LookPanics => answer' = NoAnswer
    BY DEF LookPanics, Panics, Ends
  <2>3. LookGoes => Stays
    BY DEF LookGoes, Stays, IInv, ObjOK
  <2> QED
    BY <2>1, <2>2, <2>3
<1>2. ASSUME NEW i \in Ids, OkeStarts(i) PROVE Stays
  BY <1>2 DEF OkeStarts, Moves, Stays, IInv, OkeOK
<1>3. ASSUME NEW w \in Works, OkeCompletes(w) PROVE Stays
  BY <1>3 DEF OkeCompletes, Moves, Stays, IInv, WorksOK
<1>4. CASE Crash
  BY <1>4 DEF Crash, Ends
<1>5. CASE UNCHANGED vars
  BY <1>5 DEF vars, Stays
<1>6. CASE Worker
  BY <1>6, ZenonT(30) DEF Worker, Begins, Returns
<1> QED
  BY <1>1, <1>2, <1>3, <1>4, <1>5, <1>6, ZenonT(30) DEF Next, Cloud


-----------------------------------------------------------------------------
(* Counts, pools and validations.                                           *)

\* What a step does to a cluster that exists.
OthersStay ==
  \A i \in Ids : oke[i].status = "live" =>
    LET old == oke[i].pools.items
        new == oke'[i].pools.items
        others == DOMAIN old[1].object \ {"workersPerAD"}
    IN  /\ Tail(new) = Tail(old)
        /\ DOMAIN new[1].object \ {"workersPerAD"} = others
        /\ \A f \in others : new[1].object[f] = old[1].object[f]

\* OthersKept: a scale sends every pool and every field back as it was, through the models
\* it is read into and written from, whatever pools OKE has.
THEOREM OkeKeepsOthers == Spec => OthersKept
<1>1. ASSUME IInv, [Next]_vars PROVE OthersStay
  <2>1. ASSUME NEW i \in Ids, oke[i].status = "live", oke'[i].pools # oke[i].pools
        PROVE  /\ call.pc = "put" /\ i = call.id
               /\ oke'[i].pools = Sent(call.pools)
    BY <1>1, <2>1, PoolsMove
  <2>2. ASSUME call.pc = "put"
        PROVE  LET old == oke[call.id].pools.items
                   new == Sent(call.pools).items
                   others == DOMAIN old[1].object \ {"workersPerAD"}
               IN  /\ Tail(new) = Tail(old)
                   /\ DOMAIN new[1].object \ {"workersPerAD"} = others
                   /\ \A f \in others : new[1].object[f] = old[1].object[f]
    BY <1>1, <2>2, PutPools, ZenonT(30)
  <2> QED
    BY <2>1, <2>2, ZenonT(30) DEF OthersStay
<1> QED
  BY <1>1, InvInit, InvNext, PTL DEF Spec, OthersKept, OthersStay

\* What a step of the reconcile loop has seen.
Validates ==
  LET complete == works[look.work].status = "Complete"
  IN  /\ look'.pc = "valid" /\ look.pc # "valid" =>
           /\ Known(look.id)
           /\ oke[look.id].masters = "RUNNING" /\ oke[look.id].nodes = "RUNNING"
           /\ look.work # Absent => complete
      /\ obj.work # Absent /\ obj'.work = Absent /\ answer' = answer =>
           look.work # Absent /\ complete

\* A call that returns gives an answer, where there was none.
LEMMA ReturnAnswers ==
  ASSUME IInv, call.op # "none", NEW ok, NEW ann, NEW annotations,
         Return(ok, ann, annotations)
  PROVE  answer' # answer
<1>1. answer = NoAnswer /\ answer'.op = call.op
  BY DEF IInv, CallOK, Return
<1>2. answer.op = "none"
  BY <1>1 DEF NoAnswer
<1> QED
  BY <1>1, <1>2

\* ValidIsRunning: a cluster is valid, and its work item is taken off the object, only when
\* OKE has said so of this cluster and of the work item the validation was given.
THEOREM OkeValidIsRunning == Spec => ValidIsRunning
<1>1. ASSUME IInv, [Next]_vars PROVE Validates
  <2>1. CASE Look
    <3>1. CASE LookPanics
      BY <3>1 DEF LookPanics, Panics, Ends, Resting, Validates
    <3>2. CASE LookGoes /\ LookGoesOn
      <4>1. look'.pc = "valid" /\ look.pc # "valid" => LookFindsValid
        <5>1. LookFindsDone => look'.pc = "cluster"
          BY <1>1 DEF LookFindsDone, IInv, LookOK
        <5>2. look' = Resting \/ LookBegun => look'.pc # "valid"
          BY DEF LookBegun, Resting
        <5> QED
          BY <3>2, <5>1, <5>2 DEF LookGoesOn
      <4>2. LookFindsValid =>
              /\ Known(look.id)
              /\ oke[look.id].masters = "RUNNING" /\ oke[look.id].nodes = "RUNNING"
              /\ look.work # Absent => look.done
        BY <1>1 DEF LookFindsValid, IInv, LookOK
      <4>3. look.done => look.work # Absent /\ works[look.work].status = "Complete"
        BY <1>1 DEF IInv, LookOK
      <4>4. obj.work # Absent /\ obj'.work = Absent => look.done
        BY <3>2 DEF LookGoes
      <4> QED
        BY <4>1, <4>2, <4>3, <4>4, ZenonT(30) DEF Validates
    <3> QED
      BY <1>1, <2>1, <3>1, <3>2, LookOutcome
  <2>2. CASE look' \in {look, Resting} /\ (obj' = obj \/ answer' # answer)
    BY <2>2 DEF Validates, Resting
  <2>3. CASE Cloud \/ Crash \/ UNCHANGED vars
    BY <2>2, <2>3 DEF Cloud, OkeStarts, OkeCompletes, Moves, Crash, Ends, vars
  <2>4. CASE Worker
    <3>1. ASSUME NEW i \in Ids, NEW w \in Works, CreateKubeCluster(i, w)
          PROVE  look' = look /\ answer' # answer
      BY <1>1, <3>1, CreateOutcome, ReturnAnswers, ZenonT(30) DEF At, Fails, Calls, IInv, CallOK
    <3>2. CASE DeleteKubeCluster
      BY <1>1, <2>2, <3>2, DeleteOutcome, ReturnAnswers, ZenonT(30) DEF Calls, IInv, CallOK
    <3>3. CASE NoClusterId
      BY <2>2, <3>3 DEF NoClusterId, Fails, Return, Calls
    <3>4. CASE ScaleGetsPools
      <4>1. ScaleFails \/ ScalePanics \/ ScaleReady \/ ScaleReads
        BY <1>1, <3>4, ScaleGetsOutcome
      <4> QED
        BY <2>2, <4>1, ZenonT(30)
           DEF ScaleFails, ScalePanics, ScaleReady, ScaleReads, Fails, Return,
                          Panics, Ends, Calls
    <3>5. ASSUME NEW w \in Works, ScalePutsPools(w)
          PROVE  look' = look /\ answer' # answer
      BY <1>1, <3>5, ScalePutsOutcome, ReturnAnswers, ZenonT(30)
         DEF At, Fails, Calls, IInv, CallOK
    <3> QED
      BY <2>2, <2>4, <3>1, <3>2, <3>3, <3>4, <3>5, ZenonT(30) DEF Worker, Begins
  <2> QED
    BY <1>1, <2>1, <2>3, <2>4, ZenonT(30) DEF Next
<1> QED
  BY <1>1, InvInit, InvNext, PTL DEF Spec, ValidIsRunning, Validates


\* What a returning call leaves behind it when it counts the nodes.
Counted ==
  answer'.ok /\ answer'.ann = "nodes" =>
    /\ obj'.id \in Ids /\ oke'[obj'.id].status = "live"
    /\ CountOf(oke'[obj'.id].pools.items[1], obj'.nodes)
    /\ obj'.work # Absent => works'[obj'.work].of = obj'.id

\* CreateKubeCluster() counts the nodes of the pools OKE has made.
LEMMA CreateCounts ==
  ASSUME IInv, NEW i \in Ids, NEW w \in Works, CreateKubeCluster(i, w)
  PROVE  Counted
<1> DEFINE v == Array(Sent(Array(<<DefaultPool(call.text)>>)).items \o OtherPools)
           nodes == Nodes(DefaultPool(call.text))
<1>1. CASE Fails
  BY <1>1 DEF Fails, Return, Counted
<1>2. CASE CreateMakes(i, w) /\ Return(TRUE, "nodes", [id |-> i, work |-> w, nodes |-> nodes])
  <2>1. oke' = [oke EXCEPT ![i] = Building(v)]
        /\ works' = [works EXCEPT ![w] = [of |-> i, status |-> "Running"]]
    BY <1>2 DEF CreateMakes
  <2>2. CountOf(v.items[1], nodes)
    BY CreatedPools
  <2>3. obj' = [id |-> i, work |-> w, nodes |-> nodes]
    BY <1>2 DEF Return
  <2> HIDE DEF v, nodes
  <2>4. oke'[i].status = "live" /\ oke'[i].pools = v /\ works'[w].of = i
    BY <2>1 DEF IInv, OkeOK, WorksOK, Building
  <2> QED
    BY <2>2, <2>3, <2>4 DEF Counted
<1> QED
  BY <1>1, <1>2, CreateOutcome, ZenonT(30)

\* ScaleKubeCluster() counts the nodes of the pools OKE has taken.
LEMMA ScaleCounts ==
  ASSUME IInv, NEW w \in Works, ScalePutsPools(w)
  PROVE  Counted
<1> DEFINE sent == Sent(call.pools)
           nodes == Nodes(call.pools.items[1])
<1>1. CASE Fails \/ Return(TRUE, "nothing", obj)
  BY <1>1 DEF Fails, Return, Counted
<1>2. CASE ScaleMakes(w) /\ Return(TRUE, "nodes", [obj EXCEPT !.work = w, !.nodes = nodes])
  <2>1. /\ oke' = [oke EXCEPT ![call.id].pools = sent, ![call.id].nodes = "PROVISIONING"]
        /\ works' = [works EXCEPT ![w] = [of |-> call.id, status |-> "Running"]]
    BY <1>2 DEF ScaleMakes
  <2>2. call.pc = "put"
    BY ScalePutsOutcome, ZenonT(30) DEF At
  <2>3. /\ call.id \in Ids /\ oke[call.id].status = "live"
        /\ CountOf(sent.items[1], nodes)
    BY <2>2, PutPools, ZenonT(30)
  <2>4. obj' = [id |-> call.id, work |-> w, nodes |-> nodes]
    BY <1>2, <2>2, ZenonT(30) DEF Return, IInv, ObjOK, CallOK
  <2> HIDE DEF sent, nodes
  <2>5. oke'[call.id].status = "live" /\ oke'[call.id].pools = sent /\ works'[w].of = call.id
    BY <2>1, <2>3 DEF IInv, OkeOK, WorksOK
  <2> QED
    BY <2>3, <2>4, <2>5 DEF Counted
<1> QED
  BY <1>1, <1>2, ScalePutsOutcome, ZenonT(30)

\* CountedIsAskedFor: a node count that was answered is the count of the pools OKE has, of a
\* cluster that exists, and the work item is one of that cluster, until the next call.
THEOREM OkeCounts == Spec => []CountedIsAskedFor
<1>1. ASSUME Init PROVE CountedIsAskedFor
  BY <1>1, ZenonT(30) DEF Init, NoAnswer, CountedIsAskedFor
<1>2. ASSUME IInv, CountedIsAskedFor, [Next]_vars PROVE CountedIsAskedFor'
  <2>1. CASE answer' = NoAnswer
    BY <2>1, ZenonT(30) DEF NoAnswer, CountedIsAskedFor
  <2>2. CASE Stays
    <3> SUFFICES ASSUME answer'.ok, answer'.ann = "nodes" PROVE CountedIsAskedFor'
      BY ZenonT(30) DEF CountedIsAskedFor
    <3>1. /\ obj.id \in Ids /\ oke[obj.id].status = "live"
          /\ CountOf(oke[obj.id].pools.items[1], obj.nodes)
          /\ obj.work # Absent => works[obj.work].of = obj.id
      BY <1>2, <2>2, ZenonT(30) DEF CountedIsAskedFor, Stays, CountOf, Known
    <3>2. obj.work \in Works \cup {Absent}
      BY <1>2 DEF IInv, ObjOK
    <3>3. /\ obj'.id \in Ids /\ oke'[obj'.id].status = "live"
          /\ CountOf(oke'[obj'.id].pools.items[1], obj'.nodes)
      BY <2>2, <3>1, ZenonT(60) DEF Stays
    <3>4. obj'.work # Absent => works'[obj'.work].of = obj'.id
      BY <2>2, <3>1, <3>2, ZenonT(30) DEF Stays
    <3> QED
      BY <3>3, <3>4, ZenonT(30) DEF CountedIsAskedFor, CountOf, Known
  <2>3. CASE Returns
    <3>1. Counted => CountedIsAskedFor'
      BY ZenonT(30) DEF Counted, CountedIsAskedFor, CountOf, Known
    <3>2. CASE answer'.ann # "nodes"
      BY <3>2, ZenonT(30) DEF CountedIsAskedFor
    <3>3. CASE DeleteKubeCluster \/ NoClusterId
      BY <3>2, <3>3 DEF DeleteKubeCluster, NoClusterId, Fails, Return
    <3>4. CASE ScaleGetsPools
      <4>1. ScaleFails \/ ScalePanics \/ ScaleReady \/ ScaleReads
        BY <1>2, <3>4, ScaleGetsOutcome
      <4>2. call.pc = "scale"
        BY <3>4 DEF ScaleGetsPools, At
      <4>3. answer.ann = "nothing"
        BY <1>2, <4>2 DEF IInv, CallOK, NoAnswer
      <4>4. ScaleFails \/ ScaleReady => answer'.ann # "nodes"
        BY DEF ScaleFails, ScaleReady, Fails, Return
      <4>5. ScalePanics => answer'.ann # "nodes"
        BY DEF ScalePanics, Panics, Ends, NoAnswer
      <4>6. ScaleReads => answer'.ann # "nodes"
        BY <4>3 DEF ScaleReads
      <4> QED
        BY <3>2, <4>1, <4>4, <4>5, <4>6
    <3> QED
      BY <1>2, <2>3, <3>1, <3>3, <3>4, CreateCounts, ScaleCounts, ZenonT(30) DEF Returns
  <2> QED
    BY <1>2, <2>1, <2>2, <2>3, AnswerStays
<1> QED
  BY <1>1, <1>2, InvInit, InvNext, PTL DEF Spec


-----------------------------------------------------------------------------
(* The calls are those of Providers.                                        *)

\* The last answer is one that Providers gives, and the clusters are as it leaves them.
Answered ==
  answer.op # "none" =>
    Acts(answer.op, answer.by, answer.id, answer.from, Statuses, answer.ok, answer.ann,
         answer.faulted)

\* A call that returns what Providers lets it return.
LEMMA ReturnActs ==
  ASSUME NEW ok, NEW ann, NEW annotations, Return(ok, ann, annotations),
         Acts(call.op, call.by, call.id, call.from, Statuses', ok, ann, faults' # faults)
  PROVE  Answered'
<1> DEFINE op == call.op
           by == call.by
           id == call.id
           from == call.from
           to == Statuses'
           faulted == faults' # faults
<1>1. answer' = [op |-> op, ok |-> ok, ann |-> ann, by |-> by, id |-> id, from |-> from,
                 faulted |-> faulted]
  BY DEF Return
<1>2. Acts(op, by, id, from, to, ok, ann, faulted)
  OBVIOUS
<1> HIDE DEF op, by, id, from, faulted
<1>3. Acts(answer'.op, answer'.by, answer'.id, answer'.from, to, answer'.ok, answer'.ann,
           answer'.faulted)
  BY <1>1, <1>2
<1> QED
  BY <1>3 DEF Answered

\* The statuses a call begins with.
LEMMA FromStatuses ==
  ASSUME IInv, call.op # "none"
  PROVE  /\ call.from = Statuses /\ call.from \in [Ids -> {"none", "live", "gone"}]
         /\ \A i \in Ids : call.from[i] = oke[i].status
BY DEF IInv, CallOK, OkeOK, Statuses

\* A failure is seen in the count of failures.
LEMMA FaultSeen ==
  ASSUME IInv
  PROVE  (Fault => faults' # faults) /\ (NoFault => faults' = faults)
BY OkeAssumption DEF IInv, BoundsOK, Fault, NoFault

\* CreateKubeCluster() answers as in Providers.
LEMMA CreateAnswers ==
  ASSUME IInv, NEW i \in Ids, NEW w \in Works, CreateKubeCluster(i, w)
  PROVE  Answered'
<1> DEFINE from == call.from
           made == [from EXCEPT ![i] = "live"]
           faulted == faults' # faults
<1>1. call.op = "create" /\ oke[i].status = "none"
      /\ i = CHOOSE j \in Ids : oke[j].status = "none"
  BY CreateOutcome, ZenonT(30) DEF At, FreshId, IInv, CallOK
<1>2. /\ from = Statuses /\ from \in [Ids -> {"none", "live", "gone"}]
      /\ \A j \in Ids : from[j] = oke[j].status
  BY <1>1, FromStatuses, ZenonT(30)
<1> HIDE DEF from
<1>3. from[i] = "none" /\ i = CHOOSE j \in Ids : from[j] = "none"
  BY <1>1, <1>2
<1>4. /\ Acts("create", call.by, call.id, from, made, TRUE, "nodes", faulted)
      /\ faulted => /\ Acts("create", call.by, call.id, from, made, FALSE, "nothing", faulted)
                    /\ Acts("create", call.by, call.id, from, from, FALSE, "nothing", faulted)
  BY <1>2, <1>3, CreateActs, ZenonT(30)
<1>5. CreateMakes(i, w) => Statuses' = made
  BY <1>2 DEF CreateMakes, Building, Statuses, IInv, OkeOK
<1>6. UNCHANGED <<oke, works>> => Statuses' = from
  BY <1>2 DEF Statuses
<1> HIDE DEF made, faulted
<1>7. CASE NoFault
  <2>1. CreateMakes(i, w)
        /\ Return(TRUE, "nodes", [id |-> i, work |-> w,
                                  nodes |-> Nodes(DefaultPool(call.text))])
    BY <1>7, CreateOutcome, FaultSeen, ZenonT(30)
  <2> QED
    BY <1>1, <1>4, <1>5, <2>1, ReturnActs, ZenonT(30) DEF from, faulted
<1>8. CASE Fault
  <2>1. Fails /\ (CreateMakes(i, w) \/ UNCHANGED <<oke, works>>)
    BY <1>8, CreateOutcome, FaultSeen, ZenonT(30)
  <2>2. Acts("create", call.by, call.id, from, Statuses', FALSE, "nothing", faulted)
    BY <1>4, <1>5, <1>6, <1>8, <2>1, FaultSeen, ZenonT(30) DEF faulted
  <2> QED
    BY <1>1, <2>1, <2>2, ReturnActs, ZenonT(30) DEF from, faulted, Fails
<1> QED
  BY <1>7, <1>8, CreateOutcome, ZenonT(30)

\* DeleteKubeCluster(), and a call without an id, answer as in Providers.
LEMMA DeleteAnswers ==
  ASSUME IInv, DeleteKubeCluster \/ NoClusterId
  PROVE  Answered'
<1> DEFINE from == call.from
           faulted == faults' # faults
<1>1. CASE DeleteKubeCluster
  <2> DEFINE id == call.id
             gone == [from EXCEPT ![id] = "gone"]
  <2>1. call.op = "delete" /\ id \in Ids /\ Return(TRUE, "nothing", NoAnnotation)
    BY <1>1, DeleteOutcome, ZenonT(30) DEF IInv, CallOK
  <2>2. /\ from = Statuses /\ from \in [Ids -> {"none", "live", "gone"}]
        /\ \A j \in Ids : from[j] = oke[j].status
    BY <2>1, FromStatuses
  <2> HIDE DEF from
  <2>3. /\ Acts("delete", call.by, id, from, gone, TRUE, "nothing", faulted)
        /\ faulted => Acts("delete", call.by, id, from, from, TRUE, "nothing", faulted)
    BY <2>1, <2>2, DeleteActs, ZenonT(30)
  <2>4. oke' = [oke EXCEPT ![id].status = "gone"] => Statuses' = gone
    BY <2>1, <2>2 DEF Statuses, IInv, OkeOK
  <2>5. oke' = oke /\ oke[id].status = "gone" => Statuses' = gone
    BY <2>1, <2>2 DEF Statuses
  <2>6. oke' = oke => Statuses' = from
    BY <2>2 DEF Statuses
  <2> HIDE DEF gone
  <2>7. Acts("delete", call.by, id, from, Statuses', TRUE, "nothing", faulted)
    BY <1>1, <2>3, <2>4, <2>5, <2>6, DeleteOutcome, FaultSeen, ZenonT(30)
  <2> QED
    BY <2>1, <2>7, ReturnActs, ZenonT(30) DEF from
<1>2. CASE NoClusterId
  <2>1. /\ call.op \in {"delete", "scale"} /\ call.id = Absent /\ Fails
        /\ UNCHANGED <<oke, works>>
    BY <1>2 DEF NoClusterId, IInv, CallOK
  <2>2. from \in [Ids -> {"none", "live", "gone"}] /\ Statuses' = from
    BY <2>1, FromStatuses DEF Statuses
  <2> HIDE DEF from, faulted
  <2>3. Acts(call.op, call.by, Absent, from, from, FALSE, "nothing", faulted)
    BY <2>1, <2>2, NoIdActs, ZenonT(30)
  <2> QED
    BY <2>1, <2>2, <2>3, ReturnActs, ZenonT(30) DEF from, faulted, Fails
<1> QED
  BY <1>1, <1>2


\* ScaleKubeCluster() answers as in Providers, or the process ends, or it goes on.
LEMMA ScaleAnswers ==
  ASSUME IInv, ScaleGetsPools \/ \E w \in Works : ScalePutsPools(w)
  PROVE  Answered'
<1> DEFINE from == call.from
           id == call.id
           by == call.by
           faulted == faults' # faults
<1>1. call.op = "scale" /\ id \in Ids /\ by \in Int
  <2>1. CASE ScaleGetsPools
    BY <2>1, ScaleGetsOutcome, OkeAssumption DEF IInv, CallOK
  <2>2. CASE \E w \in Works : ScalePutsPools(w)
    <3>1. call.pc = "put"
      BY <2>2, ScalePutsOutcome, ZenonT(30) DEF At
    <3> QED
      BY <3>1, OkeAssumption DEF IInv, CallOK
  <2> QED
    BY <2>1, <2>2
<1>2. /\ from = Statuses /\ from \in [Ids -> {"none", "live", "gone"}]
      /\ \A j \in Ids : from[j] = oke[j].status
  BY <1>1, FromStatuses
<1>3. from[id] = "live" =>
        /\ Acts("scale", by, id, from, from, TRUE, "nodes", faulted)
        /\ Acts("scale", by, id, from, from, TRUE, "nothing", faulted)
        /\ by < 0 => Acts("scale", by, id, from, from, TRUE, "ready", faulted)
  <2> HIDE DEF from, id, by, faulted
  <2>1. by < 0 => ~(by >= 0)
    BY <1>1
  <2> QED
    BY <1>1, <1>2, <2>1, ScaleActs, ZenonT(30)
<1>4. Fault => Acts("scale", by, id, from, from, FALSE, "nothing", faulted)
  <2>1. Acts("scale", by, id, from, from, FALSE, "nothing", TRUE)
    BY <1>1, <1>2, ScaleBreaks, ZenonT(30)
  <2> QED
    BY <2>1, FaultSeen DEF Acts
<1>5. CASE ScaleGetsPools
  <2>1. /\ UNCHANGED <<oke, works>>
        /\ ScaleFails \/ ScalePanics \/ ScaleReady \/ ScaleReads
    BY <1>5, ScaleGetsOutcome
  <2>2. Statuses' = from
    BY <1>2, <2>1 DEF Statuses
  <2>3. CASE ScaleFails
    BY <1>1, <1>4, <2>2, <2>3, ReturnActs, ZenonT(30) DEF ScaleFails, Fails
  <2>4. CASE ScalePanics
    BY <2>4 DEF ScalePanics, Panics, Ends, NoAnswer, Answered
  <2>5. CASE ScaleReady
    <3>1. from[id] = "live" /\ by < 0 /\ Return(TRUE, "ready", obj)
      BY <1>1, <1>2, <2>5, ZenonT(30) DEF ScaleReady, Known
    <3> QED
      BY <1>1, <1>3, <2>2, <3>1, ReturnActs, ZenonT(30)
  <2>6. CASE ScaleReads
    <3>1. answer' = NoAnswer
      BY <1>1, <2>6 DEF ScaleReads, IInv, CallOK
    <3> QED
      BY <3>1 DEF NoAnswer, Answered
  <2> QED
    BY <2>1, <2>3, <2>4, <2>5, <2>6
<1>6. ASSUME NEW w \in Works, ScalePutsPools(w) PROVE Answered'
  <2>1. from[id] = "live"
    BY <1>1, <1>2, <1>6, ScalePutsOutcome, PutPools, ZenonT(30) DEF At
  <2>2. ScaleMakes(w) \/ UNCHANGED <<oke, works>>
    BY <1>6, ScalePutsOutcome, ZenonT(30)
  <2>3. Statuses' = from
    <3>1. \A j \in Ids : oke'[j].status = oke[j].status
      <4>1. CASE ScaleMakes(w)
        <5>1. oke = [i \in Ids |-> oke[i]]
          BY <1>1 DEF IInv, OkeOK
        <5>2. \A i \in Ids : oke[i] = [status |-> oke[i].status, masters |-> oke[i].masters,
                                       nodes |-> oke[i].nodes, pools |-> oke[i].pools]
          BY <1>1 DEF IInv, OkeOK
        <5> QED
          BY <4>1, <5>1, <5>2 DEF ScaleMakes
      <4>2. CASE UNCHANGED <<oke, works>>
        BY <4>2
      <4> QED
        BY <2>2, <4>1, <4>2, ZenonT(30)
    <3> QED
      BY <1>2, <3>1 DEF Statuses
  <2>4. \/ Return(TRUE, "nodes", [obj EXCEPT !.work = w, !.nodes = Nodes(call.pools.items[1])])
        \/ Return(TRUE, "nothing", obj)
        \/ Fault /\ Fails
    BY <1>6, ScalePutsOutcome, ZenonT(30)
  <2>5. CASE Return(TRUE, "nodes", [obj EXCEPT !.work = w,
                                              !.nodes = Nodes(call.pools.items[1])])
    BY <1>1, <1>3, <2>1, <2>3, <2>5, ReturnActs, ZenonT(30)
  <2>6. CASE Return(TRUE, "nothing", obj)
    BY <1>1, <1>3, <2>1, <2>3, <2>6, ReturnActs, ZenonT(30)
  <2>7. CASE Fault /\ Fails
    BY <1>1, <1>4, <2>3, <2>7, ReturnActs, ZenonT(30) DEF Fails
  <2> QED
    BY <2>4, <2>5, <2>6, <2>7, ZenonT(30)
<1> QED
  BY <1>5, <1>6

\* ActsAsInProviders: every call of the worker, request by request, with answers that are
\* refused, lost or unreadable and a process that ends in between, does what Providers,
\* which the controller is checked with, lets it do in one step.
THEOREM OkeIsProvider == Spec => []ActsAsInProviders
<1>1. ASSUME Init PROVE Answered
  BY <1>1 DEF Init, NoAnswer, Answered
<1>2. ASSUME IInv, Answered, [Next]_vars PROVE Answered'
  <2>1. CASE answer' = NoAnswer
    BY <2>1 DEF NoAnswer, Answered
  <2>2. CASE Stays
    <3>1. answer' = answer /\ Statuses' = Statuses
      BY <2>2 DEF Stays, Statuses
    <3> QED
      BY <1>2, <3>1 DEF Answered
  <2>3. CASE Returns
    BY <1>2, <2>3, CreateAnswers, DeleteAnswers, ScaleAnswers, ZenonT(30) DEF Returns
  <2> QED
    BY <1>2, <2>1, <2>2, <2>3, AnswerStays, ZenonT(30)
<1>3. IInv /\ Answered => ActsAsInProviders
  <2> SUFFICES ASSUME IInv, Answered PROVE ActsAsInProviders
    OBVIOUS
  <2>1. call.op # "none" => Statuses = call.from
    BY FromStatuses
  <2> QED
    BY <2>1 DEF Answered, Acts, ActsAsInProviders
<1> QED
  BY <1>1, <1>2, <1>3, InvInit, InvNext, PTL DEF Spec


=============================================================================
