------------------------------ MODULE OkeProvider ------------------------------
(***************************************************************************)
(* The OKE provider, oke/okebmc.go, on one Cluster object, request by      *)
(* request.  Its memory is in the annotations of the object: the id of the *)
(* cluster at OKE, the work item OKE is busy with and the node count.  An  *)
(* answer is JSON that is read into the models of OkeModels whatever its   *)
(* HTTP status: an error object is one more document.  The worker creates, *)
(* deletes and scales while the reconcile loop validates and exports.      *)
(***************************************************************************)
EXTENDS OkeModels

CONSTANTS Ids,           \* ids of clusters at OKE
          Works,         \* ids of work items
          Absent,        \* an annotation that is not set
          Texts,         \* what a user writes as workersPerAD, "" for nothing
          ParseInt,      \* strconv.ParseInt(_, 10, 32) of the texts it accepts
          DefaultWorkersPerAD,
          NodeZones,     \* the availability domains of a cluster
          OtherPools,    \* pools OKE has besides the one asked for
          Sizes,         \* bound: the scaleSize arguments
          MaxInt,        \* the largest int32
          MaxCalls,      \* bound: calls of the worker
          MaxFaults      \* bound: failures

MinInt == -MaxInt - 1

-----------------------------------------------------------------------------
(* Pools as OKE has them: what MarshalBinary() can write, without a zero    *)
(* value and without a field that the models lack.                          *)

Written(v, fields) ==
  /\ v = Object(v.object)
  /\ v.object = [f \in DOMAIN v.object |-> v.object[f]]
  /\ DOMAIN v.object \subseteq fields

WrittenText(v) == v = Text(v.text) /\ v.text # EmptyString

WrittenNumber(v) == v = Number(v.number) /\ v.number \in (MinInt .. MaxInt) \ {0}

WrittenList(v) == v = Array(v.items) /\ v.items \in Seq(Range(v.items))

WrittenAd(v) ==
  Written(v, DOMAIN AdDetails) /\ \A f \in DOMAIN v.object : WrittenText(v.object[f])

WrittenPool(v) ==
  /\ Written(v, DOMAIN Pool)
  /\ "ads" \in DOMAIN v.object
  /\ WrittenList(v.object.ads)
  /\ \A i \in DOMAIN v.object.ads.items : WrittenAd(v.object.ads.items[i])
  /\ "workersPerAD" \in DOMAIN v.object => WrittenNumber(v.object.workersPerAD)
  /\ \A f \in DOMAIN v.object \ {"ads", "workersPerAD"} : WrittenText(v.object[f])

-----------------------------------------------------------------------------
ASSUME OkeAssumption ==
  /\ MaxInt \in Nat \ {0} /\ Sizes \subseteq Int /\ MaxCalls \in Nat /\ MaxFaults \in Nat
  /\ NodeZones \in Seq(STRING)
  /\ OtherPools \in Seq(Range(OtherPools))
  /\ \A i \in DOMAIN OtherPools : WrittenPool(OtherPools[i])
  /\ \A text \in DOMAIN ParseInt : ParseInt[text] \in MinInt .. MaxInt
  /\ Absent \notin Ids \cup Works \cup {"ready", "n"} /\ EmptyString \notin Ids \cup Works
  /\ EmptyString \in Texts /\ DefaultWorkersPerAD \in DOMAIN ParseInt \cap Texts

-----------------------------------------------------------------------------
VARIABLES oke,      \* the clusters at OKE
          works,    \* the work items at OKE
          obj,      \* the annotations of the Cluster object
          call,     \* the call the worker is in
          look,     \* the call the reconcile loop is in
          answer,   \* the last answer to the worker
          panicked, \* the document a call has just panicked on
          calls,
          faults

vars == <<oke, works, obj, call, look, answer, panicked, calls, faults>>

-----------------------------------------------------------------------------
(* OKE.                                                                     *)

NoCluster == [status |-> "none", masters |-> EmptyString, nodes |-> EmptyString,
              pools |-> Null]

\* Building it, OKE brings up the masters and the nodes.
Building(pools) ==
  [status |-> "live", masters |-> "PENDINGSTATE", nodes |-> "PROVISIONING", pools |-> pools]

NoWork == [of |-> Absent, status |-> "none"]

\* What OKE answers when it refuses a request.
ErrorBody == Object([code |-> Number(1), message |-> Text("refused")])

\* The request or its answer is lost.
NoReply == [json |-> "lost"]

KubeConfigBody == Object([contexts |-> Array(<<Empty>>)])

Known(id) == oke[id].status = "live"

WorkItemBody(id, w) == Object([clusterId |-> Text(id), workItemId |-> Text(w)])
StatusBody(w) == Object([statusString |-> Text(works[w].status)])
PoolsBody(id) == Object([pools |-> oke[id].pools])
DetailsBody(id) ==
  Object([k8 |-> Object([mastersState |-> Text(oke[id].masters),
                         nodesState |-> Text(oke[id].nodes)])])

-----------------------------------------------------------------------------
(* Requests.                                                                *)

NoFault == UNCHANGED faults

Fault == faults < MaxFaults /\ faults' = faults + 1

\* transmitRequest(): OKE carries the request out and answers, or refuses it with an error
\* object, or its answer is unreadable, odd or lost, done or not.
Exchange(known, answers, odd, acted, reply) ==
  \/ known /\ acted /\ reply \in answers /\ NoFault
  \/ ~known /\ ~acted /\ reply = ErrorBody /\ NoFault
  \/ known /\ ~acted /\ reply = ErrorBody /\ Fault
  \/ (acted => known) /\ reply \in {Garbage, NoReply} /\ Fault
  \/ known /\ acted /\ reply \in odd /\ Fault

Replies(bodies) == bodies \cup {ErrorBody, Garbage, NoReply}

\* A request that only asks.
Asks(known, body, reply) ==
  \E acted \in BOOLEAN : Exchange(known, {body}, {}, acted, reply)

\* Variant for mutation: the error of UnmarshalBinary() is not looked at.
ReadAnyhow(t, reply) ==
  [ok |-> TRUE, m |-> UnmarshalBinary(t, New(t), reply).m.object]

\* The answer as a model; a lost one is an error as well.
ReadReply(t, reply) ==
  LET r == UnmarshalBinary(t, New(t), reply) IN [ok |-> r.ok, m |-> r.m.object]

-----------------------------------------------------------------------------
(* Numbers and bodies.                                                      *)

\* The conversion int32(n): modulo 2^32.
Int32(n) == ((n - MinInt) % (2 * (MaxInt + 1))) + MinInt

\* setDefaultValues() and ParseInt; a text that is no int32 counts as the default.
WorkersPerAD(text) ==
  IF text \in DOMAIN ParseInt THEN ParseInt[text] ELSE ParseInt[DefaultWorkersPerAD]

\* Variant for mutation: the sum is wider than the field it is stored in.
ScaledWide(n, by) == IF n + by < 1 THEN 1 ELSE n + by

\* workersPerAd += int32(scaleSize), and at least 1
Scaled(n, by) == LET sum == Int32(n + Int32(by)) IN IF sum < 1 THEN 1 ELSE sum

\* The Go string a model holds: "" is its zero value.
HeldText(s) == IF s = EmptyString THEN Null ELSE Text(s)

Ads == [i \in DOMAIN NodeZones |-> Object([id |-> HeldText(NodeZones[i])])]

Workers(pool) == IF pool.object.workersPerAD = Null THEN 0 ELSE pool.object.workersPerAD.number

\* The number of nodes of a pool.
Nodes(pool) == Workers(pool) * Len(pool.object.ads.items)

\* The Go int32 a model holds: 0 is its zero value.
Held(n) == IF n = 0 THEN Null ELSE Number(n)

\* The pool "DEFAULT" in the body of a create request, as the model holds it.
DefaultPool(text) ==
  Object([New("Pool").object EXCEPT !.name = Text("DEFAULT"), !.ads = Array(Ads),
                                    !.workersPerAD = Held(WorkersPerAD(text))])

\* What OKE reads in a request with these pools.
Sent(pools) ==
  MarshalBinary("ClusterPools",
                Object([New("ClusterPools").object EXCEPT !.pools = pools])).object.pools

-----------------------------------------------------------------------------
(* Calls and answers.                                                       *)

\* What Providers calls the state of the clusters, where "live" stands for every state of
\* a cluster that exists.
Statuses == [i \in Ids |-> oke[i].status]

Idle == [op |-> "none", pc |-> "idle", text |-> EmptyString, by |-> 0, id |-> Absent,
         pools |-> Null, from |-> [i \in Ids |-> "none"]]

Resting == [op |-> "none", pc |-> "idle", id |-> Absent, work |-> Absent, done |-> FALSE]

NoAnswer == [op |-> "none", ok |-> TRUE, ann |-> "nothing", by |-> 0, id |-> Absent,
             from |-> [i \in Ids |-> "none"], faulted |-> FALSE]

NoAnnotation == [id |-> Absent, work |-> Absent, nodes |-> Absent]

At(pc) == call.pc = pc

\* A call of the worker ends; the controller puts the annotations on the object.
Return(ok, ann, annotations) ==
  /\ answer' = [op |-> call.op, ok |-> ok, ann |-> ann, by |-> call.by, id |-> call.id,
                from |-> call.from, faulted |-> faults' # faults]
  /\ obj' = annotations
  /\ call' = Idle
  /\ UNCHANGED panicked

Fails == Return(FALSE, "nothing", obj)

\* The process ends and starts again.
Ends == /\ call' = Idle /\ look' = Resting /\ answer' = NoAnswer
        /\ UNCHANGED obj

Panics(reply) == Ends /\ panicked' = reply

Calls == UNCHANGED <<look, calls>>

Begins(op, text, by) ==
  /\ At("idle") /\ calls < MaxCalls
  /\ calls' = calls + 1
  /\ call' = [Idle EXCEPT !.op = op, !.pc = op, !.text = text, !.by = by, !.id = obj.id,
                          !.from = Statuses]
  /\ answer' = NoAnswer
  /\ panicked' = Null
  /\ UNCHANGED <<oke, works, obj, look, faults>>

-----------------------------------------------------------------------------
(* CreateKubeCluster() and DeleteKubeCluster()                              *)

\* Ids nobody has used.
FreshId(i) == oke[i].status = "none" /\ i = CHOOSE j \in Ids : oke[j].status = "none"

FreshWork(w) == works[w].status = "none" /\ w = CHOOSE v \in Works : works[v].status = "none"

\* OKE makes the cluster i and the work item w that builds it.
Makes(i, w, pools) ==
  /\ oke' = [oke EXCEPT ![i] = Building(Array(pools.items \o OtherPools))]
  /\ works' = [works EXCEPT ![w] = [of |-> i, status |-> "Running"]]

\* Variant for mutation: only the error of UnmarshalBinary() is looked at.
AcceptedReadable(r) == r.ok

\* The answer must name the cluster and the work item.
Accepted(r) == r.ok /\ r.m.clusterId # Null /\ r.m.workItemId # Null

Name(v) == IF v = Null THEN Absent ELSE v.text

CreateKubeCluster(i, w) ==
  LET pools == Array(<<DefaultPool(call.text)>>)
      answers == {WorkItemBody(i, w)}
      odd == {Object([clusterId |-> Text(i)])}
      told(m) == [id |-> Name(m.clusterId), work |-> Name(m.workItemId),
                  nodes |-> Nodes(pools.items[1])]
  IN  /\ At("create")
      /\ FreshId(i) /\ FreshWork(w)
      /\ \E acted \in BOOLEAN, reply \in Replies(answers \cup odd) :
           LET r == ReadReply("ClusterWorkItemResponse", reply)
           IN  /\ Exchange(TRUE, answers, odd, acted, reply)
               /\ IF acted THEN Makes(i, w, Sent(pools)) ELSE UNCHANGED <<oke, works>>
               /\ IF Accepted(r) THEN Return(TRUE, "nodes", told(r.m)) ELSE Fails
      /\ Calls

\* Whatever the request comes to, the answer is nil; shutdownCluster() deletes the
\* annotations.
DeleteKubeCluster ==
  /\ At("delete") /\ call.id # Absent
  /\ \E acted \in BOOLEAN, reply \in Replies({Empty}) :
       /\ Exchange(Known(call.id), {Empty}, {}, acted, reply)
       /\ oke' = IF acted THEN [oke EXCEPT ![call.id].status = "gone"] ELSE oke
  /\ Return(TRUE, "nothing", NoAnnotation)
  /\ Calls /\ UNCHANGED works

\* Variant for mutation: no id is no error.
NoClusterIdNil ==
  /\ call.pc \in {"delete", "scale"} /\ call.id = Absent
  /\ NoFault /\ Return(TRUE, "nothing", obj)
  /\ Calls /\ UNCHANGED <<oke, works>>

\* Without an id there is nothing to ask OKE for.
NoClusterId ==
  /\ call.pc \in {"delete", "scale"} /\ call.id = Absent
  /\ NoFault /\ Fails
  /\ Calls /\ UNCHANGED <<oke, works>>

-----------------------------------------------------------------------------
(* ScaleKubeCluster(): the pools are read and written back.                 *)

\* Variant for mutation: the other pools are left out of the request.
ResizedAlone(pools, n) ==
  Array(<<Object([pools.items[1].object EXCEPT !.workersPerAD = Held(n)])>>)

\* clusterPools.Pools[0].WorkersPerAD = workersPerAd
Resized(pools, n) ==
  Array([pools.items EXCEPT ![1] = Object([@.object EXCEPT !.workersPerAD = Held(n)])])

\* Pools[0] of an answer without pools ends the process.
ScaleGetsPools ==
  LET Handle(reply) ==
        LET r == ReadReply("ClusterPoolsResponse", reply)
            pools == r.m.pools
            n == Workers(pools.items[1])
        IN  IF ~r.ok THEN Fails /\ Calls
            ELSE IF pools = Null \/ pools = Array(<<>>) THEN Panics(reply) /\ UNCHANGED calls
            ELSE IF n = 1 /\ call.by < 0 THEN Return(TRUE, "ready", obj) /\ Calls
            ELSE /\ call' = [call EXCEPT !.pc = "put",
                                         !.pools = Resized(pools, Scaled(n, call.by))]
                 /\ Calls /\ UNCHANGED <<obj, answer, panicked>>
  IN  /\ At("scale") /\ call.id # Absent
      /\ \E reply \in Replies({PoolsBody(call.id)}) :
           Asks(Known(call.id), PoolsBody(call.id), reply) /\ Handle(reply)
      /\ UNCHANGED <<oke, works>>

\* The answer must name this cluster; without a work item nothing is annotated.
ScalePutsPools(w) ==
  LET id == call.id
      answers == {WorkItemBody(id, w), Object([clusterId |-> Text(id)])}
      odd == {WorkItemBody(i, w) : i \in Ids \ {id}}
      told(m) == [obj EXCEPT !.work = Name(m.workItemId), !.nodes = Nodes(call.pools.items[1])]
  IN  /\ At("put")
      /\ FreshWork(w)
      /\ \E acted \in BOOLEAN, reply \in Replies(answers \cup odd) :
           LET r == ReadReply("ClusterWorkItemResponse", reply)
           IN  /\ Exchange(Known(id), answers, odd, acted, reply)
               /\ IF acted
                  THEN /\ oke' = [oke EXCEPT ![id].pools = Sent(call.pools),
                                             ![id].nodes = "PROVISIONING"]
                       /\ works' = [works EXCEPT ![w] = [of |-> id, status |-> "Running"]]
                  ELSE UNCHANGED <<oke, works>>
               /\ IF ~r.ok \/ Name(r.m.clusterId) # id THEN Fails
                  ELSE IF r.m.workItemId = Null THEN Return(TRUE, "nothing", obj)
                  ELSE Return(TRUE, "nodes", told(r.m))
      /\ Calls

-----------------------------------------------------------------------------
(* ValidateKubeCluster() and ExportKubeConfig()                             *)

Looks == UNCHANGED <<oke, works, call, answer, calls>>

LookBegins(op) ==
  /\ look.pc = "idle"
  /\ look' = [op |-> op, id |-> obj.id, work |-> obj.work, done |-> FALSE,
              pc |-> IF op = "export" THEN "export"
                     ELSE IF obj.work = Absent THEN "cluster" ELSE "work"]
  /\ panicked' = Null
  /\ NoFault /\ Looks /\ UNCHANGED obj

\* The reconcile loop deletes the work item from the object when it was found complete.
LookReturns(done) ==
  /\ obj' = IF done THEN [obj EXCEPT !.work = Absent] ELSE obj
  /\ look' = Resting
  /\ UNCHANGED panicked

ValidateGetsWorkItem ==
  LET Handle(reply) ==
        LET r == ReadReply("WorkItem", reply)
        IN  IF r.ok /\ r.m.statusString = Text("Complete")
            THEN /\ look' = [look EXCEPT !.pc = "cluster", !.done = TRUE]
                 /\ UNCHANGED <<obj, panicked>>
            ELSE LookReturns(FALSE)
  IN  /\ look.pc = "work"
      /\ \E reply \in Replies({StatusBody(look.work)}) :
           Asks(TRUE, StatusBody(look.work), reply) /\ Handle(reply)
      /\ Looks

\* Variant for mutation: one of the two states is enough.
RunsInPart(k8) == k8.mastersState = Text("RUNNING") \/ k8.nodesState = Text("RUNNING")

Runs(k8) == k8.mastersState = Text("RUNNING") /\ k8.nodesState = Text("RUNNING")

\* clusterDetails.K8 of an answer without it ends the process.
ValidateGetsCluster ==
  LET Handle(reply) ==
        LET r == ReadReply("ClusterDetails", reply)
        IN  IF ~r.ok THEN LookReturns(look.done) /\ Looks
            ELSE IF r.m.k8 = Null THEN Panics(reply) /\ UNCHANGED <<oke, works, calls>>
            ELSE /\ obj' = IF look.done THEN [obj EXCEPT !.work = Absent] ELSE obj
                 /\ look' = IF Runs(r.m.k8.object) THEN [look EXCEPT !.pc = "valid"]
                            ELSE Resting
                 /\ Looks /\ UNCHANGED panicked
  IN  /\ look.pc = "cluster" /\ look.id # Absent
      /\ \E reply \in Replies({DetailsBody(look.id)}) :
           Asks(Known(look.id), DetailsBody(look.id), reply) /\ Handle(reply)

\* validateCluster() makes the cluster joining or ready.
ValidateSucceeds ==
  /\ look.pc = "valid"
  /\ LookReturns(FALSE)
  /\ NoFault /\ Looks

LookNoClusterId ==
  /\ look.pc \in {"cluster", "export"} /\ look.id = Absent
  /\ LookReturns(look.done)
  /\ NoFault /\ Looks

\* An error object is a kubeconfig without contexts: clusterJoin() looks up the context
\* and ends the process.
ExportKubeConfig ==
  LET Handle(reply) ==
        IF reply = ErrorBody THEN Panics(reply) /\ UNCHANGED <<oke, works, calls>>
        ELSE LookReturns(FALSE) /\ Looks
  IN  /\ look.pc = "export" /\ look.id # Absent
      /\ \E reply \in Replies({KubeConfigBody}) :
           Asks(Known(look.id), KubeConfigBody, reply) /\ Handle(reply)

-----------------------------------------------------------------------------
(* The cloud, and the end of the process.                                   *)

Moves == UNCHANGED <<obj, call, look, answer, panicked, calls>>

OkeStarts(i) ==
  /\ Known(i)
  /\ \/ oke[i].masters # "RUNNING" /\ oke' = [oke EXCEPT ![i].masters = "RUNNING"]
     \/ oke[i].nodes # "RUNNING" /\ oke' = [oke EXCEPT ![i].nodes = "RUNNING"]
  /\ NoFault /\ Moves /\ UNCHANGED works

OkeCompletes(w) ==
  /\ works[w].status = "Running"
  /\ \/ works' = [works EXCEPT ![w].status = "Complete"] /\ NoFault
     \/ works' = [works EXCEPT ![w].status = "Failed"] /\ Fault
  /\ Moves /\ UNCHANGED oke

Crash == Fault /\ Ends /\ UNCHANGED <<oke, works, panicked, calls>>

-----------------------------------------------------------------------------
Init ==
  /\ oke = [i \in Ids |-> NoCluster]
  /\ works = [w \in Works |-> NoWork]
  /\ obj = NoAnnotation
  /\ call = Idle /\ look = Resting /\ answer = NoAnswer
  /\ panicked = Null
  /\ calls = 0 /\ faults = 0

Worker ==
  \/ \E text \in Texts : Begins("create", text, 0)
  \/ Begins("delete", EmptyString, 0)
  \/ \E by \in Sizes : Begins("scale", EmptyString, by)
  \/ \E i \in Ids, w \in Works : CreateKubeCluster(i, w)
  \/ DeleteKubeCluster \/ NoClusterId
  \/ ScaleGetsPools
  \/ \E w \in Works : ScalePutsPools(w)

Look ==
  \/ \E op \in {"validate", "export"} : LookBegins(op)
  \/ ValidateGetsWorkItem \/ ValidateGetsCluster \/ ValidateSucceeds
  \/ LookNoClusterId \/ ExportKubeConfig

Cloud == (\E i \in Ids : OkeStarts(i)) \/ (\E w \in Works : OkeCompletes(w))

Next == Worker \/ Look \/ Cloud \/ Crash

Spec == Init /\ [][Next]_vars

-----------------------------------------------------------------------------
(* Properties.                                                              *)

\* The variables hold what their declarations say, and OKE is never asked for a number of
\* workers that is no int32.
TypeOK ==
  /\ \A i \in Ids :
       /\ oke[i].status \in {"none", "live", "gone"}
       /\ oke[i].pools # Null =>
            \A pool \in Range(Decode(Each("Pool"), oke[i].pools).items) :
              Workers(pool) \in MinInt .. MaxInt
  /\ works \in [Works -> [of : Ids \cup {Absent},
                          status : {"none", "Running", "Complete", "Failed"}]]
  /\ obj.id \in Ids \cup {Absent} /\ obj.work \in Works \cup {Absent}
  /\ call.pc \in {"idle", "create", "delete", "scale", "put"}
  /\ call.id \in Ids \cup {Absent} /\ call.text \in Texts /\ call.by \in Sizes \cup {0}
  /\ look.pc \in {"idle", "work", "cluster", "valid", "export"}
  /\ look.id \in Ids \cup {Absent} /\ look.work \in Works \cup {Absent}
  /\ calls \in 0 .. MaxCalls /\ faults \in 0 .. MaxFaults

\* When CreateKubeCluster() or ScaleKubeCluster() answers with a node count, the object
\* names a cluster that exists and a work item of that cluster, whatever was lost or
\* refused before; and the count is the one OKE was asked for, unless it is 0, which
\* the request leaves out.
CountedIsAskedFor ==
  answer.ok /\ answer.ann = "nodes" =>
    /\ obj.id \in Ids /\ Known(obj.id)
    /\ LET sent == oke[obj.id].pools.items[1].object
       IN  IF "workersPerAD" \in DOMAIN sent
           THEN obj.nodes = sent.workersPerAD.number * Len(NodeZones)
           ELSE obj.nodes = 0
    /\ obj.work # Absent => works[obj.work].of = obj.id

\* ScaleKubeCluster() sends back all the pools it was given: the pools besides the first,
\* and the fields of the first besides workersPerAD, stay as OKE has them.
OthersKept ==
  [][\A i \in Ids : oke[i].status = "live" =>
       LET old == oke[i].pools.items
           new == oke'[i].pools.items
           others == DOMAIN old[1].object \ {"workersPerAD"}
       IN  /\ Tail(new) = Tail(old)
           /\ DOMAIN new[1].object \ {"workersPerAD"} = others
           /\ \A f \in others : new[1].object[f] = old[1].object[f]]_vars

\* ValidateKubeCluster() finds a cluster valid only while its masters and nodes run and
\* after the work item it was given is complete, and takes a work item off the object
\* only after the one it was given is complete.
ValidIsRunning ==
  [][LET complete == works[look.work].status = "Complete"
     IN  /\ look'.pc = "valid" /\ look.pc # "valid" =>
              /\ Known(look.id)
              /\ oke[look.id].masters = "RUNNING" /\ oke[look.id].nodes = "RUNNING"
              /\ look.work # Absent => complete
         /\ obj.work # Absent /\ obj'.work = Absent /\ answer' = answer =>
              look.work # Absent /\ complete]_vars

\* No document OKE sends when it carries a request out, and none that cannot be read, ends
\* the process; an error object does, and OKE sends one to a healthy controller only
\* after it has deleted a cluster.
PanicsOnRefusalOnly ==
  panicked # Null =>
    panicked = ErrorBody /\ (faults > 0 \/ \E i \in Ids : oke[i].status = "gone")

\* What Providers says of an OKE cluster.
Abstract == INSTANCE Providers WITH Fields <- {"state", "nodes", "id", "work"},
                                    Values <- Ids \cup {"ready", "n"}

Seen(st) == IF st \in {"none", "gone"} THEN st ELSE "live"

\* The states of Providers the statuses stand for.
Unseen(from) ==
  {s \in [Ids -> {"none", "gone", "building", "running", "failed"}] :
     \A i \in Ids : Seen(s[i]) = from[i]}

\* What Providers lets an operation do, in terms of this module.
Results(op, by, id, from) ==
  LET o == [id |-> id]
      of(s) == CASE op = "create" -> Abstract!OkeCreate(s)
                 [] op = "delete" -> Abstract!OkeDelete(s, o)
                 [] op = "scale" -> Abstract!OkeScale(s, o, by >= 0)
      ann(a) == IF a.set["state"] # Absent THEN "ready"
                ELSE IF a.set["nodes"] # Absent THEN "nodes" ELSE "nothing"
  IN  {[from |-> [i \in Ids |-> Seen(r.inst[i])], ok |-> r.ok, ann |-> ann(r.ann),
        fault |-> r.fault] : r \in UNION {of(s) : s \in Unseen(from)}}

\* The controller is checked with the one-step operations of Providers.  Every call here
\* leaves the clusters as one of them does and gives its answer, with a failure only if
\* one happened; and where the process may end in the middle of a call, so that a delete
\* or a create was carried out and nobody knows, OKE is as the operation may leave it.
ActsAsInProviders ==
  /\ call.op # "none" =>
       \/ Statuses = call.from
       \/ \E r \in Results(call.op, call.by, call.id, call.from) : r.from = Statuses
  /\ answer.op # "none" =>
       \E r \in Results(answer.op, answer.by, answer.id, answer.from) :
         /\ r.from = Statuses /\ r.ok = answer.ok /\ r.ann = answer.ann
         /\ r.fault => answer.faulted

=============================================================================
