------------------------- MODULE ControllerTypeProofs --------------------------
(***************************************************************************)
(* The inductive invariant of ClusterController, that every step of it is a*)
(* step of ClusterUpdater, keeps the types, and leaves each updater in use *)
(* with one owner.                                                         *)
(***************************************************************************)
EXTENDS ClusterController, ClusterUpdaterProofs

\* The seconds a prover may take for a step.
USE SMTT(30), ZenonT(30)

-----------------------------------------------------------------------------
(* The inductive invariant.                                                 *)

\* Which goroutine has which updater.
OwnInv ==
  /\ wk.u # None <=> wk.pc \in {"mark", "secret", "finish"}
  /\ wk.pc = "secret" => upd[wk.u].pc = "ok"
  /\ rc.u # None <=> rc.pc = "update"
  /\ \A u \in Updaters :
       upd[u].pc # "free" <=> u \in {wk.u, rc.u, hd} \cup retrying
  /\ wk.u # None => wk.u \notin {rc.u, hd} \cup retrying
  /\ rc.u # None => rc.u \notin {hd} \cup retrying
  /\ hd \notin retrying
  /\ \A u \in retrying : upd[u].pc = "err"
  /\ shared \subseteq {rc.u, hd} \cup retrying

\* The episodes served: none is from the future, none repeated, and the one of a
\* pending cluster is not among them.
EpisodeInv ==
  \A c \in Clusters :
    /\ \A i \in DOMAIN served[c] :
         served[c][i] <= ep[c] /\ (IsPending(api[c]) => served[c][i] # ep[c])
    /\ IsInjective(served[c])

\* The worker before it calls the provider: its updater takes the state of its own
\* cluster away from pending, and once it has, a pending cluster is a later episode.
MarkInv ==
  LET c == wk.copy.name
      r == upd[wk.u]
  IN  wk.pc = "mark" =>
        /\ wk.ep <= ep[c]
        /\ \A i \in DOMAIN served[c] : served[c][i] # wk.ep
        /\ r.name = c /\ r.target = c
        /\ r.ann.set["state"] \notin Pending \cup {Absent} /\ "state" \notin r.ann.del
        /\ r.pc = "write" => r.obj["state"] \notin Pending
        /\ r.pc = "ok" /\ IsPending(api[c]) => wk.ep < ep[c]

\* A delete of resetCluster() is not beyond the last attempt.
TriesInv == rc.pc = "delete" => rc.tries < MaxRetryCount

HistoryType ==
  /\ ep \in [Clusters -> Nat]
  /\ served \in [Clusters -> Seq(Nat)]

CtlInv ==
  CtlTypeOK /\ HistoryType /\ TriesInv /\ CopyInv /\ OwnInv /\ EpisodeInv /\ MarkInv

-----------------------------------------------------------------------------
(* What the providers return is well typed.                                 *)

ProviderResult ==
  [inst : Instances, ann : ClusterAnnotation, ok : BOOLEAN, fault : BOOLEAN]

\* SetAnnotation() with values makes an annotation.
LEMMA SetType ==
  ASSUME NEW g, \A f \in DOMAIN g : g[f] \in Values
  PROVE  Set(g) \in ClusterAnnotation
BY DEF Set, ClusterAnnotation, Object

\* No change is an annotation.
LEMMA NoChangeType == NoChange \in ClusterAnnotation
BY DEF NoChange, Nothing, ClusterAnnotation, Object

\* Two annotations together are one.
LEMMA MergeType ==
  ASSUME NEW a \in ClusterAnnotation, NEW b \in ClusterAnnotation
  PROVE  Merge(a, b) \in ClusterAnnotation
BY DEF Merge, ClusterAnnotation, Object

\* The state alone.
LEMMA SetStateType ==
  ASSUME NEW s \in Values
  PROVE  Set([state |-> s]) \in ClusterAnnotation
<1>1. \A f \in DOMAIN [state |-> s] : [state |-> s][f] \in Values
  OBVIOUS
<1>2. QED
  BY <1>1, SetType

\* The annotations the providers return.
LEMMA ProviderAnnotationTypes ==
  /\ NodeCount \in ClusterAnnotation
  /\ BackToReady \in ClusterAnnotation
  /\ \A i \in Values : /\ Set([id |-> i, work |-> i, nodes |-> "n"]) \in ClusterAnnotation
                       /\ Set([work |-> i, nodes |-> "n"]) \in ClusterAnnotation
<1>0. "n" \in Values /\ "ready" \in Values
  BY ValuesAssumption DEF Settled
<1>1. NodeCount \in ClusterAnnotation
  <2>1. \A f \in DOMAIN [nodes |-> "n"] : [nodes |-> "n"][f] \in Values
    BY <1>0
  <2>2. QED
    BY <2>1, SetType DEF NodeCount
<1>2. BackToReady \in ClusterAnnotation
  BY <1>0, SetStateType DEF BackToReady
<1>3. ASSUME NEW i \in Values
      PROVE  /\ Set([id |-> i, work |-> i, nodes |-> "n"]) \in ClusterAnnotation
             /\ Set([work |-> i, nodes |-> "n"]) \in ClusterAnnotation
  <2>1. \A f \in DOMAIN [id |-> i, work |-> i, nodes |-> "n"] :
          [id |-> i, work |-> i, nodes |-> "n"][f] \in Values
    BY <1>0
  <2>2. \A f \in DOMAIN [work |-> i, nodes |-> "n"] :
          [work |-> i, nodes |-> "n"][f] \in Values
    BY <1>0
  <2>3. QED
    BY <2>1, <2>2, SetType
<1>4. QED
  BY <1>1, <1>2, <1>3

\* The instances after one of them has changed.
LEMMA AtType ==
  ASSUME NEW s \in Instances, NEW i, NEW st \in Status
  PROVE  At(s, i, st) \in Instances
BY ZenonT(30) DEF At, Instances

\* The three kinds of result.
LEMMA ResultType ==
  ASSUME NEW inst \in Instances, NEW ann \in ClusterAnnotation
  PROVE  /\ Fine(inst, ann) \in ProviderResult /\ Refused(inst, ann) \in ProviderResult
         /\ Broken(inst) \in ProviderResult
         /\ \A ok, fault \in BOOLEAN : Result(inst, ann, ok, fault) \in ProviderResult
BY NoChangeType DEF Fine, Refused, Broken, Result, ProviderResult

\* What creating a cluster returns.
LEMMA CreateType ==
  ASSUME NEW class, NEW s \in Instances, NEW obj \in Object,
         NEW r \in CreateKubeCluster(class, s, obj)
  PROVE  r \in ProviderResult
<1> USE NoChangeType, ProviderAnnotationTypes
<1>1. CASE class = "kops"
  <2>1. KopsId \in Ids
    BY IdsAssumption DEF KopsId
  <2>2. s[KopsId] \in Status /\ Applied(s[KopsId]) \in Status
    BY <2>1 DEF Instances, Applied, Status
  <2>3. \A st \in Status : At(s, KopsId, st) \in Instances
    BY AtType
  <2>4. {"none", "scraps", "broken", "config", "building"} \subseteq Status
    BY DEF Status, Stopped
  <2>5. QED
    BY ResultType, <1>1, <2>2, <2>3, <2>4 DEF CreateKubeCluster, KopsCreate, BrokenAt
<1>2. CASE class # "kops"
  <2> DEFINE new == {i \in Ids : s[i] = "none"}
             i == CHOOSE i \in new : TRUE
  <2>1. CASE new = {}
    BY ResultType, <1>2, <2>1 DEF CreateKubeCluster, OkeCreate
  <2>2. CASE new # {}
    <3>1. i \in Values
      BY <2>2, ValuesAssumption
    <3>2. At(s, i, "building") \in Instances
      BY AtType DEF Status
    <3>3. r \in {Broken(s), Broken(At(s, i, "building")),
                 Fine(At(s, i, "building"), Set([id |-> i, work |-> i, nodes |-> "n"]))}
      BY <1>2 DEF CreateKubeCluster, OkeCreate
    <3> HIDE DEF i
    <3>4. QED
      BY ResultType, <3>1, <3>2, <3>3, ZenonT(30)
  <2>3. QED
    BY <2>1, <2>2
<1>3. QED
  BY <1>1, <1>2

\* What deleting a cluster returns.
LEMMA DeleteType ==
  ASSUME NEW class, NEW s \in Instances, NEW obj \in Object,
         NEW r \in DeleteKubeCluster(class, s, obj)
  PROVE  r \in ProviderResult
<1>1. \A i, st : st \in Status => At(s, i, st) \in Instances
  BY AtType
<1>2. Stopped \subseteq Status /\ {"none", "gone"} \subseteq Status
  BY DEF Status, Stopped
<1>3. CASE class = "kops"
  BY <1>1, <1>2, <1>3, NoChangeType, ResultType
     DEF DeleteKubeCluster, KopsDelete, BrokenAt
<1>4. CASE class # "kops"
  BY <1>1, <1>2, <1>4, NoChangeType, ResultType, ZenonT(30) DEF DeleteKubeCluster, OkeDelete
<1>5. QED
  BY <1>3, <1>4

\* What scaling a cluster returns.
LEMMA ScaleType ==
  ASSUME NEW class, NEW s \in Instances, NEW obj \in Object, NEW up,
         NEW r \in ScaleKubeCluster(class, s, obj, up)
  PROVE  r \in ProviderResult
<1>1. \A i : At(s, i, "building") \in Instances
  BY AtType DEF Status
<1>2. CASE class = "kops"
  BY <1>1, <1>2, NoChangeType, ProviderAnnotationTypes, ResultType
     DEF ScaleKubeCluster, KopsScale
<1>3. CASE class # "kops"
  <2>1. CASE obj["id"] = Absent
    BY <1>3, <2>1, NoChangeType, ResultType DEF ScaleKubeCluster, OkeScale
  <2>2. CASE obj["id"] # Absent
    <3>1. obj["id"] \in Values
      BY <2>2, FieldsAssumption DEF Object
    <3>2. Set([work |-> obj["id"], nodes |-> "n"]) \in ClusterAnnotation
      BY <3>1, ProviderAnnotationTypes, ZenonT(30)
    <3>3. QED
      BY <1>1, <1>3, <2>2, <3>2, NoChangeType, ProviderAnnotationTypes, ResultType
         DEF ScaleKubeCluster, OkeScale
  <2>3. QED
    BY <2>1, <2>2
<1>4. QED
  BY <1>2, <1>3

\* What validating a cluster returns.
LEMMA ValidateType ==
  ASSUME NEW class, NEW s \in Instances, NEW obj \in Object,
         NEW r \in ValidateKubeCluster(class, s, obj)
  PROVE  r \in ProviderResult
<1>1. CASE class = "kops"
  BY <1>1, NoChangeType, ResultType DEF ValidateKubeCluster, KopsValidate
<1>2. CASE class # "kops"
  <2> DEFINE done == IF obj["work"] = Absent THEN NoChange
                     ELSE [NoChange EXCEPT !.del = {"work"}]
  <2>1. done \in ClusterAnnotation
    <3>1. [NoChange EXCEPT !.del = {"work"}] \in ClusterAnnotation
      BY NoChangeType, FieldsAssumption DEF ClusterAnnotation
    <3>2. QED
      BY <3>1, NoChangeType
  <2>2. r \in {Broken(s), Result(s, done, FALSE, TRUE), Refused(s, NoChange),
               Fine(s, done), Refused(s, done)}
    BY <1>2, ZenonT(30) DEF ValidateKubeCluster, OkeValidate
  <2> HIDE DEF done
  <2>3. QED
    BY <2>1, <2>2, NoChangeType, ResultType, ZenonT(30)
<1>3. QED
  BY <1>1, <1>2

-----------------------------------------------------------------------------
(* Types of the parts of the state.                                         *)

\* A copy of an object, and the copy nobody uses.
LEMMA CopyTypes ==
  ASSUME TypeOK
  PROVE  /\ NoCopy \in CopyType
         /\ \A c \in Clusters : Copy(c) \in CopyType
<1>1. (CHOOSE c \in Clusters : TRUE) \in Clusters
  BY ClustersAssumption
<1>2. NoCopy \in CopyType
  BY <1>1 DEF NoCopy, CopyType, Nothing, Object
<1>3. QED
  BY <1>2 DEF Copy, CopyType, TypeOK

\* The goroutines between two pieces of work.
LEMMA IdleTypes ==
  ASSUME TypeOK
  PROVE  /\ IdleWorker \in WorkerType /\ IdleLoop \in LoopType
         /\ \A u \in Updaters : Finishing(u) \in WorkerType
         /\ \A items \in Seq(CopyType) : Looping(items) \in LoopType
<1>1. NoCopy \in CopyType
  BY CopyTypes
<1>2. 0 \in 0 .. MaxRetryCount /\ <<>> \in Seq(CopyType)
  BY MaxRetryCountAssumption
<1>3. IdleWorker \in WorkerType
  BY <1>1 DEF IdleWorker, WorkerType
<1>4. IdleLoop \in LoopType
  BY <1>1, <1>2 DEF IdleLoop, LoopType
<1>5. \A u \in Updaters : Finishing(u) \in WorkerType
  BY <1>3, ZenonT(30) DEF Finishing, WorkerType
<1>6. \A items \in Seq(CopyType) : Looping(items) \in LoopType
  BY <1>4, ZenonT(30) DEF Looping, LoopType
<1>7. QED
  BY <1>3, <1>4, <1>5, <1>6

\* The clusters of a set in some order are a sequence of these clusters.
LEMMA OrdersType ==
  ASSUME NEW S \in SUBSET Clusters, NEW order \in Orders(S)
  PROVE  order \in Seq(Clusters) /\ Range(order) = S
<1>1. Cardinality(S) \in Nat
  BY FiniteAssumption
<1>2. /\ order \in [1 .. Cardinality(S) -> S]
      /\ \A c \in S : \E i \in 1 .. Cardinality(S) : order[i] = c
  BY DEF Orders, Bijection, Injection, Surjection
<1>3. order \in Seq(Clusters)
  BY <1>1, <1>2
<1>4. Range(order) = S
  BY <1>2 DEF Range
<1>5. QED
  BY <1>3, <1>4

\* Events are added to the work queue.
LEMMA ObserveType ==
  ASSUME queue \in Seq(Clusters), Observe \/ Unobserved
  PROVE  queue' \in Seq(Clusters)
<1>1. CASE Unobserved
  BY <1>1 DEF Unobserved
<1>2. CASE Observe
  <2> DEFINE news == {c \in Clusters : api'[c] # api[c] /\ IsPending(api'[c])}
  <2>1. PICK order \in Orders(news) : queue' = queue \o order
    BY <1>2, ZenonT(40) DEF Observe
  <2>2. order \in Seq(Clusters)
    BY OrdersType
  <2> HIDE DEF news
  <2>3. QED
    BY <2>1, <2>2
<1>3. QED
  BY <1>1, <1>2

\* Failures are counted up to the bound.
LEMMA FaultTypes ==
  ASSUME faults \in 0 .. MaxFaults
  PROVE  /\ \A kind : Fault(kind) => faults' \in 0 .. MaxFaults
         /\ NoFault => faults' \in 0 .. MaxFaults
         /\ \A cause, kind : Fails(cause, kind) => faults' \in 0 .. MaxFaults
         /\ \A r : Answer(r) => faults' \in 0 .. MaxFaults
BY MaxFaultsAssumption DEF Fault, NoFault, Fails, Answer

-----------------------------------------------------------------------------
(* Every step is one of ClusterUpdater.                                     *)

\* An updater starts on a copy that was read earlier.
LEMMA BeginIsStep ==
  ASSUME TypeOK, NEW u \in Updaters, NEW copy \in CopyType, NEW ann \in ClusterAnnotation,
         Begin(u, copy, ann)
  PROVE  Step(ClusterAnnotation)
<1>1. Start(u, copy.name, copy.rv, copy.obj, ann)
  BY DEF Begin
<1>2. copy.name \in Clusters /\ copy.obj \in Object /\ copy.rv \in Nat
  BY DEF CopyType
<1>3. copy.rv \in 0 .. api[copy.name].rv
  BY <1>1, <1>2 DEF Start, TypeOK
<1>4. QED
  BY <1>1, <1>2, <1>3 DEF Step

\* A goroutine inside update().
LEMMA UpdateStepIsStep ==
  ASSUME NEW u \in Updaters, UpdateStep(u)
  PROVE  Step(ClusterAnnotation)
BY ZenonT(60) DEF UpdateStep, Step

\* The other ways to change the updaters or the objects.
LEMMA OthersAreSteps ==
  /\ \A u \in Updaters :
       Release(u) \/ Retry(u) \/ Finish(u) => Step(ClusterAnnotation) \/ UNCHANGED vars
  /\ \A u \in Updaters, ann \in ClusterAnnotation : Reuse(u, ann) => Step(ClusterAnnotation)
  /\ \A c \in Clusters, live \in BOOLEAN, obj \in Object :
       ForeignWrite(c, live, obj) => Step(ClusterAnnotation)
  /\ Restart => Step(ClusterAnnotation)
BY SMTT(30), ZenonT(40) DEF Step, Finish, store, vars

\* The states are values, and none of them is the absent one.
LEMMA StateValues ==
  /\ Pending \cup InFlight \cup Settled \subseteq Values
  /\ \A s \in DOMAIN Marks : Marks[s] \in Values /\ Marks[s] \notin Pending \cup {Absent}
<1>1. Pending \cup InFlight \cup Settled \subseteq Values
  BY ValuesAssumption
<1>2. \A s \in DOMAIN Marks : Marks[s] \in {"shutting-down", "scaling-up", "scaling-down"}
  BY DEF Marks
<1>3. {"shutting-down", "scaling-up", "scaling-down"} \subseteq InFlight \cup Settled
  BY DEF InFlight, Settled
<1>4. QED
  BY <1>1, <1>2, <1>3, AbsentAssumption DEF Pending

\* The annotation of a cluster that has been shut down.
LEMMA OfflineType == OfflineAnnotation \in ClusterAnnotation
<1>1. Set([state |-> "offline"]) \in ClusterAnnotation
  BY SetStateType, StateValues DEF Settled
<1>2. {"nodes", "id", "work"} \subseteq Fields
  BY FieldsAssumption
<1>3. QED
  BY <1>1, <1>2 DEF OfflineAnnotation, ClusterAnnotation

\* The worker.
LEMMA WorkerIsStep == CtlInv /\ Worker => Step(ClusterAnnotation) \/ UNCHANGED vars
<1> SUFFICES ASSUME CtlInv, Worker PROVE Step(ClusterAnnotation) \/ UNCHANGED vars
  OBVIOUS
<1>1. /\ TypeOK /\ wk \in WorkerType /\ cloud \in [Clusters -> Instances]
      /\ wk.copy \in CopyType /\ wk.copy.name \in Clusters /\ wk.copy.obj \in Object
  BY DEF CtlInv, CtlTypeOK, WorkerType, CopyType
<1>2. wk.pc \in {"mark", "secret", "finish"} => wk.u \in Updaters
  BY <1>1 DEF CtlInv, OwnInv, WorkerType
<1>3. ASSUME NEW c \in Clusters, WorkerDrops(c) \/ WorkerTakesCreate(c)
      PROVE  UNCHANGED vars
  BY <1>3 DEF WorkerDrops, WorkerTakesCreate, store, vars
<1>4. ASSUME NEW c \in Clusters, NEW u \in Updaters, WorkerMarks(c, u)
      PROVE  Step(ClusterAnnotation)
  <2>1. Set([state |-> Marks[State(c)]]) \in ClusterAnnotation
    BY <1>4, StateValues, SetStateType DEF WorkerMarks
  <2>2. Copy(c) \in CopyType
    BY <1>1, CopyTypes
  <2>3. QED
    BY <1>1, <1>4, <2>1, <2>2, BeginIsStep DEF WorkerMarks
<1>5. ASSUME NEW u \in Updaters, WorkerCreates(u)
      PROVE  Step(ClusterAnnotation)
  <2> DEFINE c == wk.copy.name
  <2>1. PICK r \in CreateKubeCluster(Class[c], cloud[c], wk.copy.obj) :
          Begin(u, wk.copy, IF r.ok THEN Merge(r.ann, Set([state |-> "provisioning"]))
                            ELSE Set([state |-> "failed-provision"]))
    BY <1>5 DEF WorkerCreates
  <2>2. r \in ProviderResult
    BY <1>1, <2>1, CreateType
  <2>3. /\ Set([state |-> "provisioning"]) \in ClusterAnnotation
        /\ Set([state |-> "failed-provision"]) \in ClusterAnnotation
    BY StateValues, SetStateType DEF InFlight, Settled
  <2>4. Merge(r.ann, Set([state |-> "provisioning"])) \in ClusterAnnotation
    BY <2>2, <2>3, MergeType DEF ProviderResult
  <2>5. QED
    BY <1>1, <2>1, <2>3, <2>4, BeginIsStep
<1>6. CASE WorkerAborts
  BY <1>2, <1>6, OthersAreSteps DEF WorkerAborts
<1>7. CASE WorkerDeletes
  BY <1>2, <1>7, OthersAreSteps DEF WorkerDeletes, Marked, store, vars
<1>8. CASE WorkerDeletesSecret
  BY <1>2, <1>8, OthersAreSteps, OfflineType DEF WorkerDeletesSecret
<1>9. CASE WorkerScales
  <2> DEFINE c == wk.copy.name
             up == wk.copy.obj["state"] = "pending-up"
             failed == Set([state |-> IF up THEN "failed-up" ELSE "failed-down"])
  <2>1. PICK r \in ScaleKubeCluster(Class[c], cloud[c], wk.copy.obj, up) :
          Reuse(wk.u, IF r.ok THEN r.ann ELSE Merge(r.ann, failed))
    BY <1>9, SMTT(30), ZenonT(40) DEF WorkerScales
  <2>2. r \in ProviderResult
    BY <1>1, <2>1, ScaleType
  <2>3. failed \in ClusterAnnotation
    BY StateValues, SetStateType DEF Settled
  <2>4. r.ann \in ClusterAnnotation /\ Merge(r.ann, failed) \in ClusterAnnotation
    BY <2>2, <2>3, MergeType DEF ProviderResult
  <2>5. wk.u \in Updaters
    BY <1>2, <1>9 DEF WorkerScales, Marked
  <2> HIDE DEF failed
  <2>6. QED
    BY <2>1, <2>4, <2>5, OthersAreSteps
<1>10. CASE WorkerPanics
  BY <1>10, OthersAreSteps DEF WorkerPanics, Dies
<1>11. CASE WorkerFinishes
  BY <1>2, <1>11, OthersAreSteps DEF WorkerFinishes
<1>12. CASE Updating(wk.u)
  <2>1. wk.u \in Updaters
    BY <1>1, <1>12 DEF Updating, WorkerType
  <2>2. QED
    BY <1>12, <2>1, UpdateStepIsStep DEF Updating
<1>13. QED
  BY <1>3, <1>4, <1>5, <1>6, <1>7, <1>8, <1>9, <1>10, <1>11, <1>12 DEF Worker

\* The reconcile loop.
LEMMA ReconcileIsStep == CtlInv /\ Reconcile => Step(ClusterAnnotation) \/ UNCHANGED vars
<1> SUFFICES ASSUME CtlInv, Reconcile PROVE Step(ClusterAnnotation) \/ UNCHANGED vars
  OBVIOUS
<1>1. /\ TypeOK /\ rc \in LoopType /\ cloud \in [Clusters -> Instances]
      /\ rc.copy \in CopyType /\ rc.copy.name \in Clusters /\ rc.copy.obj \in Object
      /\ rc.items \in Seq(CopyType) /\ shared \subseteq Updaters
  BY DEF CtlInv, CtlTypeOK, LoopType, CopyType
<1>2. api[rc.copy.name].obj \in Object
  BY <1>1 DEF TypeOK
<1>3. CASE ReconcileLists \/ ReconcileEnds \/ ReconcileJoins \/ ResetRefetches
  BY <1>3 DEF ReconcileLists, ReconcileEnds, ReconcileJoins, ResetRefetches, store, vars
<1>4. CASE ReconcileAdvances
  <2> DEFINE S == {u \in shared : upd[u].pc \in {"resync", "err"} /\ ~upd[u].own}
  <2>1. Alias(S, Head(rc.items).name) /\ rc.items # <<>>
    BY <1>4 DEF ReconcileAdvances
  <2>2. S \in SUBSET Updaters
    BY <1>1
  <2>3. Head(rc.items).name \in Clusters
    <3>1. Head(rc.items) \in CopyType
      BY <1>1, <2>1
    <3>2. QED
      BY <3>1 DEF CopyType
  <2> HIDE DEF S
  <2>4. QED
    BY <2>1, <2>2, <2>3, ZenonT(60) DEF Step
<1>5. CASE ReconcileValidates
  <2> DEFINE c == rc.copy.name
             next == IF rc.copy.obj["state"] = "provisioning" THEN "joining" ELSE "ready"
  <2>1. PICK r \in ValidateKubeCluster(Class[c], cloud[c], rc.copy.obj) :
          LET ann == IF r.ok THEN Merge(r.ann, Set([state |-> next])) ELSE r.ann
          IN  IF ann = NoChange THEN UNCHANGED store
              ELSE \E u \in Updaters : Begin(u, rc.copy, ann)
    BY <1>5, ZenonT(30) DEF ReconcileValidates
  <2>2. r \in ProviderResult
    BY <1>1, <2>1, ValidateType
  <2>3. Set([state |-> next]) \in ClusterAnnotation
    BY StateValues, SetStateType DEF Settled
  <2>4. r.ann \in ClusterAnnotation /\ Merge(r.ann, Set([state |-> next])) \in ClusterAnnotation
    BY <2>2, <2>3, MergeType DEF ProviderResult
  <2> HIDE DEF next
  <2>5. QED
    BY <1>1, <2>1, <2>4, BeginIsStep, SMTT(30), ZenonT(40) DEF store, vars
<1>6. CASE ReconcileUpdated
  <2>1. rc.u \in Updaters
    BY <1>1, <1>6, ZenonT(60) DEF ReconcileUpdated, CtlInv, OwnInv, LoopType
  <2>2. QED
    BY <1>6, <2>1, OthersAreSteps DEF ReconcileUpdated
<1>7. CASE ReconcilePanics
  BY <1>7, OthersAreSteps, ZenonT(30) DEF ReconcilePanics, Dies
<1>8. CASE ResetDeletes \/ ResetCreates
  BY <1>1, <1>2, <1>8, OthersAreSteps, ZenonT(30) DEF ResetDeletes, ResetCreates, store, vars
<1>9. CASE Updating(rc.u)
  <2>1. rc.u \in Updaters
    BY <1>1, <1>9 DEF Updating, LoopType
  <2>2. QED
    BY <1>9, <2>1, UpdateStepIsStep DEF Updating
<1>10. QED
  BY <1>3, <1>4, <1>5, <1>6, <1>7, <1>8, <1>9 DEF Reconcile

\* The retry handler, the cloud, the users and the end of the process.
LEMMA OtherIsStep ==
  CtlInv /\ (RetryHandler \/ Cloud \/ User \/ Crash)
    => Step(ClusterAnnotation) \/ UNCHANGED vars
<1> SUFFICES ASSUME CtlInv, RetryHandler \/ Cloud \/ User \/ Crash
             PROVE  Step(ClusterAnnotation) \/ UNCHANGED vars
  OBVIOUS
<1>1. TypeOK /\ hd \in Updaters \cup {None}
  BY DEF CtlInv, CtlTypeOK
<1>2. ASSUME NEW u \in Updaters, HandlerRetries(u) \/ HandlerDrops(u)
      PROVE  Step(ClusterAnnotation) \/ UNCHANGED vars
  BY <1>2, OthersAreSteps DEF HandlerRetries, HandlerDrops
<1>3. CASE HandlerFinishes
  BY <1>1, <1>3, OthersAreSteps DEF HandlerFinishes
<1>4. CASE Updating(hd)
  BY <1>1, <1>4, UpdateStepIsStep DEF Updating
<1>5. CASE Cloud
  BY <1>5 DEF Cloud, CloudBuilds, store, vars
<1>6. ASSUME NEW c \in Clusters, NEW obj \in Object, UserWrites(c, obj)
      PROVE  Step(ClusterAnnotation)
  BY <1>6, OthersAreSteps, ZenonT(30) DEF UserWrites
<1>7. ASSUME NEW c \in Clusters, UserAnnotates(c)
      PROVE  Step(ClusterAnnotation)
  <2>1. api[c].obj \in Object
    BY <1>1 DEF TypeOK
  <2>2. [api[c].obj EXCEPT !["note"] = IF @ = Absent THEN "n" ELSE Absent] \in Object
    BY <2>1, ValuesAssumption, ZenonT(30) DEF Object
  <2>3. QED
    BY <1>6, <1>7, <2>2 DEF UserAnnotates
<1>8. ASSUME NEW c \in Clusters, NEW s \in Pending, UserRequests(c, s)
      PROVE  Step(ClusterAnnotation)
  <2>1. api[c].obj \in Object /\ s \in Values
    BY <1>1, StateValues DEF TypeOK
  <2>2. [api[c].obj EXCEPT !["state"] = s] \in Object
    BY <2>1, ZenonT(30) DEF Object
  <2>3. QED
    BY <1>6, <1>8, <2>2 DEF UserRequests
<1>9. CASE Crash
  BY <1>9, OthersAreSteps DEF Crash, Dies
<1>10. QED
  BY <1>2, <1>3, <1>4, <1>5, <1>7, <1>8, <1>9 DEF RetryHandler, User

\* Every step of the controller is a step of ClusterUpdater or leaves it alone.
LEMMA CtlStep == CtlInv /\ [CtlNext]_ctlVars => [Step(ClusterAnnotation)]_vars
<1>1. UNCHANGED ctlVars => UNCHANGED vars
  BY DEF ctlVars, store, vars
<1>2. QED
  BY <1>1, WorkerIsStep, ReconcileIsStep, OtherIsStep DEF CtlNext

-----------------------------------------------------------------------------
(* Every step keeps the types.                                              *)

\* CtlTypeOK without the part of ClusterUpdater.
RestOK ==
  /\ queue \in Seq(Clusters)
  /\ wk \in WorkerType
  /\ rc \in LoopType
  /\ hd \in Updaters \cup {None}
  /\ retrying \subseteq Updaters /\ shared \subseteq Updaters
  /\ secrets \subseteq Clusters
  /\ cloud \in [Clusters -> Instances]
  /\ faults \in 0 .. MaxFaults

\* The instances of one cluster change.
LEMMA CloudType ==
  ASSUME cloud \in [Clusters -> Instances], NEW c \in Clusters, NEW s \in Instances
  PROVE  [cloud EXCEPT ![c] = s] \in [Clusters -> Instances]
OBVIOUS

\* The process ends and starts again.
LEMMA DiesType ==
  ASSUME TypeOK, RestOK, faults' \in 0 .. MaxFaults, Dies
  PROVE  RestOK'
<1> DEFINE S == {c \in Clusters : IsPending(api[c])}
<1>1. queue' \in Orders(S)
  BY DEF Dies
<1>2. queue' \in Seq(Clusters)
  BY <1>1, OrdersType
<1> HIDE DEF S
<1>3. QED
  BY <1>2, IdleTypes DEF Dies, RestOK

\* A goroutine inside update() changes none of the rest but the queue.
LEMMA UpdateStepType ==
  ASSUME RestOK, NEW u, UpdateStep(u)
  PROVE  RestOK'
<1>1. queue' \in Seq(Clusters)
  BY ObserveType, SMTT(30), ZenonT(40) DEF UpdateStep, RestOK
<1>2. faults' \in 0 .. MaxFaults
  BY FaultTypes DEF UpdateStep, RestOK
<1>3. QED
  BY <1>1, <1>2 DEF UpdateStep, RestOK, process

\* An updater is released or goes to the retrier.
LEMMA FinishType ==
  ASSUME retrying \subseteq Updaters, shared \subseteq Updaters, NEW u \in Updaters, Finish(u)
  PROVE  retrying' \subseteq Updaters /\ shared' \subseteq Updaters
BY DEF Finish

\* The worker.
LEMMA WorkerTypeStep == CtlInv /\ Worker => RestOK'
<1> SUFFICES ASSUME CtlInv, Worker PROVE RestOK'
  OBVIOUS
<1>1. /\ TypeOK /\ RestOK
      /\ wk.copy \in CopyType /\ wk.copy.name \in Clusters /\ wk.copy.obj \in Object
  BY DEF CtlInv, CtlTypeOK, RestOK, WorkerType, CopyType
<1>2. wk.pc \in {"mark", "secret", "finish"} => wk.u \in Updaters
  BY <1>1, ZenonT(60) DEF CtlInv, OwnInv, WorkerType, RestOK
<1>3. /\ queue \in Seq(Clusters) /\ wk \in WorkerType /\ rc \in LoopType
      /\ hd \in Updaters \cup {None} /\ retrying \subseteq Updaters
      /\ shared \subseteq Updaters /\ secrets \subseteq Clusters
      /\ cloud \in [Clusters -> Instances] /\ faults \in 0 .. MaxFaults
  BY <1>1 DEF RestOK
<1>4. ASSUME NEW c \in Clusters, Take(c), wk' \in WorkerType, faults' \in 0 .. MaxFaults
      PROVE  RestOK'
  <2>1. queue' \in Seq(Clusters)
    BY <1>3, <1>4 DEF Take
  <2>2. QED
    BY <1>3, <1>4, <2>1 DEF Take, RestOK
<1>5. ASSUME NEW c \in Clusters, WorkerDrops(c)
      PROVE  RestOK'
  <2>1. faults' \in 0 .. MaxFaults
    BY <1>3, <1>5, FaultTypes DEF WorkerDrops
  <2>2. QED
    BY <1>3, <1>4, <1>5, <2>1 DEF WorkerDrops
<1>6. ASSUME NEW c \in Clusters, NEW u \in Updaters \cup {None}
      PROVE  Working("create", c, u) \in WorkerType /\ Working("mark", c, u) \in WorkerType
  <2>1. Copy(c) \in CopyType /\ ep[c] \in Nat
    BY <1>1, CopyTypes DEF CtlInv, HistoryType
  <2>2. QED
    BY <2>1 DEF Working, WorkerType
<1>7. ASSUME NEW c \in Clusters, WorkerTakesCreate(c)
      PROVE  RestOK'
  BY <1>3, <1>4, <1>6, <1>7 DEF WorkerTakesCreate
<1>8. ASSUME NEW c \in Clusters, NEW u \in Updaters, WorkerMarks(c, u)
      PROVE  RestOK'
  BY <1>3, <1>4, <1>6, <1>8 DEF WorkerMarks
<1>9. ASSUME NEW u \in Updaters, WorkerCreates(u)
      PROVE  RestOK'
  <2> DEFINE c == wk.copy.name
  <2>1. PICK r \in CreateKubeCluster(Class[c], cloud[c], wk.copy.obj) :
          /\ cloud' = [cloud EXCEPT ![c] = r.inst]
          /\ Answer(r)
          /\ Begin(u, wk.copy,
                   IF r.ok THEN Merge(r.ann, Set([state |-> "provisioning"]))
                   ELSE Set([state |-> "failed-provision"]))
    BY <1>9, ZenonT(30) DEF WorkerCreates
  <2>2. r.inst \in Instances
    <3>1. cloud[c] \in Instances
      BY <1>1, <1>3
    <3>2. r \in ProviderResult
      BY <1>1, <3>1, CreateType
    <3>3. QED
      BY <3>2, SMTT(30), ZenonT(40) DEF ProviderResult
  <2>3. cloud' \in [Clusters -> Instances] /\ faults' \in 0 .. MaxFaults
    BY <1>3, <2>1, <2>2, CloudType, FaultTypes, ZenonT(40)
  <2>4. wk' \in WorkerType /\ queue' \in Seq(Clusters)
    BY <1>1, <1>3, <1>9, IdleTypes, ObserveType, SMTT(30), ZenonT(40) DEF WorkerCreates
  <2>5. UNCHANGED <<rc, hd, retrying, shared, secrets>>
    BY <1>9, ZenonT(60) DEF WorkerCreates
  <2>6. QED
    BY <1>3, <2>3, <2>4, <2>5, ZenonT(60) DEF RestOK
<1>10. CASE WorkerAborts
  BY <1>1, <1>3, <1>10, IdleTypes, ObserveType, ZenonT(60) DEF WorkerAborts, RestOK
<1>11. CASE WorkerDeletes
  <2> DEFINE c == wk.copy.name
  <2>1. PICK r \in DeleteKubeCluster(Class[c], cloud[c], wk.copy.obj) :
          /\ cloud' = [cloud EXCEPT ![c] = r.inst]
          /\ Answer(r)
          /\ IF r.ok THEN wk' = [wk EXCEPT !.pc = "secret"] /\ UNCHANGED store
             ELSE wk' = IdleWorker /\ Release(wk.u)
    BY <1>11, ZenonT(30) DEF WorkerDeletes
  <2>2. r.inst \in Instances
    <3>1. cloud[c] \in Instances
      BY <1>1, <1>3
    <3>2. r \in ProviderResult
      BY <1>1, <3>1, DeleteType
    <3>3. QED
      BY <3>2 DEF ProviderResult
  <2>3. cloud' \in [Clusters -> Instances] /\ faults' \in 0 .. MaxFaults
    BY <1>3, <2>1, <2>2, CloudType, FaultTypes, ZenonT(40)
  <2>4. [wk EXCEPT !.pc = "secret"] \in WorkerType /\ IdleWorker \in WorkerType
    BY <1>1, <1>3, IdleTypes DEF WorkerType
  <2>5. wk' \in WorkerType /\ queue' \in Seq(Clusters)
    BY <1>3, <1>11, <2>1, <2>4, ObserveType DEF WorkerDeletes
  <2>6. QED
    BY <1>3, <1>11, <2>3, <2>5 DEF WorkerDeletes, RestOK
<1>12. CASE WorkerDeletesSecret
  <2>1. wk' \in WorkerType /\ queue' \in Seq(Clusters)
    BY <1>1, <1>2, <1>3, <1>12, IdleTypes, ObserveType DEF WorkerDeletesSecret
  <2>2. secrets' \subseteq Clusters /\ faults' \in 0 .. MaxFaults
    BY <1>3, <1>12, FaultTypes DEF WorkerDeletesSecret
  <2>3. QED
    BY <1>3, <1>12, <2>1, <2>2 DEF WorkerDeletesSecret, RestOK
<1>13. CASE WorkerScales
  <2> DEFINE c == wk.copy.name
             up == wk.copy.obj["state"] = "pending-up"
             failed == Set([state |-> IF up THEN "failed-up" ELSE "failed-down"])
  <2>1. PICK r \in ScaleKubeCluster(Class[c], cloud[c], wk.copy.obj, up) :
          /\ cloud' = [cloud EXCEPT ![c] = r.inst]
          /\ Answer(r)
          /\ Reuse(wk.u, IF r.ok THEN r.ann ELSE Merge(r.ann, failed))
    BY <1>13, ZenonT(30) DEF WorkerScales
  <2>2. r.inst \in Instances
    <3>1. cloud[c] \in Instances
      BY <1>1, <1>3, SMTT(30), ZenonT(40)
    <3>2. r \in ProviderResult
      BY <1>1, <3>1, ScaleType
    <3>3. QED
      BY <3>2 DEF ProviderResult
  <2>3. cloud' \in [Clusters -> Instances] /\ faults' \in 0 .. MaxFaults
    BY <1>3, <2>1, <2>2, CloudType, FaultTypes, ZenonT(40)
  <2>4. wk' \in WorkerType /\ queue' \in Seq(Clusters)
    BY <1>1, <1>2, <1>3, <1>13, IdleTypes, ObserveType, ZenonT(30) DEF WorkerScales, Marked
  <2>5. QED
    BY <1>3, <1>13, <2>3, <2>4, ZenonT(60) DEF WorkerScales, RestOK
<1>14. CASE WorkerPanics
  <2>1. faults' \in 0 .. MaxFaults
    BY <1>3, <1>14, FaultTypes DEF WorkerPanics
  <2>2. QED
    BY <1>1, <1>14, <2>1, DiesType DEF WorkerPanics
<1>15. CASE WorkerFinishes
  <2>1. wk' \in WorkerType /\ queue' \in Seq(Clusters)
    BY <1>1, <1>3, <1>15, IdleTypes, ObserveType DEF WorkerFinishes
  <2>2. retrying' \subseteq Updaters /\ shared' \subseteq Updaters
    BY <1>2, <1>3, <1>15, FinishType DEF WorkerFinishes
  <2>3. QED
    BY <1>3, <1>15, <2>1, <2>2 DEF WorkerFinishes, RestOK
<1>16. CASE Updating(wk.u)
  BY <1>1, <1>16, UpdateStepType DEF Updating
<1>17. QED
  BY <1>5, <1>7, <1>8, <1>9, <1>10, <1>11, <1>12, <1>13, <1>14, <1>15, <1>16 DEF Worker

\* The reconcile loop.
LEMMA ReconcileTypeStep == CtlInv /\ Reconcile => RestOK'
<1> SUFFICES ASSUME CtlInv, Reconcile PROVE RestOK'
  OBVIOUS
<1>1. TypeOK /\ RestOK
  BY DEF CtlInv, CtlTypeOK, RestOK
<1>2. /\ queue \in Seq(Clusters) /\ wk \in WorkerType /\ rc \in LoopType
      /\ hd \in Updaters \cup {None} /\ retrying \subseteq Updaters
      /\ shared \subseteq Updaters /\ secrets \subseteq Clusters
      /\ cloud \in [Clusters -> Instances] /\ faults \in 0 .. MaxFaults
  BY <1>1 DEF RestOK
<1>3. /\ rc.copy \in CopyType /\ rc.copy.name \in Clusters /\ rc.copy.obj \in Object
      /\ rc.items \in Seq(CopyType) /\ Looping(rc.items) \in LoopType
      /\ rc.tries \in 0 .. MaxRetryCount
  BY <1>1, <1>2, IdleTypes, ZenonT(30) DEF LoopType, CopyType
<1>4. ASSUME Reconciles, rc' \in LoopType, retrying' \subseteq Updaters,
             shared' \subseteq Updaters, secrets' \subseteq Clusters, UNCHANGED cloud,
             faults' \in 0 .. MaxFaults
      PROVE  RestOK'
  BY <1>2, <1>4, ObserveType DEF Reconciles, RestOK
<1>5. ASSUME Resets, rc' \in LoopType, faults' \in 0 .. MaxFaults
      PROVE  RestOK'
  <2>1. queue' \in Seq(Clusters)
    BY <1>2, <1>5, ObserveType DEF Resets
  <2>2. QED
    BY <1>2, <1>5, <2>1 DEF Resets, RestOK
<1>6. CASE ReconcileLists
  <2> DEFINE S == {c \in Clusters : api[c].live}
  <2>1. PICK order \in Orders(S) : rc' = Looping([i \in DOMAIN order |-> Copy(order[i])])
    BY <1>6, ZenonT(30) DEF ReconcileLists
  <2>2. order \in Seq(Clusters)
    BY <2>1, OrdersType
  <2>3. \A i \in DOMAIN order : order[i] \in Clusters
    BY <2>2
  <2>4. \A i \in DOMAIN order : Copy(order[i]) \in CopyType
    BY <1>1, <2>3, CopyTypes
  <2>5. [i \in DOMAIN order |-> Copy(order[i])] \in Seq(CopyType)
    BY <2>2, <2>4
  <2>6. rc' \in LoopType
    BY <1>1, <2>1, <2>5, IdleTypes
  <2>7. QED
    BY <1>2, <1>4, <1>6, <2>6 DEF ReconcileLists
<1>7. CASE ReconcileAdvances
  <2> DEFINE item == Head(rc.items)
             s == item.obj["state"]
             pc == IF s \in InFlight THEN "validate"
                   ELSE IF s = "joining" THEN "join" ELSE "loop"
             copy == IF s \in InFlight \cup {"joining"} THEN item ELSE NoCopy
  <2>1. rc.items # <<>> /\ rc' = [Looping(Tail(rc.items)) EXCEPT !.pc = pc, !.copy = copy]
    BY <1>7 DEF ReconcileAdvances
  <2>2. item \in CopyType /\ Tail(rc.items) \in Seq(CopyType)
    BY <1>3, <2>1
  <2>3. copy \in CopyType /\ pc \in {"validate", "join", "loop"}
    BY <1>1, <2>2, CopyTypes
  <2>4. Looping(Tail(rc.items)) \in LoopType
    BY <1>1, <2>2, IdleTypes, ZenonT(30)
  <2> HIDE DEF copy, pc
  <2>5. rc' \in LoopType
    BY <2>1, <2>3, <2>4, ZenonT(40) DEF LoopType
  <2>6. QED
    BY <1>2, <1>4, <1>7, <2>5 DEF ReconcileAdvances
<1>8. CASE ReconcileEnds
  BY <1>1, <1>2, <1>4, <1>8, IdleTypes DEF ReconcileEnds
<1>9. CASE ReconcileValidates
  <2>1. ASSUME NEW u \in Updaters
        PROVE  [Looping(rc.items) EXCEPT !.pc = "update", !.u = u] \in LoopType
    <3>1. \A r \in LoopType : [r EXCEPT !.pc = "update", !.u = u] \in LoopType
      BY <2>1, ZenonT(40) DEF LoopType
    <3>2. QED
      BY <1>3, <3>1, ZenonT(30)
  <2>2. rc' \in LoopType /\ shared' \subseteq Updaters
    <3>1. \/ rc' = Looping(rc.items) /\ UNCHANGED shared
          \/ \E u \in Updaters :
               /\ rc' = [Looping(rc.items) EXCEPT !.pc = "update", !.u = u]
               /\ shared' = shared \cup {u}
      BY <1>9, ZenonT(30) DEF ReconcileValidates
    <3>2. QED
      BY <1>2, <1>3, <2>1, <3>1, ZenonT(30)
  <2>3. faults' \in 0 .. MaxFaults
    BY <1>2, <1>9, FaultTypes, ZenonT(30) DEF ReconcileValidates
  <2>4. Reconciles /\ UNCHANGED <<retrying, secrets, cloud>>
    BY <1>9, ZenonT(30) DEF ReconcileValidates
  <2>5. QED
    BY <1>2, <1>4, <2>2, <2>3, <2>4
<1>10. CASE ReconcileUpdated
  <2>1. rc.u \in Updaters
    BY <1>2, <1>10 DEF ReconcileUpdated, CtlInv, OwnInv, LoopType
  <2>2. retrying' \subseteq Updaters /\ shared' \subseteq Updaters
    BY <1>2, <1>10, <2>1, FinishType DEF ReconcileUpdated
  <2>3. QED
    BY <1>2, <1>3, <1>4, <1>10, <2>2 DEF ReconcileUpdated
<1>11. CASE ReconcileJoins
  <2> DEFINE copy == [rc.copy EXCEPT !.obj = ApplyAnnotation(@, Set([state |-> "ready"]))]
             joined == [Looping(rc.items) EXCEPT !.pc = "delete", !.copy = copy]
  <2>1. Set([state |-> "ready"]) \in ClusterAnnotation
    BY SetStateType, StateValues DEF Settled
  <2>2. ApplyAnnotation(rc.copy.obj, Set([state |-> "ready"])) \in Object
    BY <1>3, <2>1, ApplyAnnotationType
  <2>3. copy \in CopyType
    BY <1>3, <2>2 DEF CopyType
  <2>4. joined \in LoopType
    BY <1>3, <2>3, ZenonT(30) DEF LoopType
  <2>5. rc' \in {Looping(rc.items), joined}
    BY <1>11 DEF ReconcileJoins
  <2>6. rc' \in LoopType
    BY <1>3, <2>4, <2>5
  <2>7. secrets' \subseteq Clusters
    BY <1>2, <1>3, <1>11 DEF ReconcileJoins
  <2>8. faults' \in 0 .. MaxFaults
    BY <1>2, <1>11, FaultTypes DEF ReconcileJoins
  <2>9. Reconciles /\ UNCHANGED <<retrying, shared, cloud>>
    BY <1>11 DEF ReconcileJoins
  <2>10. QED
    BY <1>2, <1>4, <2>6, <2>7, <2>8, <2>9
<1>12. CASE ReconcilePanics
  <2>1. faults' \in 0 .. MaxFaults
    BY <1>2, <1>12, FaultTypes DEF ReconcilePanics
  <2>2. QED
    BY <1>1, <1>12, <2>1, DiesType DEF ReconcilePanics
<1>13. CASE ResetDeletes
  <2>1. rc.tries + 1 \in 0 .. MaxRetryCount /\ 0 \in 0 .. MaxRetryCount
    BY <1>3, <1>13, MaxRetryCountAssumption DEF ResetDeletes, CtlInv, TriesInv
  <2>2. /\ [rc EXCEPT !.pc = "create", !.tries = 0] \in LoopType
        /\ [rc EXCEPT !.pc = "refetch", !.tries = rc.tries + 1] \in LoopType
    BY <1>2, <2>1, ZenonT(30) DEF LoopType
  <2>3. rc' \in LoopType
    BY <1>13, <2>2, ZenonT(30) DEF ResetDeletes
  <2>4. faults' \in 0 .. MaxFaults
    BY <1>2, <1>13, FaultTypes, ZenonT(30) DEF ResetDeletes
  <2>5. QED
    BY <1>5, <1>13, <2>3, <2>4 DEF ResetDeletes
<1>14. CASE ResetRefetches
  <2>1. Copy(rc.copy.name) \in CopyType
    BY <1>1, <1>3, CopyTypes
  <2>2. [rc EXCEPT !.pc = "delete", !.copy = Copy(rc.copy.name)] \in LoopType
    BY <1>2, <2>1, ZenonT(30) DEF LoopType
  <2>3. rc' \in LoopType
    BY <1>3, <1>14, <2>2 DEF ResetRefetches
  <2>4. faults' \in 0 .. MaxFaults
    BY <1>2, <1>14, FaultTypes DEF ResetRefetches
  <2>5. QED
    BY <1>5, <1>14, <2>3, <2>4 DEF ResetRefetches
<1>15. CASE ResetCreates
  <2>1. rc.tries + 1 < MaxRetryCount => [rc EXCEPT !.tries = rc.tries + 1] \in LoopType
    <3>1. rc.tries + 1 < MaxRetryCount => rc.tries + 1 \in 0 .. MaxRetryCount
      BY <1>3, MaxRetryCountAssumption
    <3>2. rc.tries + 1 \in 0 .. MaxRetryCount
            => [rc EXCEPT !.tries = rc.tries + 1] \in LoopType
      BY <1>2 DEF LoopType
    <3>3. QED
      BY <3>1, <3>2
  <2>2. rc' \in LoopType
    BY <1>3, <1>15, <2>1, ZenonT(30) DEF ResetCreates
  <2>3. faults' \in 0 .. MaxFaults
    BY <1>2, <1>15, FaultTypes, ZenonT(30) DEF ResetCreates
  <2>4. QED
    BY <1>5, <1>15, <2>2, <2>3 DEF ResetCreates
<1>16. CASE Updating(rc.u)
  BY <1>1, <1>16, UpdateStepType DEF Updating
<1>17. QED
  BY <1>6, <1>7, <1>8, <1>9, <1>10, <1>11, <1>12, <1>13, <1>14, <1>15, <1>16 DEF Reconcile

\* The retry handler, the cloud, the users and the end of the process.
LEMMA OtherTypeStep == CtlInv /\ (RetryHandler \/ Cloud \/ User \/ Crash) => RestOK'
<1> SUFFICES ASSUME CtlInv, RetryHandler \/ Cloud \/ User \/ Crash PROVE RestOK'
  OBVIOUS
<1>1. TypeOK /\ RestOK
  BY DEF CtlInv, CtlTypeOK, RestOK
<1>2. /\ queue \in Seq(Clusters) /\ wk \in WorkerType /\ rc \in LoopType
      /\ hd \in Updaters \cup {None} /\ retrying \subseteq Updaters
      /\ shared \subseteq Updaters /\ secrets \subseteq Clusters
      /\ cloud \in [Clusters -> Instances] /\ faults \in 0 .. MaxFaults
  BY <1>1 DEF RestOK
<1>3. ASSUME NEW u \in Updaters, HandlerRetries(u)
      PROVE  RestOK'
  BY <1>2, <1>3, ObserveType DEF HandlerRetries, RestOK
<1>4. ASSUME NEW u \in Updaters, HandlerDrops(u)
      PROVE  RestOK'
  BY <1>2, <1>4, ObserveType, FaultTypes DEF HandlerDrops, RestOK
<1>5. CASE HandlerFinishes
  <2>1. retrying' \subseteq Updaters /\ shared' \subseteq Updaters
    BY <1>2, <1>5, FinishType DEF HandlerFinishes
  <2>2. QED
    BY <1>2, <1>5, <2>1, ObserveType DEF HandlerFinishes, RestOK
<1>6. CASE Updating(hd)
  BY <1>1, <1>6, UpdateStepType DEF Updating
<1>7. ASSUME NEW c \in Clusters, NEW i \in Ids, CloudBuilds(c, i)
      PROVE  RestOK'
  <2>1. /\ [cloud EXCEPT ![c][i] = "running"] \in [Clusters -> Instances]
        /\ [cloud EXCEPT ![c][i] = "failed"] \in [Clusters -> Instances]
    BY <1>2 DEF Instances, Status
  <2>2. cloud' \in [Clusters -> Instances]
    BY <1>7, <2>1, ZenonT(40) DEF CloudBuilds
  <2>3. faults' \in 0 .. MaxFaults
    BY <1>2, <1>7, FaultTypes DEF CloudBuilds
  <2>4. QED
    BY <1>2, <1>7, <2>2, <2>3, ObserveType DEF CloudBuilds, RestOK, process
<1>8. ASSUME NEW c \in Clusters, NEW obj, UserWrites(c, obj)
      PROVE  RestOK'
  <2>1. queue' \in Seq(Clusters)
    BY <1>2, <1>8, ObserveType DEF UserWrites
  <2>2. QED
    BY <1>2, <1>8, <2>1 DEF UserWrites, RestOK, process
<1>9. CASE User
  BY <1>8, <1>9, ZenonT(30) DEF User, UserAnnotates, UserRequests
<1>10. CASE Crash
  <2>1. faults' \in 0 .. MaxFaults
    BY <1>2, <1>10, FaultTypes DEF Crash
  <2>2. QED
    BY <1>1, <1>10, <2>1, DiesType DEF Crash
<1>11. QED
  BY <1>3, <1>4, <1>5, <1>6, <1>7, <1>9, <1>10 DEF RetryHandler, Cloud

\* All steps keep the types and the invariant of ClusterUpdater.
LEMMA CtlTypeStep == CtlInv /\ [CtlNext]_ctlVars => CtlTypeOK' /\ CopyInv'
<1> SUFFICES ASSUME CtlInv, [CtlNext]_ctlVars PROVE CtlTypeOK' /\ CopyInv'
  OBVIOUS
<1>1. TypeOK' /\ CopyInv'
  BY CtlStep, NextType, NextInv DEF CtlInv, CtlTypeOK
<1>2. RestOK'
  <2>1. CASE UNCHANGED ctlVars
    BY <2>1 DEF CtlInv, CtlTypeOK, RestOK, ctlVars, process
  <2>2. QED
    BY <2>1, WorkerTypeStep, ReconcileTypeStep, OtherTypeStep DEF CtlNext
<1>3. QED
  BY <1>1, <1>2 DEF CtlTypeOK, RestOK

\* The bound on the attempts to delete.
LEMMA TriesStep == CtlInv /\ [CtlNext]_ctlVars => TriesInv'
<1> SUFFICES ASSUME CtlInv, [CtlNext]_ctlVars PROVE TriesInv'
  OBVIOUS
<1>1. TriesInv /\ rc \in LoopType
  BY DEF CtlInv, CtlTypeOK
<1>2. CASE UNCHANGED rc
  BY <1>1, <1>2 DEF TriesInv
<1>3. IdleLoop.pc # "delete" /\ \A items : Looping(items).pc # "delete"
  BY DEF IdleLoop, Looping
<1>4. CASE Dies
  BY <1>3, <1>4 DEF Dies, TriesInv
<1>5. CASE Worker \/ RetryHandler \/ Cloud \/ User \/ Crash
  <2>1. UNCHANGED rc \/ Dies
    BY <1>5, ZenonT(30)
       DEF Worker, Take, WorkerDrops, WorkerTakesCreate, WorkerMarks, WorkerAborts,
       WorkerCreates, WorkerDeletes, WorkerDeletesSecret, WorkerScales, WorkerPanics,
       WorkerFinishes, Updating, UpdateStep, process, RetryHandler, HandlerRetries,
       HandlerDrops, HandlerFinishes, Cloud, CloudBuilds, User, UserAnnotates,
       UserRequests, UserWrites, Crash
  <2>2. QED
    BY <1>2, <1>4, <2>1
<1>6. CASE ReconcileLists \/ ReconcileEnds \/ ReconcileUpdated
  BY <1>3, <1>6, ZenonT(30) DEF ReconcileLists, ReconcileEnds, ReconcileUpdated, TriesInv
<1>7. CASE ReconcileAdvances
  <2>1. rc'.pc \in {"validate", "join", "loop"}
    BY <1>7 DEF ReconcileAdvances, Looping, IdleLoop
  <2>2. QED
    BY <2>1 DEF TriesInv
<1>8. CASE ReconcileValidates
  <2>1. rc'.pc \in {"loop", "update"}
    BY <1>8, ZenonT(30) DEF ReconcileValidates, Looping, IdleLoop
  <2>2. QED
    BY <2>1 DEF TriesInv
<1>9. CASE ReconcileJoins
  <2>1. rc'.tries = 0
    BY <1>9, ZenonT(30) DEF ReconcileJoins, Looping, IdleLoop
  <2>2. QED
    BY <2>1, MaxRetryCountAssumption DEF TriesInv
<1>10. CASE ReconcilePanics
  BY <1>4, <1>10 DEF ReconcilePanics
<1>11. CASE ResetDeletes
  <2>1. \/ rc' = [rc EXCEPT !.pc = "create", !.tries = 0]
        \/ rc' = [rc EXCEPT !.pc = "refetch", !.tries = rc.tries + 1]
    BY <1>11, ZenonT(30) DEF ResetDeletes
  <2>2. rc'.pc \in {"create", "refetch"}
    BY <1>1, <2>1, ZenonT(30) DEF LoopType
  <2>3. QED
    BY <2>2 DEF TriesInv
<1>12. CASE ResetRefetches
  BY <1>1, <1>3, <1>12, ZenonT(30) DEF ResetRefetches, TriesInv, LoopType
<1>13. CASE ResetCreates
  <2>1. \/ rc' = Looping(rc.items)
        \/ rc' = [rc EXCEPT !.tries = rc.tries + 1] /\ rc.pc = "create"
    BY <1>13, ZenonT(30) DEF ResetCreates
  <2>2. [rc EXCEPT !.tries = rc.tries + 1].pc = rc.pc
    BY <1>1 DEF LoopType
  <2>3. rc'.pc # "delete"
    BY <1>3, <2>1, <2>2, ZenonT(40)
  <2>4. QED
    BY <2>3 DEF TriesInv
<1>14. CASE Updating(rc.u)
  BY <1>2, <1>14, ZenonT(30) DEF Updating, UpdateStep, process
<1>15. QED
  BY <1>2, <1>5, <1>6, <1>7, <1>8, <1>9, <1>10, <1>11, <1>12, <1>13, <1>14
     DEF CtlNext, Reconcile, ctlVars, process

-----------------------------------------------------------------------------
(* What the ways into and out of update() do.                               *)

\* A step of update() moves an updater inside it, and no other.
LEMMA UpdateStepFacts ==
  ASSUME TypeOK, NEW u \in Updaters, UpdateStep(u)
  PROVE  /\ upd[u].pc \in {"resync", "write"}
         /\ upd'[u].pc \in {"resync", "write", "ok", "err"}
         /\ upd'[u].ann = upd[u].ann /\ upd'[u].target = upd[u].target
         /\ \A v \in Updaters \ {u} : upd'[v] = upd[v]
<1>1. CASE Resync(u)
  BY <1>1 DEF Resync, TypeOK, Updater
<1>2. CASE ResyncFails(u) \/ WriteFails(u) \/ WriteUnacknowledged(u)
  <2>1. upd' = [upd EXCEPT ![u] = Failed(upd[u])] /\ upd[u].pc \in {"resync", "write"}
    BY <1>2, ZenonT(30) DEF ResyncFails, WriteFails, WriteUnacknowledged
  <2>2. /\ Failed(upd[u]).pc = "err" /\ Failed(upd[u]).ann = upd[u].ann
        /\ Failed(upd[u]).target = upd[u].target
    BY DEF Failed, TypeOK, Updater
  <2>3. QED
    BY <2>1, <2>2 DEF TypeOK
<1>3. CASE Write(u)
  BY <1>3 DEF Write, TypeOK, Updater
<1>4. CASE Conflict(u)
  BY <1>4 DEF Conflict, TypeOK, Updater
<1>5. QED
  BY <1>1, <1>2, <1>3, <1>4, ZenonT(30) DEF UpdateStep

\* An updater that starts was free and is inside update() or through it.
LEMMA BeginFacts ==
  ASSUME TypeOK, NEW u \in Updaters, NEW copy \in CopyType, NEW ann \in ClusterAnnotation,
         Begin(u, copy, ann)
  PROVE  /\ upd[u].pc = "free"
         /\ upd'[u] = Entered([New(copy.name) EXCEPT !.rv = copy.rv, !.obj = copy.obj,
                                                     !.ann = ann])
         /\ upd'[u].pc \in {"ok", "resync", "write"}
         /\ \A v \in Updaters \ {u} : upd'[v] = upd[v]
         /\ UNCHANGED api
<1> DEFINE r == [New(copy.name) EXCEPT !.rv = copy.rv, !.obj = copy.obj, !.ann = ann]
<1>1. copy.name \in Clusters /\ copy.rv \in Nat /\ copy.obj \in Object
  BY DEF CopyType
<1>2. r \in Updater
  <2>1. New(copy.name) \in Updater
    BY <1>1, NewType
  <2>2. QED
    BY <1>1, <2>1, ZenonT(30) DEF Updater
<1>3. upd[u].pc = "free" /\ upd' = [upd EXCEPT ![u] = Entered(r)] /\ UNCHANGED api
  BY DEF Begin, Start
<1> HIDE DEF r
<1>4. Entered(r).pc \in {"ok", "resync", "write"}
  BY <1>2, EnteredFacts, SMTT(30), ZenonT(40)
<1>5. upd'[u] = Entered(r) /\ \A v \in Updaters \ {u} : upd'[v] = upd[v]
  BY <1>3 DEF TypeOK
<1>6. QED
  BY <1>3, <1>4, <1>5 DEF r

\* An updater is entered again.
LEMMA AgainFacts ==
  ASSUME TypeOK, NEW u \in Updaters, NEW ann \in ClusterAnnotation, Reuse(u, ann) \/ Retry(u)
  PROVE  /\ upd[u].pc \in {"ok", "err"}
         /\ upd'[u].pc \in {"ok", "resync", "write"}
         /\ \A v \in Updaters \ {u} : upd'[v] = upd[v]
         /\ UNCHANGED api
<1>1. CASE Retry(u)
  <2>1. Entered(upd[u]).pc \in {"ok", "resync", "write"}
    BY EnteredFacts, ZenonT(30) DEF TypeOK
  <2>2. QED
    BY <1>1, <2>1 DEF Retry, TypeOK
<1>2. CASE Reuse(u, ann)
  <2> DEFINE r == [upd[u] EXCEPT !.ann = ann, !.needsResync = FALSE]
  <2>1. r \in Updater
    BY ZenonT(40) DEF TypeOK, Updater
  <2>2. upd[u].pc = "ok" /\ upd' = [upd EXCEPT ![u] = Entered(r)] /\ UNCHANGED api
    BY <1>2 DEF Reuse
  <2> HIDE DEF r
  <2>3. Entered(r).pc \in {"ok", "resync", "write"}
    BY <2>1, EnteredFacts
  <2>4. upd'[u] = Entered(r) /\ \A v \in Updaters \ {u} : upd'[v] = upd[v]
    BY <2>2 DEF TypeOK
  <2>5. QED
    BY <2>2, <2>3, <2>4
<1>3. QED
  BY <1>1, <1>2

\* An updater is released.
LEMMA ReleaseFacts ==
  ASSUME TypeOK, NEW u \in Updaters, Release(u)
  PROVE  /\ upd[u].pc \in {"ok", "err"}
         /\ upd'[u].pc = "free"
         /\ \A v \in Updaters \ {u} : upd'[v] = upd[v]
         /\ UNCHANGED api
BY SMTT(30), ZenonT(40) DEF Release, NoUpdater, New, TypeOK

-----------------------------------------------------------------------------
(* Every step leaves each updater in use with one owner.                     *)

\* The process ends: nobody has an updater.
LEMMA DiesOwn ==
  ASSUME Dies
  PROVE  OwnInv'
<1>1. \A u \in Updaters : upd'[u].pc = "free"
  BY DEF Dies, Restart, NoUpdater, New
<1>2. /\ wk'.u = None /\ wk'.pc = "idle" /\ rc'.u = None /\ rc'.pc = "idle" /\ hd' = None
      /\ retrying' = {} /\ shared' = {}
  BY DEF Dies, IdleWorker, IdleLoop
<1>3. None \notin Updaters
  BY UpdatersAssumption DEF None
<1>4. QED
  BY <1>1, <1>2, <1>3 DEF OwnInv

\* A step of update() by the owner of the updater.
LEMMA UpdateStepOwn ==
  ASSUME CtlInv, NEW u \in Updaters, u \in {wk.u, rc.u, hd}, UpdateStep(u)
  PROVE  OwnInv'
<1>1. TypeOK
  BY DEF CtlInv, CtlTypeOK
<1>2. /\ upd[u].pc \in {"resync", "write"}
      /\ upd'[u].pc \in {"resync", "write", "ok", "err"}
      /\ \A v \in Updaters \ {u} : upd'[v] = upd[v]
  BY <1>1, UpdateStepFacts
<1>3. UNCHANGED <<wk, rc, hd, retrying, shared>>
  BY DEF UpdateStep, process
<1>4. wk.u \in Updaters \cup {None} /\ retrying \subseteq Updaters
  BY DEF CtlInv, CtlTypeOK, WorkerType
<1>5. None \notin Updaters
  BY UpdatersAssumption DEF None
<1>6. QED
  BY <1>2, <1>3, <1>4, <1>5, ZenonT(60) DEF CtlInv, OwnInv

\* The worker.
LEMMA WorkerOwn == CtlInv /\ Worker => OwnInv'
<1> SUFFICES ASSUME CtlInv, Worker PROVE OwnInv'
  OBVIOUS
<1>1. /\ TypeOK /\ OwnInv /\ wk \in WorkerType /\ cloud \in [Clusters -> Instances]
      /\ wk.copy \in CopyType /\ wk.copy.name \in Clusters /\ wk.copy.obj \in Object
      /\ wk.u \in Updaters \cup {None} /\ rc.u \in Updaters \cup {None}
      /\ hd \in Updaters \cup {None} /\ retrying \subseteq Updaters
  BY DEF CtlInv, CtlTypeOK, WorkerType, LoopType, CopyType
<1>2. None \notin Updaters
  BY UpdatersAssumption DEF None
<1>3. IdleWorker.u = None /\ IdleWorker.pc = "idle"
  BY DEF IdleWorker
<1>4. \A u : Finishing(u).u = u /\ Finishing(u).pc = "finish"
  BY DEF Finishing, IdleWorker
<1>5. ASSUME NEW c \in Clusters, WorkerDrops(c)
      PROVE  OwnInv'
  BY <1>1, <1>5, ZenonT(60) DEF WorkerDrops, Take, OwnInv, store
<1>6. ASSUME NEW c \in Clusters, WorkerTakesCreate(c)
      PROVE  OwnInv'
  <2>1. wk'.u = None /\ wk'.pc = "create" /\ wk.u = None
    BY <1>1, <1>6, ZenonT(60) DEF WorkerTakesCreate, Take, Working, OwnInv
  <2>2. UNCHANGED <<upd, rc, hd, retrying, shared>>
    BY <1>6 DEF WorkerTakesCreate, Take, store
  <2>3. QED
    BY <1>1, <2>1, <2>2, ZenonT(60) DEF OwnInv
<1>7. ASSUME NEW u \in Updaters, upd[u].pc = "free", upd'[u].pc # "free",
             \A v \in Updaters \ {u} : upd'[v] = upd[v], wk.u = None,
             wk'.u = u, wk'.pc \in {"mark", "finish"},
             UNCHANGED <<rc, hd, retrying, shared>>
      PROVE  OwnInv'
  <2>1. u \notin {wk.u, rc.u, hd} \cup retrying
    BY <1>1, <1>7, ZenonT(60) DEF OwnInv
  <2>2. ASSUME NEW v \in Updaters
        PROVE  upd'[v].pc # "free" <=> v \in {wk'.u, rc'.u, hd'} \cup retrying'
    <3>1. CASE v = u
      BY <1>7, <3>1, ZenonT(60)
    <3>2. CASE v # u
      BY <1>1, <1>2, <1>7, <3>2, ZenonT(60) DEF OwnInv
    <3>3. QED
      BY <3>1, <3>2, ZenonT(60)
  <2>3. \A v \in retrying' : upd'[v].pc = "err"
    BY <1>1, <1>7, <2>1, ZenonT(60) DEF OwnInv
  <2>4. QED
    BY <1>1, <1>2, <1>7, <2>1, <2>2, <2>3, ZenonT(60) DEF OwnInv
<1>8. ASSUME NEW c \in Clusters, NEW u \in Updaters, WorkerMarks(c, u)
      PROVE  OwnInv'
  <2>1. Set([state |-> Marks[State(c)]]) \in ClusterAnnotation
    BY <1>8, StateValues, SetStateType DEF WorkerMarks
  <2>2. Copy(c) \in CopyType
    BY <1>1, CopyTypes
  <2>3. /\ upd[u].pc = "free" /\ upd'[u].pc # "free"
        /\ \A v \in Updaters \ {u} : upd'[v] = upd[v]
    BY <1>1, <1>8, <2>1, <2>2, BeginFacts, ZenonT(30) DEF WorkerMarks
  <2>4. wk'.u = u /\ wk'.pc = "mark" /\ wk.u = None /\ UNCHANGED <<rc, hd, retrying, shared>>
    BY <1>1, <1>8, ZenonT(60) DEF WorkerMarks, Take, Working, OwnInv
  <2>5. QED
    BY <1>7, <2>3, <2>4
<1>9. ASSUME NEW u \in Updaters, WorkerCreates(u)
      PROVE  OwnInv'
  <2> DEFINE c == wk.copy.name
             fine(r) == Merge(r.ann, Set([state |-> "provisioning"]))
             failed == Set([state |-> "failed-provision"])
  <2>1. PICK r \in CreateKubeCluster(Class[c], cloud[c], wk.copy.obj) :
          Begin(u, wk.copy, IF r.ok THEN fine(r) ELSE failed)
    BY <1>9, ZenonT(60) DEF WorkerCreates
  <2>2. r \in ProviderResult
    BY <1>1, <2>1, CreateType, ZenonT(60)
  <2>3. Set([state |-> "provisioning"]) \in ClusterAnnotation /\ failed \in ClusterAnnotation
    BY StateValues, SetStateType DEF InFlight, Settled
  <2>4. fine(r) \in ClusterAnnotation
    BY <2>2, <2>3, MergeType DEF ProviderResult
  <2> HIDE DEF fine, failed
  <2>5. /\ upd[u].pc = "free" /\ upd'[u].pc # "free"
        /\ \A v \in Updaters \ {u} : upd'[v] = upd[v]
    BY <1>1, <2>1, <2>3, <2>4, BeginFacts, ZenonT(30)
  <2>6. wk.u = None /\ wk'.u = u /\ wk'.pc = "finish" /\ UNCHANGED <<rc, hd, retrying, shared>>
    BY <1>1, <1>4, <1>9, ZenonT(60) DEF WorkerCreates, OwnInv
  <2>7. QED
    BY <1>7, <2>5, <2>6, ZenonT(60)
<1>10. ASSUME wk.u \in Updaters, Release(wk.u), wk' = IdleWorker,
              UNCHANGED <<rc, hd, retrying, shared>>
       PROVE  OwnInv'
  <2>1. /\ upd'[wk.u].pc = "free"
        /\ \A v \in Updaters \ {wk.u} : upd'[v] = upd[v]
    BY <1>1, <1>10, ReleaseFacts, ZenonT(60)
  <2>2. wk'.u = None /\ wk'.pc = "idle"
    BY <1>3, <1>10
  <2>3. wk.u \notin {rc.u, hd} \cup retrying
    BY <1>1, <1>2, <1>10, ZenonT(60) DEF OwnInv
  <2>4. ASSUME NEW v \in Updaters
        PROVE  upd'[v].pc # "free" <=> v \in {wk'.u, rc'.u, hd'} \cup retrying'
    <3>1. CASE v = wk.u
      BY <1>2, <1>10, <2>1, <2>2, <2>3, <3>1, ZenonT(60)
    <3>2. CASE v # wk.u
      BY <1>1, <1>2, <1>10, <2>1, <2>2, <3>2, ZenonT(60) DEF OwnInv
    <3>3. QED
      BY <3>1, <3>2, ZenonT(60)
  <2>5. \A v \in retrying' : upd'[v].pc = "err"
    BY <1>1, <1>10, <2>1, <2>3, ZenonT(60) DEF OwnInv
  <2>6. QED
    BY <1>1, <1>10, <2>2, <2>4, <2>5, ZenonT(60) DEF OwnInv
<1>11. CASE WorkerAborts
  BY <1>1, <1>10, <1>11, ZenonT(60) DEF WorkerAborts, OwnInv
<1>12. CASE WorkerDeletes
  <2>1. wk.u \in Updaters /\ upd[wk.u].pc = "ok" /\ UNCHANGED <<rc, hd, retrying, shared>>
    BY <1>1, <1>12 DEF WorkerDeletes, Marked, OwnInv
  <2>2. CASE wk' = [wk EXCEPT !.pc = "secret"] /\ UNCHANGED store
    <3>1. wk'.u = wk.u /\ wk'.pc = "secret" /\ UNCHANGED upd
      BY <1>1, <2>2 DEF WorkerType, store
    <3>2. QED
      BY <1>1, <1>2, <2>1, <3>1, ZenonT(60) DEF OwnInv
  <2>3. CASE wk' = IdleWorker /\ Release(wk.u)
    BY <1>10, <2>1, <2>3, ZenonT(60)
  <2>4. QED
    BY <1>12, <2>2, <2>3 DEF WorkerDeletes
<1>13. ASSUME wk.u \in Updaters, NEW ann \in ClusterAnnotation, Reuse(wk.u, ann),
              wk' = Finishing(wk.u), UNCHANGED <<rc, hd, retrying, shared>>
       PROVE  OwnInv'
  <2>1. upd'[wk.u].pc # "free" /\ \A v \in Updaters \ {wk.u} : upd'[v] = upd[v]
    BY <1>1, <1>13, AgainFacts, ZenonT(60)
  <2>2. wk'.u = wk.u /\ wk'.pc = "finish"
    BY <1>4, <1>13, ZenonT(60)
  <2>3. QED
    BY <1>1, <1>2, <1>13, <2>1, <2>2, ZenonT(60) DEF OwnInv
<1>14. CASE WorkerDeletesSecret
  BY <1>1, <1>13, <1>14, OfflineType, SMTT(30), ZenonT(40) DEF WorkerDeletesSecret, OwnInv
<1>15. CASE WorkerScales
  <2> DEFINE c == wk.copy.name
             up == wk.copy.obj["state"] = "pending-up"
             failed == Set([state |-> IF up THEN "failed-up" ELSE "failed-down"])
  <2>1. PICK r \in ScaleKubeCluster(Class[c], cloud[c], wk.copy.obj, up) :
          Reuse(wk.u, IF r.ok THEN r.ann ELSE Merge(r.ann, failed))
    BY <1>15, ZenonT(60) DEF WorkerScales
  <2>2. r \in ProviderResult
    BY <1>1, <2>1, ScaleType, ZenonT(60)
  <2>3. failed \in ClusterAnnotation
    BY StateValues, SetStateType DEF Settled
  <2>4. r.ann \in ClusterAnnotation /\ Merge(r.ann, failed) \in ClusterAnnotation
    BY <2>2, <2>3, MergeType DEF ProviderResult
  <2>5. wk.u \in Updaters /\ wk' = Finishing(wk.u) /\ UNCHANGED <<rc, hd, retrying, shared>>
    BY <1>1, <1>15, ZenonT(60) DEF WorkerScales, Marked, OwnInv
  <2> HIDE DEF failed
  <2>6. QED
    BY <1>13, <2>1, <2>4, <2>5, ZenonT(60)
<1>16. CASE WorkerPanics
  BY <1>16, DiesOwn, ZenonT(60) DEF WorkerPanics
<1>17. CASE WorkerFinishes
  <2>1. wk.u \in Updaters /\ wk' = IdleWorker /\ UNCHANGED <<rc, hd>>
    BY <1>1, <1>17, ZenonT(60) DEF WorkerFinishes, OwnInv
  <2>2. wk.u \notin shared
    BY <1>1, <1>2, <2>1 DEF OwnInv
  <2>3. CASE Release(wk.u) /\ shared' = shared \ {wk.u} /\ UNCHANGED retrying
    BY <1>10, <2>1, <2>2, <2>3
  <2>4. CASE /\ upd[wk.u].pc = "err" /\ UNCHANGED store
             /\ retrying' = retrying \cup {wk.u} /\ UNCHANGED shared
    <3>1. wk'.u = None /\ wk'.pc = "idle" /\ UNCHANGED upd
      BY <1>3, <2>1, <2>4 DEF store
    <3>2. QED
      BY <1>1, <1>2, <2>1, <2>4, <3>1 DEF OwnInv
  <2>5. QED
    BY <1>17, <2>3, <2>4, ZenonT(60) DEF WorkerFinishes, Finish
<1>18. CASE Updating(wk.u)
  BY <1>1, <1>18, UpdateStepOwn DEF Updating
<1>19. QED
  BY <1>5, <1>6, <1>8, <1>9, <1>11, <1>12, <1>14, <1>15, <1>16, <1>17, <1>18 DEF Worker

\* The reconcile loop.
LEMMA ReconcileOwn == CtlInv /\ Reconcile => OwnInv'
<1> SUFFICES ASSUME CtlInv, Reconcile PROVE OwnInv'
  OBVIOUS
<1>1. /\ TypeOK /\ OwnInv /\ rc \in LoopType /\ cloud \in [Clusters -> Instances]
      /\ rc.copy \in CopyType /\ rc.copy.name \in Clusters /\ rc.copy.obj \in Object
      /\ wk.u \in Updaters \cup {None} /\ rc.u \in Updaters \cup {None}
      /\ hd \in Updaters \cup {None} /\ retrying \subseteq Updaters
      /\ shared \subseteq Updaters
  BY ZenonT(60) DEF CtlInv, CtlTypeOK, WorkerType, LoopType, CopyType
<1>2. None \notin Updaters
  BY UpdatersAssumption DEF None
<1>3. /\ IdleLoop.u = None /\ IdleLoop.pc = "idle"
      /\ \A items : Looping(items).u = None /\ Looping(items).pc = "loop"
  BY DEF IdleLoop, Looping
<1>4. ASSUME rc.u = None, rc'.u = None, rc'.pc # "update",
             \A u \in Updaters : upd'[u].pc = upd[u].pc,
             UNCHANGED <<wk, hd, retrying>>, shared' \subseteq shared
      PROVE  OwnInv'
  BY <1>1, <1>2, <1>4, ZenonT(60) DEF OwnInv
<1>5. CASE ReconcileLists \/ ReconcileEnds
  <2>1. rc.u = None /\ rc'.u = None /\ rc'.pc # "update"
    <3>1. rc.pc # "update" /\ (rc' = IdleLoop \/ \E items : rc' = Looping(items))
      BY <1>5, ZenonT(40) DEF ReconcileLists, ReconcileEnds
    <3>2. QED
      BY <1>1, <1>3, <3>1, ZenonT(60) DEF OwnInv
  <2>2. UNCHANGED <<upd, wk, hd, retrying>> /\ shared' \subseteq shared
    BY <1>5, SMTT(30), ZenonT(40) DEF ReconcileLists, ReconcileEnds, Reconciles, store
  <2>3. QED
    BY <1>4, <2>1, <2>2
<1>6. CASE ReconcileAdvances
  <2>1. rc.u = None /\ rc'.u = None /\ rc'.pc # "update"
    BY <1>1, <1>6 DEF ReconcileAdvances, OwnInv, Looping, IdleLoop
  <2>2. \A u \in Updaters : upd'[u].pc = upd[u].pc
    BY <1>1, <1>6 DEF ReconcileAdvances, Alias, TypeOK, Updater
  <2>3. UNCHANGED <<wk, hd, retrying>> /\ shared' \subseteq shared
    BY <1>6 DEF ReconcileAdvances, Reconciles
  <2>4. QED
    BY <1>4, <2>1, <2>2, <2>3
<1>7. CASE ReconcileValidates
  <2> DEFINE c == rc.copy.name
             next == IF rc.copy.obj["state"] = "provisioning" THEN "joining" ELSE "ready"
             ann(r) == IF r.ok THEN Merge(r.ann, Set([state |-> next])) ELSE r.ann
  <2>1. PICK r \in ValidateKubeCluster(Class[c], cloud[c], rc.copy.obj) :
          IF ann(r) = NoChange
          THEN rc' = Looping(rc.items) /\ UNCHANGED <<store, shared>>
          ELSE \E u \in Updaters :
                 /\ Begin(u, rc.copy, ann(r))
                 /\ rc' = [Looping(rc.items) EXCEPT !.pc = "update", !.u = u]
                 /\ shared' = shared \cup {u}
    BY <1>7, ZenonT(30) DEF ReconcileValidates
  <2>2. ann(r) \in ClusterAnnotation
    <3>1. r \in ProviderResult
      BY <1>1, <2>1, ValidateType, ZenonT(30)
    <3>2. Set([state |-> next]) \in ClusterAnnotation
      BY StateValues, SetStateType DEF Settled
    <3>3. QED
      BY <3>1, <3>2, MergeType DEF ProviderResult
  <2>3. rc.u = None /\ UNCHANGED <<wk, hd, retrying>>
    BY <1>1, <1>7, ZenonT(30) DEF ReconcileValidates, Reconciles, OwnInv
  <2> HIDE DEF ann
  <2>4. CASE ann(r) = NoChange
    <3>1. rc' = Looping(rc.items) /\ UNCHANGED <<upd, shared>>
      BY <2>1, <2>4 DEF store
    <3>2. QED
      BY <1>3, <1>4, <2>3, <3>1
  <2>5. CASE ann(r) # NoChange
    <3>1. PICK u \in Updaters :
            /\ Begin(u, rc.copy, ann(r))
            /\ rc' = [Looping(rc.items) EXCEPT !.pc = "update", !.u = u]
            /\ shared' = shared \cup {u}
      BY <2>1, <2>5, ZenonT(30)
    <3>2. /\ upd[u].pc = "free" /\ upd'[u].pc # "free"
          /\ \A v \in Updaters \ {u} : upd'[v] = upd[v]
      BY <1>1, <2>2, <3>1, BeginFacts, ZenonT(30)
    <3>3. rc'.u = u /\ rc'.pc = "update"
      BY <3>1 DEF Looping, IdleLoop
    <3>4. QED
      BY <1>1, <1>2, <2>3, <3>1, <3>2, <3>3 DEF OwnInv
  <2>6. QED
    BY <2>4, <2>5
<1>8. CASE ReconcileUpdated
  <2>1. /\ rc.u \in Updaters /\ rc'.u = None /\ rc'.pc = "loop" /\ UNCHANGED <<wk, hd>>
    BY <1>1, <1>3, <1>8, ZenonT(60) DEF ReconcileUpdated, Reconciles, OwnInv
  <2>2. CASE Release(rc.u) /\ shared' = shared \ {rc.u} /\ UNCHANGED retrying
    <3>1. /\ upd'[rc.u].pc = "free"
          /\ \A v \in Updaters \ {rc.u} : upd'[v] = upd[v]
      BY <1>1, <2>1, <2>2, ReleaseFacts, ZenonT(60)
    <3>2. QED
      BY <1>1, <1>2, <2>1, <2>2, <3>1, ZenonT(60) DEF OwnInv
  <2>3. CASE /\ upd[rc.u].pc = "err" /\ UNCHANGED store
             /\ retrying' = retrying \cup {rc.u} /\ UNCHANGED shared
    <3>1. UNCHANGED upd
      BY <2>3 DEF store
    <3>2. QED
      BY <1>1, <1>2, <2>1, <2>3, <3>1, ZenonT(60) DEF OwnInv
  <2>4. QED
    BY <1>8, <2>2, <2>3 DEF ReconcileUpdated, Finish
<1>9. CASE ReconcileJoins
  <2>1. rc.u = None /\ UNCHANGED <<wk, upd, hd, retrying, shared>>
    BY <1>1, <1>9 DEF ReconcileJoins, Reconciles, OwnInv, store
  <2>2. rc'.u = None /\ rc'.pc \in {"loop", "delete"}
    BY <1>9, ZenonT(30) DEF ReconcileJoins, Looping, IdleLoop
  <2>3. QED
    BY <1>4, <2>1, <2>2
<1>10. CASE ReconcilePanics
  BY <1>10, DiesOwn DEF ReconcilePanics
<1>11. CASE ResetDeletes \/ ResetRefetches \/ ResetCreates
  <2>1. rc.u = None /\ UNCHANGED <<wk, upd, hd, retrying, shared>>
    BY <1>1, <1>11, ZenonT(30)
       DEF ResetDeletes, ResetRefetches, ResetCreates, Resets, ForeignWrite, OwnInv, store
  <2> DEFINE made == [rc EXCEPT !.pc = "create", !.tries = 0]
             tried == [rc EXCEPT !.pc = "refetch", !.tries = rc.tries + 1]
             read == [rc EXCEPT !.pc = "delete", !.copy = Copy(rc.copy.name)]
             again == [rc EXCEPT !.tries = rc.tries + 1]
  <2>2. /\ made.u = rc.u /\ made.pc = "create"
        /\ tried.u = rc.u /\ tried.pc = "refetch"
        /\ read.u = rc.u /\ read.pc = "delete"
        /\ again.u = rc.u /\ again.pc = rc.pc
    BY <1>1 DEF LoopType
  <2>3. \/ rc' = Looping(rc.items) \/ rc' = made \/ rc' = tried
        \/ rc' = read \/ rc' = again
    BY <1>11, ZenonT(30) DEF ResetDeletes, ResetRefetches, ResetCreates
  <2>4. rc.pc # "update"
    BY <1>11, ZenonT(30) DEF ResetDeletes, ResetRefetches, ResetCreates
  <2> HIDE DEF made, tried, read, again
  <2>5. rc'.u = None /\ rc'.pc # "update"
    BY <1>3, <2>1, <2>2, <2>3, <2>4
  <2>6. QED
    BY <1>4, <2>1, <2>5
<1>12. CASE Updating(rc.u)
  BY <1>1, <1>12, UpdateStepOwn DEF Updating
<1>13. QED
  BY <1>5, <1>6, <1>7, <1>8, <1>9, <1>10, <1>11, <1>12 DEF Reconcile

\* The retry handler, the cloud, the users and the end of the process.
LEMMA OtherOwn == CtlInv /\ (RetryHandler \/ Cloud \/ User \/ Crash) => OwnInv'
<1> SUFFICES ASSUME CtlInv, RetryHandler \/ Cloud \/ User \/ Crash PROVE OwnInv'
  OBVIOUS
<1>1. /\ TypeOK /\ OwnInv
      /\ wk.u \in Updaters \cup {None} /\ rc.u \in Updaters \cup {None}
      /\ hd \in Updaters \cup {None} /\ retrying \subseteq Updaters
      /\ shared \subseteq Updaters
  BY DEF CtlInv, CtlTypeOK, WorkerType, LoopType
<1>2. None \notin Updaters
  BY UpdatersAssumption DEF None
<1>3. ASSUME NEW u \in Updaters, HandlerRetries(u)
      PROVE  OwnInv'
  <2>1. /\ upd'[u].pc # "free"
        /\ \A v \in Updaters \ {u} : upd'[v] = upd[v]
    BY <1>1, <1>3, NoChangeType, AgainFacts, ZenonT(60) DEF HandlerRetries
  <2>2. /\ u \in retrying /\ hd = None
        /\ hd' = u /\ retrying' = retrying \ {u} /\ UNCHANGED <<wk, rc, shared>>
    BY <1>3, ZenonT(60) DEF HandlerRetries
  <2>3. wk.u # u /\ rc.u # u
    BY <1>1, <1>2, <2>2, ZenonT(60) DEF OwnInv
  <2>4. ASSUME NEW v \in Updaters
        PROVE  upd'[v].pc # "free" <=> v \in {wk'.u, rc'.u, hd'} \cup retrying'
    <3>1. CASE v = u
      BY <2>1, <2>2, <3>1, ZenonT(60)
    <3>2. CASE v # u
      BY <1>1, <1>2, <2>1, <2>2, <3>2, ZenonT(60) DEF OwnInv
    <3>3. QED
      BY <3>1, <3>2, ZenonT(60)
  <2>5. \A v \in retrying' : upd'[v].pc = "err"
    BY <1>1, <2>1, <2>2, ZenonT(60) DEF OwnInv
  <2>6. shared' \subseteq {rc'.u, hd'} \cup retrying'
    BY <1>1, <1>2, <2>2, ZenonT(60) DEF OwnInv
  <2>7. wk.pc = "secret" => upd'[wk.u].pc = "ok"
    BY <1>1, <2>1, <2>3, ZenonT(60) DEF OwnInv
  <2>8. QED
    BY <1>1, <2>2, <2>3, <2>4, <2>5, <2>6, <2>7, ZenonT(60) DEF OwnInv
<1>4. ASSUME NEW u \in Updaters, HandlerDrops(u)
      PROVE  OwnInv'
  <2>1. /\ upd'[u].pc = "free"
        /\ \A v \in Updaters \ {u} : upd'[v] = upd[v]
    BY <1>1, <1>4, ReleaseFacts, ZenonT(60) DEF HandlerDrops
  <2>2. /\ u \in retrying /\ retrying' = retrying \ {u} /\ shared' = shared \ {u}
        /\ UNCHANGED <<wk, rc, hd>>
    BY <1>4, ZenonT(60) DEF HandlerDrops
  <2>3. wk.u # u /\ rc.u # u /\ hd # u
    BY <1>1, <1>2, <2>2, ZenonT(60) DEF OwnInv
  <2>4. ASSUME NEW v \in Updaters
        PROVE  upd'[v].pc # "free" <=> v \in {wk'.u, rc'.u, hd'} \cup retrying'
    <3>1. CASE v = u
      BY <2>1, <2>2, <2>3, <3>1, ZenonT(60)
    <3>2. CASE v # u
      BY <1>1, <2>1, <2>2, <3>2, ZenonT(60) DEF OwnInv
    <3>3. QED
      BY <3>1, <3>2, ZenonT(60)
  <2>5. \A v \in retrying' : upd'[v].pc = "err"
    BY <1>1, <2>1, <2>2, ZenonT(60) DEF OwnInv
  <2>6. shared' \subseteq {rc'.u, hd'} \cup retrying'
    BY <1>1, <2>2, ZenonT(60) DEF OwnInv
  <2>7. wk.pc = "secret" => upd'[wk.u].pc = "ok"
    BY <1>1, <2>1, <2>3, ZenonT(60) DEF OwnInv
  <2>8. QED
    BY <1>1, <2>2, <2>3, <2>4, <2>5, <2>6, <2>7, ZenonT(60) DEF OwnInv
<1>5. CASE HandlerFinishes
  <2>1. hd \in Updaters /\ hd' = None /\ UNCHANGED <<wk, rc>>
    BY <1>1, <1>5, ZenonT(60) DEF HandlerFinishes
  <2>2. CASE Release(hd) /\ shared' = shared \ {hd} /\ UNCHANGED retrying
    <3>1. /\ upd'[hd].pc = "free"
          /\ \A v \in Updaters \ {hd} : upd'[v] = upd[v]
      BY <1>1, <2>1, <2>2, ReleaseFacts, ZenonT(60)
    <3>2. wk.u # hd /\ rc.u # hd /\ hd \notin retrying
      BY <1>1, <1>2, <2>1, ZenonT(60) DEF OwnInv
    <3>3. ASSUME NEW v \in Updaters
          PROVE  upd'[v].pc # "free" <=> v \in {wk'.u, rc'.u, hd'} \cup retrying'
      <4>1. CASE v = hd
        BY <1>2, <2>1, <2>2, <3>1, <3>2, <4>1, ZenonT(60)
      <4>2. CASE v # hd
        BY <1>1, <1>2, <2>1, <2>2, <3>1, <4>2, ZenonT(60) DEF OwnInv
      <4>3. QED
        BY <4>1, <4>2, ZenonT(60)
    <3>4. \A v \in retrying' : upd'[v].pc = "err"
      BY <1>1, <2>2, <3>1, <3>2, ZenonT(60) DEF OwnInv
    <3>5. shared' \subseteq {rc'.u, hd'} \cup retrying'
      BY <1>1, <2>1, <2>2, ZenonT(60) DEF OwnInv
    <3>6. wk.pc = "secret" => upd'[wk.u].pc = "ok"
      BY <1>1, <3>1, <3>2, ZenonT(60) DEF OwnInv
    <3>7. hd' \notin retrying'
      BY <1>1, <1>2, <2>1, <2>2, ZenonT(60)
    <3>8. QED
      BY <1>1, <1>2, <2>1, <2>2, <3>2, <3>3, <3>4, <3>5, <3>6, <3>7, ZenonT(60) DEF OwnInv
  <2>3. CASE /\ upd[hd].pc = "err" /\ UNCHANGED store
             /\ retrying' = retrying \cup {hd} /\ UNCHANGED shared
    <3>1. UNCHANGED upd
      BY <2>3, ZenonT(60) DEF store
    <3>2. QED
      BY <1>1, <1>2, <2>1, <2>3, <3>1, ZenonT(60) DEF OwnInv
  <2>4. QED
    BY <1>5, <2>2, <2>3 DEF HandlerFinishes, Finish
<1>6. CASE Updating(hd)
  BY <1>1, <1>6, UpdateStepOwn DEF Updating
<1>7. CASE Cloud \/ User
  <2>1. UNCHANGED <<upd, wk, rc, hd, retrying, shared>>
    BY <1>7, ZenonT(30) DEF Cloud, CloudBuilds, User, UserAnnotates, UserRequests, UserWrites,
       ForeignWrite, store, process
  <2>2. QED
    BY <1>1, <2>1, ZenonT(60) DEF OwnInv
<1>8. CASE Crash
  BY <1>8, DiesOwn DEF Crash
<1>9. QED
  BY <1>3, <1>4, <1>5, <1>6, <1>7, <1>8 DEF RetryHandler

\* Every step.
LEMMA OwnStep == CtlInv /\ [CtlNext]_ctlVars => OwnInv'
<1> SUFFICES ASSUME CtlInv, [CtlNext]_ctlVars PROVE OwnInv'
  OBVIOUS
<1>1. CASE UNCHANGED ctlVars
  BY <1>1 DEF CtlInv, OwnInv, ctlVars, process, store
<1>2. QED
  BY <1>1, WorkerOwn, ReconcileOwn, OtherOwn DEF CtlNext

=============================================================================
