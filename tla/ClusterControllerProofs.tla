------------------------ MODULE ClusterControllerProofs ------------------------
(***************************************************************************)
(* For every set of clusters, updaters and failures, and any number of     *)
(* requests: the controller uses its updaters as ClusterUpdater says, never*)
(* two goroutines have the same updater, and no request is served twice.   *)
(* With the failures named there left out, no request is forgotten and no  *)
(* object lost.                                                            *)
(***************************************************************************)
EXTENDS ControllerTypeProofs

\* The seconds a prover may take for a step.
USE SMTT(30), ZenonT(30)

-----------------------------------------------------------------------------
(* Every step keeps the episodes that were served apart.                    *)

\* A step changes no object and begins no episode, or it counts the episodes it begins.
Counted == Observe \/ UNCHANGED <<api, ep>>

\* An object that becomes pending is a new episode, and episodes only grow.
LEMMA CountedFacts ==
  ASSUME HistoryType, Counted
  PROVE  /\ ep' \in [Clusters -> Nat]
         /\ \A c \in Clusters :
              /\ ep'[c] \in {ep[c], ep[c] + 1}
              /\ IsPending(api'[c]) /\ ep'[c] = ep[c] => IsPending(api[c])
<1>1. CASE UNCHANGED <<api, ep>>
  BY <1>1 DEF HistoryType
<1>2. CASE Observe
  <2> DEFINE asked == {c \in Clusters : /\ api'[c] # api[c] /\ IsPending(api'[c])
                                        /\ ~IsPending(api[c]) \/ State(c) # State(c)'}
  <2>1. ep' = [c \in Clusters |-> IF c \in asked THEN ep[c] + 1 ELSE ep[c]]
    BY <1>2 DEF Observe
  <2>2. \A c \in Clusters : IsPending(api'[c]) /\ c \notin asked => IsPending(api[c])
    OBVIOUS
  <2> HIDE DEF asked
  <2>3. QED
    BY <2>1, <2>2 DEF HistoryType
<1>3. QED
  BY <1>1, <1>2 DEF Counted

\* The others leave the worker's updater alone, or end its process.
LEMMA OthersLeaveWorker ==
  ASSUME CtlInv, Reconcile \/ RetryHandler \/ Cloud \/ User \/ Crash
  PROVE  /\ UNCHANGED served /\ Counted
         /\ \/ wk' = IdleWorker
            \/ UNCHANGED wk /\ (wk.u # None => upd'[wk.u] = upd[wk.u])
<1>1. /\ TypeOK /\ OwnInv /\ wk.u \in Updaters \cup {None} /\ rc.u \in Updaters \cup {None}
      /\ hd \in Updaters \cup {None} /\ retrying \subseteq Updaters
  BY DEF CtlInv, CtlTypeOK, WorkerType, LoopType
<1>2. None \notin Updaters
  BY UpdatersAssumption DEF None
<1> DEFINE Other == /\ UNCHANGED <<served, wk>> /\ Counted
                    /\ wk.u # None => upd'[wk.u] = upd[wk.u]
<1>3. ASSUME Dies, UNCHANGED served
      PROVE  UNCHANGED served /\ Counted /\ wk' = IdleWorker
  BY <1>3 DEF Dies, Restart, Counted
<1>4. ASSUME NEW u \in Updaters, u # wk.u, UpdateStep(u)
      PROVE  Other
  BY <1>1, <1>2, <1>4, UpdateStepFacts DEF UpdateStep, process, Counted
<1>5. ASSUME NEW u \in Updaters, u # wk.u, Finish(u)
      PROVE  UNCHANGED api /\ (wk.u # None => upd'[wk.u] = upd[wk.u])
  BY <1>1, <1>2, <1>5, ReleaseFacts DEF Finish, store
<1>6. CASE ReconcileLists \/ ReconcileEnds \/ ReconcileJoins
  BY <1>6 DEF ReconcileLists, ReconcileEnds, ReconcileJoins, Reconciles, Unobserved, store,
     Counted
<1>7. CASE ReconcileAdvances
  <2>1. wk.u # None => wk.u \notin shared
    BY <1>1, <1>2 DEF OwnInv
  <2>2. QED
    BY <1>1, <1>7, <2>1 DEF ReconcileAdvances, Reconciles, Unobserved, Alias, Counted
<1>8. CASE ReconcileValidates
  <2>1. \/ UNCHANGED store
        \/ \E u \in Updaters : \E ann : Begin(u, rc.copy, ann)
    BY <1>8, ZenonT(30) DEF ReconcileValidates
  <2>2. wk.u # None => upd[wk.u].pc # "free"
    BY <1>1 DEF OwnInv
  <2>3. UNCHANGED api /\ (wk.u # None => upd'[wk.u] = upd[wk.u])
    BY <1>1, <2>1, <2>2, ZenonT(30) DEF Begin, Start, store, TypeOK
  <2>4. QED
    BY <1>8, <2>3, ZenonT(30) DEF ReconcileValidates, Reconciles, Unobserved, Counted
<1>9. CASE ReconcileUpdated
  <2>1. rc.u \in Updaters /\ rc.u # wk.u
    BY <1>1, <1>2, <1>9 DEF ReconcileUpdated, OwnInv
  <2>2. QED
    BY <1>5, <1>9, <2>1 DEF ReconcileUpdated, Reconciles, Unobserved, Counted
<1>10. CASE ReconcilePanics
  BY <1>3, <1>10 DEF ReconcilePanics
<1>11. CASE ResetDeletes \/ ResetRefetches \/ ResetCreates
  BY <1>11, ZenonT(30)
     DEF ResetDeletes, ResetRefetches, ResetCreates, Resets, ForeignWrite, store,
     Counted
<1>12. CASE Updating(rc.u)
  BY <1>1, <1>2, <1>4, <1>12 DEF Updating, OwnInv
<1>13. ASSUME NEW u \in Updaters, HandlerRetries(u) \/ HandlerDrops(u)
       PROVE  Other
  <2>1. u # wk.u
    BY <1>1, <1>2, <1>13 DEF HandlerRetries, HandlerDrops, OwnInv
  <2>2. UNCHANGED api /\ (wk.u # None => upd'[wk.u] = upd[wk.u])
    BY <1>1, <1>2, <1>13, <2>1, NoChangeType, AgainFacts, ReleaseFacts
       DEF HandlerRetries, HandlerDrops
  <2>3. QED
    BY <1>13, <2>2 DEF HandlerRetries, HandlerDrops, Unobserved, Counted
<1>14. CASE HandlerFinishes
  <2>1. hd \in Updaters /\ hd # wk.u
    BY <1>1, <1>2, <1>14 DEF HandlerFinishes, OwnInv
  <2>2. QED
    BY <1>5, <1>14, <2>1 DEF HandlerFinishes, Unobserved, Counted
<1>15. CASE Updating(hd)
  BY <1>1, <1>2, <1>4, <1>15 DEF Updating, OwnInv
<1>16. CASE Cloud \/ User
  BY <1>16, ZenonT(30) DEF Cloud, CloudBuilds, User, UserAnnotates, UserRequests, UserWrites,
     ForeignWrite, store, process, Unobserved, Counted
<1>17. CASE Crash
  BY <1>3, <1>17 DEF Crash
<1>18. QED
  BY <1>6, <1>7, <1>8, <1>9, <1>10, <1>11, <1>12, <1>13, <1>14, <1>15, <1>16, <1>17, ZenonT(60)
     DEF Reconcile, RetryHandler

\* The worker serves an episode only after its first update.
LEMMA WorkerServes ==
  ASSUME CtlInv, Worker
  PROVE  /\ Counted
         /\ \/ UNCHANGED served
            \/ Marked /\ Serve(wk.copy.name) /\ UNCHANGED <<api, ep>>
<1>1. /\ TypeOK /\ OwnInv /\ wk.u \in Updaters \cup {None}
      /\ None \notin Updaters
  BY UpdatersAssumption DEF CtlInv, CtlTypeOK, WorkerType, None
<1>2. wk.pc \in {"mark", "secret", "finish"} => wk.u \in Updaters
  BY <1>1 DEF OwnInv
<1>3. ASSUME NEW c \in Clusters, WorkerDrops(c) \/ WorkerTakesCreate(c)
      PROVE  Counted /\ UNCHANGED served
  BY <1>3 DEF WorkerDrops, WorkerTakesCreate, Take, store, Counted
<1>4. ASSUME NEW c \in Clusters, NEW u \in Updaters, WorkerMarks(c, u)
      PROVE  Counted /\ UNCHANGED served
  BY <1>4 DEF WorkerMarks, Take, Begin, Start, Counted
<1>5. ASSUME NEW u \in Updaters, WorkerCreates(u)
      PROVE  Counted /\ UNCHANGED served
  <2>1. \E ann : Begin(u, wk.copy, ann)
    BY <1>5 DEF WorkerCreates
  <2>2. QED
    BY <1>5, <2>1 DEF WorkerCreates, Begin, Start, Unobserved, Counted
<1>6. CASE WorkerAborts
  BY <1>6 DEF WorkerAborts, Release, Unobserved, Counted
<1>7. CASE WorkerDeletes
  <2>1. UNCHANGED api
    BY <1>7 DEF WorkerDeletes, Release, store
  <2>2. QED
    BY <1>7, <2>1 DEF WorkerDeletes, Unobserved, Counted
<1>8. CASE WorkerDeletesSecret
  BY <1>8 DEF WorkerDeletesSecret, Reuse, Unobserved, Counted
<1>9. CASE WorkerScales
  <2>1. \E ann : Reuse(wk.u, ann)
    BY <1>9 DEF WorkerScales
  <2>2. QED
    BY <1>9, <2>1 DEF WorkerScales, Reuse, Unobserved, Counted
<1>10. CASE WorkerPanics
  BY <1>10 DEF WorkerPanics, Dies, Restart, Counted
<1>11. CASE WorkerFinishes
  BY <1>11 DEF WorkerFinishes, Finish, Release, store, Unobserved, Counted
<1>12. CASE Updating(wk.u)
  BY <1>12 DEF Updating, UpdateStep, Counted
<1>13. QED
  BY <1>3, <1>4, <1>5, <1>6, <1>7, <1>8, <1>9, <1>10, <1>11, <1>12 DEF Worker

\* The first update of a request takes the state of the cluster away from pending.
LEMMA MarkSets ==
  ASSUME NEW s \in DOMAIN Marks
  PROVE  LET ann == Set([state |-> Marks[s]])
         IN  /\ ann \in ClusterAnnotation /\ ann.del = {}
             /\ ann.set["state"] \notin Pending \cup {Absent}
             /\ Touched(ann) # {}
             /\ \A obj : ApplyAnnotation(obj, ann)["state"] \notin Pending
<1> DEFINE ann == Set([state |-> Marks[s]])
<1>1. Marks[s] \in Values /\ Marks[s] \notin Pending \cup {Absent}
  BY StateValues
<1>2. "state" \in Fields
  BY FieldsAssumption
<1>3. ann \in ClusterAnnotation
  BY <1>1, SetStateType
<1>4. ann.del = {} /\ ann.set["state"] = Marks[s]
  BY <1>2 DEF Set
<1> HIDE DEF ann
<1>5. Touched(ann) # {}
  BY <1>1, <1>2, <1>4 DEF Touched
<1>6. \A obj : ApplyAnnotation(obj, ann)["state"] = Marks[s]
  BY <1>1, <1>2, <1>4 DEF ApplyAnnotation
<1>7. QED
  BY <1>1, <1>3, <1>4, <1>5, <1>6 DEF ann

\* The worker takes a request and enters update().
LEMMA MarksMark ==
  ASSUME CtlInv, NEW c \in Clusters, NEW u \in Updaters, WorkerMarks(c, u)
  PROVE  MarkInv'
<1>1. TypeOK /\ EpisodeInv /\ ep \in [Clusters -> Nat]
  BY DEF CtlInv, CtlTypeOK, HistoryType
<1>2. /\ State(c) \in DOMAIN Marks /\ api[c].live /\ UNCHANGED <<ep, served>>
      /\ Begin(u, Copy(c), Set([state |-> Marks[State(c)]]))
      /\ wk' = Working("mark", c, u)
  BY DEF WorkerMarks, Take
<1> DEFINE ann == Set([state |-> Marks[State(c)]])
           r == [New(c) EXCEPT !.rv = api[c].rv, !.obj = api[c].obj, !.ann = ann]
<1>3. /\ ann \in ClusterAnnotation /\ ann.del = {}
      /\ ann.set["state"] \notin Pending \cup {Absent} /\ Touched(ann) # {}
      /\ \A obj : ApplyAnnotation(obj, ann)["state"] \notin Pending
  BY <1>2, MarkSets
<1> HIDE DEF ann
<1>4. Copy(c) \in CopyType
  BY <1>1 DEF Copy, CopyType, TypeOK
<1>5. upd'[u] = Entered(r)
  <2>1. Begin(u, Copy(c), ann)
    BY <1>2 DEF ann
  <2>2. upd'[u] = Entered([New(Copy(c).name) EXCEPT !.rv = Copy(c).rv, !.obj = Copy(c).obj,
                                                    !.ann = ann])
    BY <1>1, <1>3, <1>4, <2>1, BeginFacts, ZenonT(30)
  <2>3. Copy(c).name = c /\ Copy(c).rv = api[c].rv /\ Copy(c).obj = api[c].obj
    BY DEF Copy
  <2>4. QED
    BY <2>2, <2>3
<1>6. r.name = c /\ r.target = c /\ r.ann = ann
  BY DEF New
<1>7. r \in Updater
  <2>1. New(c) \in Updater
    BY NewType
  <2>2. QED
    BY <1>1, <1>3, <2>1, ZenonT(40) DEF Updater, TypeOK
<1> HIDE DEF r
<1>8. Entered(r).target = c
  BY <1>6, <1>7 DEF Entered, Updater
<1>9. /\ Entered(r).name = c /\ Entered(r).ann = ann /\ Entered(r).pc \in {"resync", "write"}
      /\ Entered(r).pc = "write" => Entered(r).obj["state"] \notin Pending
  BY <1>3, <1>6, <1>7, EnteredFacts
<1>10. wk'.copy.name = c /\ wk'.u = u /\ wk'.ep = ep[c]
  BY <1>2 DEF Working, Copy
<1>11. \A i \in DOMAIN served[c] : served[c][i] # ep[c]
  <2>1. DOMAIN Marks \subseteq Pending
    BY DEF Marks
  <2>2. IsPending(api[c])
    BY <1>2, <2>1 DEF IsPending, State
  <2>3. QED
    BY <1>1, <2>2 DEF EpisodeInv
<1>12. wk'.ep <= ep'[c] /\ ~(wk'.ep < ep'[c]) /\ ep' = ep /\ served' = served
  <2>1. ep[c] \in Nat /\ ep' = ep /\ served' = served
    BY <1>1, <1>2, ZenonT(60)
  <2>2. QED
    BY <1>10, <2>1
<1>13. upd'[u].pc # "ok"
  BY <1>5, <1>9, ZenonT(60)
<1>14. QED
  BY <1>3, <1>5, <1>8, <1>9, <1>10, <1>11, <1>12, <1>13, ZenonT(60) DEF MarkInv

\* The worker is inside its first update.
LEMMA MarkUpdates ==
  ASSUME CtlInv, wk.pc = "mark", UpdateStep(wk.u)
  PROVE  MarkInv'
<1> DEFINE c == wk.copy.name
           u == wk.u
           r == upd[u]
<1>1. /\ TypeOK /\ MarkInv /\ HistoryType /\ u \in Updaters /\ c \in Clusters
  BY DEF CtlInv, CtlTypeOK, WorkerType, CopyType, OwnInv
<1>2. r \in Updater
  BY <1>1 DEF TypeOK
<1>3. UNCHANGED <<wk, served>> /\ Counted
  BY DEF UpdateStep, process, Counted
<1>4. ep'[c] >= ep[c] /\ ep[c] \in Nat /\ ep'[c] \in Nat
  <2>1. ep[c] \in Nat /\ ep'[c] \in {ep[c], ep[c] + 1}
    BY <1>1, <1>3, CountedFacts DEF HistoryType
  <2>2. QED
    BY <2>1
<1>5. /\ upd'[u].ann = r.ann /\ upd'[u].target = r.target
      /\ r.pc \in {"resync", "write"}
  BY <1>1, UpdateStepFacts
<1>6. /\ wk.ep <= ep[c] /\ wk.ep \in Nat /\ \A i \in DOMAIN served[c] : served[c][i] # wk.ep
      /\ r.name = c /\ r.target = c
      /\ r.ann.set["state"] \notin Pending \cup {Absent} /\ "state" \notin r.ann.del
      /\ r.pc = "write" => r.obj["state"] \notin Pending
  BY <1>1, SMTT(30), ZenonT(40) DEF MarkInv, CtlInv, CtlTypeOK, WorkerType
<1>7. ASSUME upd'[u].name = c,
             upd'[u].pc = "write" => upd'[u].obj["state"] \notin Pending,
             upd'[u].pc = "ok" => ~IsPending(api'[c])
      PROVE  MarkInv'
  <2>1. wk.ep <= ep'[c]
    <3>1. wk.ep <= ep[c] /\ wk.ep \in Nat
      BY <1>6, ZenonT(60)
    <3>2. QED
      BY <1>4, <3>1
  <2>2. /\ wk' = wk /\ served' = served
        /\ upd'[u].ann = upd[u].ann /\ upd'[u].target = upd[u].target
    BY <1>3, <1>5
  <2> QED
    BY <1>6, <1>7, <2>1, <2>2, ZenonT(30) DEF MarkInv
<1>8. CASE Resync(u)
  <2>1. /\ upd'[u].name = c /\ upd'[u].pc = "write"
        /\ upd'[u].obj = ApplyAnnotation(api[c].obj, r.ann)
    BY <1>1, <1>2, <1>6, <1>8 DEF Resync, TypeOK, Updater
  <2>2. ApplyAnnotation(api[c].obj, r.ann)["state"] = r.ann.set["state"]
    BY <1>6, FieldsAssumption, ZenonT(60) DEF ApplyAnnotation
  <2>3. QED
    BY <1>6, <1>7, <2>1, <2>2, SMTT(30), ZenonT(40)
<1>9. CASE ResyncFails(u) \/ WriteFails(u) \/ WriteUnacknowledged(u)
  <2>1. upd'[u] = Failed(r)
    BY <1>1, <1>9, ZenonT(40) DEF ResyncFails, WriteFails, WriteUnacknowledged, TypeOK
  <2>2. Failed(r).pc = "err" /\ Failed(r).name = r.name
    BY <1>2, FailedFacts
  <2>3. QED
    BY <1>6, <1>7, <2>1, <2>2
<1>10. CASE Write(u)
  <2>1. /\ upd'[u].name = r.name /\ upd'[u].pc = "ok"
        /\ api' = Stored(c, TRUE, r.obj) /\ r.pc = "write"
    BY <1>1, <1>2, <1>6, <1>10 DEF Write, TypeOK, Updater
  <2>2. api'[c].obj = r.obj
    BY <1>1, <1>2, <2>1, StoredFacts, ZenonT(40) DEF Updater
  <2>3. QED
    BY <1>6, <1>7, <2>1, <2>2, ZenonT(30) DEF IsPending
<1>11. CASE Conflict(u)
  <2>1. upd'[u].name = r.name /\ upd'[u].pc \in {"resync", "err"}
    BY <1>1, <1>2, <1>11 DEF Conflict, TypeOK, Updater
  <2>2. QED
    BY <1>6, <1>7, <2>1
<1>12. QED
  BY <1>8, <1>9, <1>10, <1>11 DEF UpdateStep

\* Every step keeps what is known of a marked request.
LEMMA MarkStep == CtlInv /\ [CtlNext]_ctlVars => MarkInv'
<1> SUFFICES ASSUME CtlInv, [CtlNext]_ctlVars PROVE MarkInv'
  OBVIOUS
<1>1. /\ TypeOK /\ MarkInv /\ HistoryType /\ OwnInv /\ wk \in WorkerType
      /\ wk.copy.name \in Clusters /\ wk.ep \in Nat
  BY DEF CtlInv, CtlTypeOK, WorkerType, CopyType
<1>2. CASE wk'.pc # "mark"
  BY <1>2 DEF MarkInv
<1>3. IdleWorker.pc = "idle" /\ \A u : Finishing(u).pc = "finish"
  BY DEF IdleWorker, Finishing
<1>4. CASE Worker
  <2>1. ASSUME NEW c \in Clusters, WorkerDrops(c) \/ WorkerTakesCreate(c)
        PROVE  wk'.pc # "mark"
    BY <2>1 DEF WorkerDrops, WorkerTakesCreate, Take, Working
  <2>2. CASE \E c \in Clusters, u \in Updaters : WorkerMarks(c, u)
    BY <2>2, MarksMark
  <2>3. CASE \E u \in Updaters : WorkerCreates(u)
    BY <1>2, <1>3, <2>3 DEF WorkerCreates
  <2>4. CASE WorkerAborts \/ WorkerFinishes \/ WorkerPanics
    BY <1>2, <1>3, <2>4 DEF WorkerAborts, WorkerFinishes, WorkerPanics, Dies
  <2>5. CASE WorkerDeletes
    <3>1. wk' = IdleWorker \/ wk' = [wk EXCEPT !.pc = "secret"]
      BY <2>5 DEF WorkerDeletes
    <3>2. [wk EXCEPT !.pc = "secret"].pc = "secret"
      BY <1>1 DEF WorkerType
    <3>3. QED
      BY <1>2, <1>3, <3>1, <3>2, ZenonT(30)
  <2>6. CASE WorkerDeletesSecret \/ WorkerScales
    BY <1>2, <1>3, <2>6, ZenonT(60) DEF WorkerDeletesSecret, WorkerScales
  <2>7. CASE Updating(wk.u)
    <3>1. UpdateStep(wk.u) /\ UNCHANGED wk
      BY <2>7, ZenonT(60) DEF Updating, UpdateStep, process
    <3>2. QED
      BY <1>2, <3>1, MarkUpdates
  <2>8. QED
    BY <1>2, <1>4, <2>1, <2>2, <2>3, <2>4, <2>5, <2>6, <2>7 DEF Worker
<1>5. ASSUME UNCHANGED <<wk, served>>, Counted, wk.u # None => upd'[wk.u] = upd[wk.u],
             wk.pc = "mark"
      PROVE  MarkInv'
  <2> DEFINE c == wk.copy.name
  <2>1. /\ ep'[c] \in {ep[c], ep[c] + 1} /\ ep[c] \in Nat
        /\ IsPending(api'[c]) /\ ep'[c] = ep[c] => IsPending(api[c])
    BY <1>1, <1>5, CountedFacts, ZenonT(60) DEF HistoryType
  <2>2. upd'[wk.u] = upd[wk.u]
    BY <1>1, <1>5 DEF OwnInv
  <2>3. /\ wk.ep <= ep[c] /\ wk.ep \in Nat
        /\ upd[wk.u].pc = "ok" /\ IsPending(api[c]) => wk.ep < ep[c]
    BY <1>1, <1>5, ZenonT(60) DEF MarkInv, CtlInv, CtlTypeOK, WorkerType
  <2>4. wk.ep <= ep'[c] /\ (wk.ep < ep[c] \/ ep'[c] # ep[c] => wk.ep < ep'[c])
    <3>1. wk.ep <= ep[c] /\ wk.ep \in Nat
      BY <2>3, ZenonT(60)
    <3>2. ep'[c] \in {ep[c], ep[c] + 1} /\ ep[c] \in Nat
      BY <2>1, ZenonT(60)
    <3>3. QED
      BY <3>1, <3>2
  <2>5. upd[wk.u].pc = "ok" /\ IsPending(api'[c]) => wk.ep < ep'[c]
    BY <2>1, <2>3, <2>4, ZenonT(60)
  <2>6. QED
    BY <1>1, <1>5, <2>2, <2>4, <2>5, ZenonT(60) DEF MarkInv
<1>6. CASE Reconcile \/ RetryHandler \/ Cloud \/ User \/ Crash
  BY <1>2, <1>3, <1>5, <1>6, OthersLeaveWorker
<1>7. CASE UNCHANGED ctlVars
  BY <1>2, <1>5, <1>7 DEF ctlVars, process, store, Counted
<1>8. QED
  BY <1>4, <1>6, <1>7 DEF CtlNext

\* Every step keeps the episodes served apart.
LEMMA EpisodeStep == CtlInv /\ [CtlNext]_ctlVars => HistoryType' /\ EpisodeInv'
<1> SUFFICES ASSUME CtlInv, [CtlNext]_ctlVars PROVE HistoryType' /\ EpisodeInv'
  OBVIOUS
<1>1. /\ HistoryType /\ EpisodeInv /\ MarkInv /\ wk.copy.name \in Clusters /\ wk.ep \in Nat
  BY DEF CtlInv, CtlTypeOK, WorkerType, CopyType
<1>2. /\ Counted
      /\ \/ UNCHANGED served
         \/ Marked /\ Serve(wk.copy.name) /\ UNCHANGED <<api, ep>>
  <2>1. CASE UNCHANGED ctlVars
    BY <2>1 DEF ctlVars, store, Counted
  <2>2. QED
    BY <2>1, WorkerServes, OthersLeaveWorker DEF CtlNext
<1>3. /\ ep' \in [Clusters -> Nat]
      /\ \A c \in Clusters :
           /\ ep'[c] \in {ep[c], ep[c] + 1}
           /\ IsPending(api'[c]) /\ ep'[c] = ep[c] => IsPending(api[c])
  BY <1>1, <1>2, CountedFacts
<1>4. CASE UNCHANGED served
  <2>1. HistoryType'
    BY <1>1, <1>3, <1>4 DEF HistoryType
  <2>2. ASSUME NEW c \in Clusters
        PROVE  /\ \A i \in DOMAIN served'[c] :
                    /\ served'[c][i] <= ep'[c]
                    /\ IsPending(api'[c]) => served'[c][i] # ep'[c]
               /\ IsInjective(served'[c])
    <3>1. IsInjective(served'[c])
      BY <1>1, <1>4 DEF EpisodeInv
    <3>2. ASSUME NEW i \in DOMAIN served[c]
          PROVE  /\ served[c][i] <= ep'[c]
                 /\ IsPending(api'[c]) => served[c][i] # ep'[c]
      <4>1. /\ served[c][i] \in Nat /\ ep[c] \in Nat
            /\ served[c][i] <= ep[c] /\ (IsPending(api[c]) => served[c][i] # ep[c])
        BY <1>1 DEF HistoryType, EpisodeInv
      <4>2. QED
        BY <1>3, <4>1
    <3>3. QED
      BY <1>4, <3>1, <3>2
  <2>3. QED
    BY <2>1, <2>2 DEF EpisodeInv
<1>5. CASE Marked /\ Serve(wk.copy.name) /\ UNCHANGED <<api, ep>>
  <2> DEFINE c == wk.copy.name
             s == served[c]
             t == Append(s, wk.ep)
  <2>1. /\ s \in Seq(Nat) /\ t \in Seq(Nat) /\ ep[c] \in Nat
        /\ DOMAIN s = 1 .. Len(s) /\ Len(s) \in Nat
        /\ DOMAIN t = 1 .. Len(s) + 1 /\ t[Len(s) + 1] = wk.ep
        /\ \A i \in 1 .. Len(s) : t[i] = s[i] /\ s[i] \in Nat
    <3>1. s \in Seq(Nat) /\ ep[c] \in Nat
      BY <1>1 DEF HistoryType
    <3> HIDE DEF s
    <3>2. DOMAIN s = 1 .. Len(s) /\ Len(s) \in Nat /\ \A i \in 1 .. Len(s) : s[i] \in Nat
      BY <3>1
    <3>3. t \in Seq(Nat) /\ Len(t) = Len(s) + 1
      BY <1>1, <3>1
    <3>4. t[Len(s) + 1] = wk.ep /\ \A i \in 1 .. Len(s) : t[i] = s[i]
      BY <1>1, <3>1
    <3>5. DOMAIN t = 1 .. Len(t)
      BY <3>3
    <3>6. QED
      BY <3>1, <3>2, <3>3, <3>4, <3>5, ZenonT(60)
  <2>2. served' = [served EXCEPT ![c] = t]
    BY <1>5 DEF Serve
  <2>3. served'[c] = t /\ \A d \in Clusters \ {c} : served'[d] = served[d]
    BY <1>1, <2>2 DEF HistoryType
  <2>4. /\ wk.ep <= ep[c] /\ (IsPending(api[c]) => wk.ep < ep[c])
        /\ \A i \in 1 .. Len(s) : s[i] # wk.ep
    BY <1>1, <1>5, <2>1, ZenonT(30) DEF MarkInv, Marked
  <2>5. /\ \A i \in 1 .. Len(s) : s[i] <= ep[c] /\ (IsPending(api[c]) => s[i] # ep[c])
        /\ \A i, j \in 1 .. Len(s) : s[i] = s[j] => i = j
    BY <1>1, <2>1, ZenonT(30) DEF EpisodeInv, IsInjective
  <2>6. HistoryType'
    BY <1>1, <1>5, <2>1, <2>2, ZenonT(60) DEF HistoryType
  <2> HIDE DEF s, t
  <2>7. \A i \in DOMAIN t : t[i] <= ep[c] /\ (IsPending(api[c]) => t[i] # ep[c])
    <3>1. \A i \in DOMAIN t : i \in 1 .. Len(s) \/ i = Len(s) + 1
      BY <2>1
    <3>2. \A i \in 1 .. Len(s) : t[i] <= ep[c] /\ (IsPending(api[c]) => t[i] # ep[c])
      BY <2>1, <2>5
    <3>3. t[Len(s) + 1] <= ep[c] /\ (IsPending(api[c]) => t[Len(s) + 1] # ep[c])
      BY <1>1, <2>1, <2>4
    <3>4. QED
      BY <3>1, <3>2, <3>3
  <2>8. IsInjective(t)
    <3>1. \A i \in DOMAIN t : i \in 1 .. Len(s) \/ i = Len(s) + 1
      BY <2>1
    <3>2. QED
      BY <2>1, <2>4, <2>5, <3>1, SMTT(30), ZenonT(40) DEF IsInjective
  <2>9. QED
    BY <1>1, <1>5, <2>3, <2>6, <2>7, <2>8 DEF EpisodeInv
<1>6. QED
  BY <1>2, <1>4, <1>5

-----------------------------------------------------------------------------
(* Every step keeps a pending request in somebody's hands.                  *)

\* The failures after which a request may be forgotten: the worker gives up its copy, and
\* the retry handler an update.
Forgetful == {"get", "api", "expiry"}

\* The updater r is on its way to take the state of c away from pending.
Ends(r, c) ==
  /\ r.pc \in {"resync", "write", "err"}
  /\ r.name = c /\ r.target = c
  /\ r.ann.set["state"] \notin Pending \cup {Absent} /\ "state" \notin r.ann.del
  /\ r.pc = "write" => r.obj["state"] \notin Pending

\* The worker in its last update, the handler or the retrier has such an updater, and the
\* reconcile loop has no pointer into it.
Holds(u, c) ==
  /\ \/ u \in retrying
     \/ u = hd
     \/ wk.pc = "finish" /\ u = wk.u
  /\ u \notin shared
  /\ Ends(upd[u], c)

\* The worker has taken the request: it has not called the provider, or its first update
\* is about to write the very object it has read.
Taken(c) ==
  /\ wk.copy.name = c
  /\ \/ wk.pc = "create"
     \/ wk.pc = "mark" /\ upd[wk.u].pc = "write" /\ upd[wk.u].rv = api[c].rv

Held(c) == c \in Range(queue) \/ Taken(c) \/ \E u \in Updaters : Holds(u, c)

HeldInv == \A c \in Clusters : IsPending(api[c]) => Held(c)

\* Events only add to the work queue, and a change to pending is an event.
LEMMA QueueGrows ==
  ASSUME queue \in Seq(Clusters), Observe \/ (Unobserved /\ UNCHANGED api), NEW c \in Clusters
  PROVE  /\ c \in Range(queue) => c \in Range(queue')
         /\ api'[c] # api[c] /\ IsPending(api'[c]) => c \in Range(queue')
<1>1. CASE Unobserved /\ UNCHANGED api
  BY <1>1 DEF Unobserved
<1>2. CASE Observe
  <2> DEFINE news == {d \in Clusters : api'[d] # api[d] /\ IsPending(api'[d])}
  <2>1. PICK order \in Orders(news) : queue' = queue \o order
    BY <1>2, ZenonT(40) DEF Observe
  <2>2. order \in Seq(Clusters) /\ Range(order) = news
    BY OrdersType
  <2>3. c \in news <=> api'[c] # api[c] /\ IsPending(api'[c])
    OBVIOUS
  <2> HIDE DEF news
  <2>4. /\ DOMAIN queue = 1 .. Len(queue) /\ DOMAIN order = 1 .. Len(order)
        /\ Len(queue) \in Nat /\ Len(order) \in Nat
        /\ DOMAIN queue' = 1 .. (Len(queue) + Len(order))
        /\ \A i \in 1 .. Len(queue) : queue'[i] = queue[i]
        /\ \A i \in 1 .. Len(order) : queue'[Len(queue) + i] = order[i]
    BY <2>1, <2>2
  <2>5. ASSUME c \in Range(queue) PROVE c \in Range(queue')
    <3>1. PICK i \in 1 .. Len(queue) : queue[i] = c
      BY <2>4, <2>5 DEF Range
    <3>2. i \in DOMAIN queue' /\ queue'[i] = c
      BY <2>4, <3>1
    <3> QED
      BY <3>2 DEF Range
  <2>6. ASSUME c \in Range(order) PROVE c \in Range(queue')
    <3>1. PICK i \in 1 .. Len(order) : order[i] = c
      BY <2>4, <2>6 DEF Range
    <3>2. Len(queue) + i \in DOMAIN queue' /\ queue'[Len(queue) + i] = c
      BY <2>4, <3>1
    <3> QED
      BY <3>2 DEF Range
  <2> QED
    BY <2>2, <2>3, <2>5, <2>6
<1> QED
  BY <1>1, <1>2

\* The worker takes one item from the queue.
LEMMA QueueTaken ==
  ASSUME queue \in Seq(Clusters), NEW c, Take(c), NEW d \in Range(queue), d # c
  PROVE  d \in Range(queue')
<1>1. queue # <<>> /\ c = queue[1] /\ queue' = Tail(queue)
  BY DEF Take
<1>2. PICK i \in 1 .. Len(queue) : queue[i] = d
  BY DEF Range
<1>3. i # 1 /\ Len(queue) \in Nat
  BY <1>1, <1>2
<1>4. i - 1 \in 1 .. Len(queue') /\ queue'[i - 1] = d /\ DOMAIN queue' = 1 .. Len(queue')
  BY <1>1, <1>2, <1>3
<1> QED
  BY <1>4 DEF Range

\* After its end the process is told of every pending cluster.
LEMMA DiesHeld ==
  ASSUME Dies
  PROVE  HeldInv'
<1> DEFINE S == {c \in Clusters : IsPending(api[c])}
<1>1. queue' \in Orders(S) /\ UNCHANGED api
  BY DEF Dies, Restart
<1>2. Range(queue') = S
  BY <1>1, OrdersType
<1> QED
  BY <1>1, <1>2 DEF HeldInv, Held

\* A step of update() takes the state away from pending, or goes on.
LEMMA EndsUpdates ==
  ASSUME TypeOK, NEW u \in Updaters, NEW c \in Clusters, Ends(upd[u], c), UpdateStep(u),
         IsPending(api'[c])
  PROVE  Ends(upd'[u], c)
<1> DEFINE r == upd[u]
<1>1. r \in Updater
  BY DEF TypeOK
<1>2. upd'[u].ann = r.ann /\ upd'[u].target = r.target /\ r.pc \in {"resync", "write"}
  BY UpdateStepFacts
<1>3. /\ r.name = c /\ r.target = c
      /\ r.ann.set["state"] \notin Pending \cup {Absent} /\ "state" \notin r.ann.del
      /\ r.pc = "write" => r.obj["state"] \notin Pending
  BY DEF Ends
<1>4. CASE Resync(u)
  <2>1. /\ upd'[u].name = c /\ upd'[u].pc = "write"
        /\ upd'[u].obj = ApplyAnnotation(api[c].obj, r.ann)
    BY <1>1, <1>3, <1>4 DEF Resync, TypeOK, Updater
  <2>2. ApplyAnnotation(api[c].obj, r.ann)["state"] = r.ann.set["state"]
    BY <1>3, FieldsAssumption DEF ApplyAnnotation
  <2> QED
    BY <1>2, <1>3, <2>1, <2>2 DEF Ends
<1>5. CASE ResyncFails(u) \/ WriteFails(u) \/ WriteUnacknowledged(u)
  <2>1. upd'[u] = Failed(r)
    BY <1>5, ZenonT(40) DEF ResyncFails, WriteFails, WriteUnacknowledged, TypeOK
  <2>2. Failed(r).pc = "err" /\ Failed(r).name = r.name
    BY <1>1, FailedFacts
  <2> QED
    BY <1>2, <1>3, <2>1, <2>2, ZenonT(60) DEF Ends
<1>6. CASE Write(u)
  <2>1. api' = Stored(c, TRUE, r.obj) /\ r.pc = "write"
    BY <1>3, <1>6 DEF Write
  <2>2. api'[c].obj = r.obj
    BY <1>1, <2>1, StoredFacts, ZenonT(40) DEF Updater
  <2> QED
    BY <1>3, <2>1, <2>2, ZenonT(30) DEF IsPending
<1>7. CASE Conflict(u)
  <2>1. upd'[u].name = r.name /\ upd'[u].pc \in {"resync", "err"}
    BY <1>1, <1>7 DEF Conflict, TypeOK, Updater
  <2> QED
    BY <1>2, <1>3, <2>1 DEF Ends
<1> QED
  BY <1>4, <1>5, <1>6, <1>7 DEF UpdateStep

\* The others end the process, or leave the worker and its updates under way alone.
LEMMA OthersHold ==
  ASSUME CtlInv, Faults \cap Forgetful = {},
         Reconcile \/ RetryHandler \/ Cloud \/ User \/ Crash
  PROVE  \/ Dies
         \/ /\ UNCHANGED wk
            /\ Observe \/ (Unobserved /\ UNCHANGED api)
            /\ \A u \in Updaters, c \in Clusters :
                 Holds(u, c) /\ IsPending(api'[c]) => Holds(u, c)'
<1>1. /\ TypeOK /\ OwnInv /\ CopyInv
      /\ wk.u \in Updaters \cup {None} /\ rc.u \in Updaters \cup {None}
      /\ hd \in Updaters \cup {None} /\ retrying \subseteq Updaters
  BY DEF CtlInv, CtlTypeOK, WorkerType, LoopType
<1>2. None \notin Updaters
  BY UpdatersAssumption DEF None
<1> DEFINE Seen == Observe \/ (Unobserved /\ UNCHANGED api)
           Kept == \A u \in Updaters, c \in Clusters :
                     Holds(u, c) /\ IsPending(api'[c]) => Holds(u, c)'
           Harmless == UNCHANGED wk /\ Seen /\ Kept
<1>3. ASSUME UNCHANGED wk, hd' = hd, retrying \subseteq retrying', shared' \subseteq shared,
             NEW v \in Updaters \cup {None}, v \notin {wk.u, hd} \cup retrying,
             \A u \in Updaters : u # v /\ u \notin shared => upd'[u] = upd[u]
      PROVE  Kept
  BY <1>1, <1>2, <1>3 DEF Holds
<1>4. ASSUME NEW v \in Updaters, UpdateStep(v)
      PROVE  Harmless
  <2>1. UNCHANGED <<wk, hd, retrying, shared>> /\ Seen
    BY <1>4 DEF UpdateStep, process
  <2>2. \A u \in Updaters \ {v} : upd'[u] = upd[u]
    BY <1>1, <1>4, UpdateStepFacts
  <2>3. ASSUME NEW u \in Updaters, NEW c \in Clusters, Holds(u, c), IsPending(api'[c])
        PROVE  Ends(upd'[u], c)
    BY <1>1, <1>4, <2>2, <2>3, EndsUpdates DEF Holds
  <2> QED
    BY <2>1, <2>3 DEF Holds
<1>5. CASE ReconcileLists \/ ReconcileEnds \/ ReconcileJoins
  <2>1. /\ UNCHANGED <<wk, hd, upd, api, retrying>> /\ Unobserved /\ shared' \subseteq shared
    BY <1>5 DEF ReconcileLists, ReconcileEnds, ReconcileJoins, Reconciles, store
  <2> QED
    BY <2>1 DEF Holds
<1>6. CASE ReconcileAdvances
  <2>1. /\ UNCHANGED <<wk, hd, api, retrying, shared>> /\ Unobserved
        /\ \A u \in Updaters : u \notin shared => upd'[u] = upd[u]
    BY <1>1, <1>6 DEF ReconcileAdvances, Reconciles, Alias
  <2> QED
    BY <2>1 DEF Holds
<1>7. CASE ReconcileValidates
  <2>1. UNCHANGED <<wk, hd, retrying>> /\ Unobserved
    BY <1>7, ZenonT(30) DEF ReconcileValidates, Reconciles
  <2>2. \/ UNCHANGED <<store, shared>>
        \/ \E v \in Updaters : \E ann : Begin(v, rc.copy, ann) /\ shared' = shared \cup {v}
    BY <1>7, ZenonT(30) DEF ReconcileValidates
  <2>3. CASE UNCHANGED <<store, shared>>
    BY <2>1, <2>3 DEF Holds, store
  <2>4. ASSUME NEW v \in Updaters, NEW ann, Begin(v, rc.copy, ann),
               shared' = shared \cup {v}
        PROVE  Harmless
    <3>1. /\ upd[v].pc = "free" /\ UNCHANGED api
          /\ \A u \in Updaters : u # v => upd'[u] = upd[u]
      BY <1>1, <2>4 DEF Begin, Start, TypeOK
    <3>2. \A u \in Updaters, c \in Clusters : Holds(u, c) => u # v
      BY <3>1 DEF Holds, Ends
    <3> QED
      BY <2>1, <2>4, <3>1, <3>2 DEF Holds
  <2> QED
    BY <2>2, <2>3, <2>4
<1>8. CASE ReconcileUpdated
  <2>1. rc.u \in Updaters /\ rc.u \notin {wk.u, hd} \cup retrying
    BY <1>1, <1>2, <1>8 DEF ReconcileUpdated, OwnInv
  <2>2. Finish(rc.u) /\ UNCHANGED <<wk, hd>> /\ Unobserved
    BY <1>8 DEF ReconcileUpdated, Reconciles
  <2>3. /\ UNCHANGED api /\ retrying \subseteq retrying' /\ shared' \subseteq shared
        /\ \A u \in Updaters : u # rc.u => upd'[u] = upd[u]
    BY <1>1, <2>1, <2>2, ReleaseFacts, ZenonT(60) DEF Finish, store
  <2>4. Kept
    BY <1>3, <2>1, <2>2, <2>3, ZenonT(60)
  <2> QED
    BY <2>2, <2>3, <2>4
<1>9. CASE ReconcilePanics \/ Crash
  BY <1>9, ZenonT(60) DEF ReconcilePanics, Crash
<1>10. CASE ResetDeletes \/ ResetRefetches \/ ResetCreates
  <2>1. UNCHANGED <<wk, hd, upd, retrying, shared>> /\ Observe
    BY <1>10, ZenonT(30)
       DEF ResetDeletes, ResetRefetches, ResetCreates, Resets, ForeignWrite, store
  <2> QED
    BY <2>1 DEF Holds
<1>11. CASE Updating(rc.u) \/ Updating(hd)
  BY <1>1, <1>4, <1>11 DEF Updating
<1>12. ASSUME NEW v \in Updaters, HandlerRetries(v)
       PROVE  Harmless
  <2>1. /\ hd = None /\ v \in retrying /\ Retry(v) /\ hd' = v /\ retrying' = retrying \ {v}
        /\ UNCHANGED <<wk, shared>> /\ Unobserved
    BY <1>12 DEF HandlerRetries
  <2>2. upd'[v] = Entered(upd[v]) /\ UNCHANGED api /\ \A u \in Updaters \ {v} : upd'[u] = upd[u]
    BY <1>1, <2>1 DEF Retry, TypeOK
  <2>3. upd[v] \in Updater /\ upd[v].needsResync
    BY <1>1, <2>1, ZenonT(60) DEF OwnInv, CopyInv, CopyOK, TypeOK
  <2>4. ASSUME NEW c \in Clusters, Ends(upd[v], c)
        PROVE  Ends(upd'[v], c)
    <3>1. /\ Entered(upd[v]).name = c /\ Entered(upd[v]).ann = upd[v].ann
          /\ Touched(upd[v].ann) # {}
      BY <2>3, <2>4, EnteredFacts, FieldsAssumption, ZenonT(60) DEF Ends, Touched
    <3>2. Entered(upd[v]).pc = "resync" /\ Entered(upd[v]).target = c
      BY <2>3, <2>4, <3>1 DEF Ends, Entered, Updater
    <3> QED
      BY <2>2, <2>4, <3>1, <3>2, ZenonT(60) DEF Ends
  <2>5. ASSUME NEW u \in Updaters, NEW c \in Clusters, Holds(u, c)
        PROVE  Holds(u, c)'
    <3>1. CASE u = v
      BY <2>1, <2>4, <2>5, <3>1 DEF Holds
    <3>2. CASE u # v
      BY <1>2, <2>1, <2>2, <2>5, <3>2 DEF Holds
    <3> QED
      BY <3>1, <3>2
  <2> QED
    BY <2>1, <2>2, <2>5
<1>13. ASSUME NEW v \in Updaters, HandlerDrops(v)
       PROVE  FALSE
  BY <1>13 DEF HandlerDrops, Fault, Forgetful
<1>14. CASE HandlerFinishes
  <2>1. hd \in Updaters /\ hd # wk.u /\ Finish(hd) /\ hd' = None /\ UNCHANGED wk /\ Unobserved
    BY <1>1, <1>2, <1>14 DEF HandlerFinishes, OwnInv
  <2>2. /\ UNCHANGED api /\ retrying \subseteq retrying' /\ shared' \subseteq shared
        /\ \A u \in Updaters \ {hd} : upd'[u] = upd[u]
        /\ upd[hd].pc = "ok" \/ (UNCHANGED upd /\ hd \in retrying')
    BY <1>1, <2>1, ReleaseFacts DEF Finish, store
  <2>3. ASSUME NEW u \in Updaters, NEW c \in Clusters, Holds(u, c)
        PROVE  Holds(u, c)'
    <3>1. upd'[u] = upd[u] /\ (u = hd => u \in retrying')
      BY <2>2, <2>3 DEF Holds, Ends
    <3> QED
      BY <2>1, <2>2, <2>3, <3>1 DEF Holds
  <2> QED
    BY <2>1, <2>2, <2>3, ZenonT(60)
<1>15. CASE Cloud \/ User
  <2>1. UNCHANGED <<wk, hd, upd, retrying, shared>> /\ Seen
    BY <1>15, ZenonT(30) DEF Cloud, CloudBuilds, User, UserAnnotates, UserRequests, UserWrites,
       ForeignWrite, store, process
  <2> QED
    BY <2>1 DEF Holds
<1> QED
  BY <1>5, <1>6, <1>7, <1>8, <1>9, <1>10, <1>11, <1>12, <1>13, <1>14, <1>15, ZenonT(60)
     DEF Reconcile, RetryHandler

\* What a provider asks for when it creates a cluster deletes no annotation.
LEMMA CreateKeepsState ==
  ASSUME NEW class, NEW s, NEW obj, NEW r \in CreateKubeCluster(class, s, obj)
  PROVE  r.ann.del = {}
<1>1. NoChange.del = {} /\ NodeCount.del = {} /\ \A g : Set(g).del = {}
  BY DEF NoChange, NodeCount, Set
<1>2. r \in KopsCreate(s) \/ r \in OkeCreate(s)
  BY DEF CreateKubeCluster
<1>3. r.ann \in {NoChange, NodeCount}
                  \cup {Set([id |-> i, work |-> i, nodes |-> "n"]) : i \in Ids}
  <2>1. CASE r \in KopsCreate(s)
    <3>1. \/ \E inst : r = Fine(inst, NodeCount) \/ r = Fine(inst, NoChange)
          \/ \E inst : r = Broken(inst) \/ r = Refused(inst, NoChange)
      BY <2>1 DEF KopsCreate, BrokenAt
    <3> QED
      BY <3>1 DEF Fine, Broken, Refused, Result
  <2>2. CASE r \in OkeCreate(s)
    <3> DEFINE new == {i \in Ids : s[i] = "none"}
               i == CHOOSE i \in new : TRUE
    <3>1. \/ \E inst : r = Broken(inst)
          \/ new # {} /\ \E inst : r = Fine(inst, Set([id |-> i, work |-> i, nodes |-> "n"]))
      BY <2>2, ZenonT(30) DEF OkeCreate
    <3>2. new # {} => i \in Ids
      OBVIOUS
    <3> HIDE DEF new, i
    <3> QED
      BY <3>1, <3>2 DEF Fine, Broken, Result
  <2> QED
    BY <1>2, <2>1, <2>2
<1> QED
  BY <1>1, <1>3, ZenonT(30)

\* An updater that starts with a change of the state is about to write it.
LEMMA BeginEnds ==
  ASSUME TypeOK, NEW u \in Updaters, NEW copy \in CopyType, NEW ann \in ClusterAnnotation,
         Begin(u, copy, ann), ann.set["state"] \notin Pending \cup {Absent},
         "state" \notin ann.del
  PROVE  /\ Ends(upd'[u], copy.name)
         /\ upd'[u].pc = "write" /\ upd'[u].rv = copy.rv
<1> DEFINE r == [New(copy.name) EXCEPT !.rv = copy.rv, !.obj = copy.obj, !.ann = ann]
<1>1. copy.name \in Clusters /\ copy.rv \in Nat /\ copy.obj \in Object
  BY DEF CopyType
<1>2. r \in Updater
  <2>1. New(copy.name) \in Updater
    BY <1>1, NewType
  <2> QED
    BY <1>1, <2>1, ZenonT(30) DEF Updater
<1>3. /\ r.name = copy.name /\ r.rv = copy.rv /\ r.obj = copy.obj /\ r.ann = ann
      /\ r.needsResync = FALSE
  BY DEF New
<1>4. upd'[u] = Entered(r)
  BY BeginFacts, ZenonT(30)
<1> HIDE DEF r
<1>5. Touched(ann) # {}
  BY FieldsAssumption DEF Touched
<1>6. /\ upd'[u].pc = "write" /\ upd'[u].name = copy.name /\ upd'[u].target = copy.name
      /\ upd'[u].rv = copy.rv /\ upd'[u].ann = ann
      /\ upd'[u].obj = ApplyAnnotation(copy.obj, ann)
  BY <1>2, <1>3, <1>4, <1>5 DEF Entered, Updater
<1>7. ApplyAnnotation(copy.obj, ann)["state"] = ann.set["state"]
  BY FieldsAssumption DEF ApplyAnnotation
<1> QED
  BY <1>6, <1>7 DEF Ends

\* createCluster() goes on to an update that ends the request.
LEMMA CreatesHeld ==
  ASSUME CtlInv, NEW u \in Updaters, NEW c \in Clusters, wk.copy.name = c, WorkerCreates(u)
  PROVE  /\ Holds(u, c)' /\ upd[u].pc = "free" /\ UNCHANGED api
         /\ \A v \in Updaters \ {u} : upd'[v] = upd[v]
<1> DEFINE good == Set([state |-> "provisioning"])
           failed == Set([state |-> "failed-provision"])
           ann(r) == IF r.ok THEN Merge(r.ann, good) ELSE failed
<1>1. /\ TypeOK /\ OwnInv /\ wk.copy \in CopyType /\ wk.copy.obj \in Object
      /\ cloud \in [Clusters -> Instances]
  BY DEF CtlInv, CtlTypeOK, WorkerType, CopyType
<1>2. PICK r \in CreateKubeCluster(Class[c], cloud[c], wk.copy.obj) : Begin(u, wk.copy, ann(r))
  BY ZenonT(60) DEF WorkerCreates
<1>3. r \in ProviderResult /\ r.ann.del = {}
  BY <1>1, <1>2, CreateType, CreateKeepsState, ZenonT(30)
<1>4. /\ good \in ClusterAnnotation /\ failed \in ClusterAnnotation
      /\ good.del = {} /\ failed.del = {}
      /\ good.set["state"] = "provisioning" /\ failed.set["state"] = "failed-provision"
  BY StateValues, SetStateType, FieldsAssumption, ZenonT(30) DEF InFlight, Settled, Set
<1>5. /\ {"provisioning", "failed-provision"} \cap Pending = {}
      /\ "provisioning" # Absent /\ "failed-provision" # Absent
  BY StateValues, AbsentAssumption DEF Pending, InFlight, Settled
<1> HIDE DEF good, failed
<1>6. /\ Merge(r.ann, good) \in ClusterAnnotation
      /\ Merge(r.ann, good).set["state"] = "provisioning" /\ Merge(r.ann, good).del = {}
  BY <1>3, <1>4, <1>5, MergeType, FieldsAssumption, ZenonT(30) DEF Merge, ProviderResult
<1>7. /\ ann(r) \in ClusterAnnotation /\ ann(r).set["state"] \notin Pending \cup {Absent}
      /\ "state" \notin ann(r).del
  BY <1>4, <1>5, <1>6, ZenonT(60)
<1> HIDE DEF ann
<1>8. Ends(upd'[u], c)
  BY <1>1, <1>2, <1>7, BeginEnds, ZenonT(30)
<1>9. upd[u].pc = "free" /\ UNCHANGED api /\ \A v \in Updaters \ {u} : upd'[v] = upd[v]
  BY <1>1, <1>2, <1>7, BeginFacts, ZenonT(30)
<1>10. wk' = Finishing(u) /\ UNCHANGED shared
  BY ZenonT(30) DEF WorkerCreates
<1>11. wk'.pc = "finish" /\ wk'.u = u
  BY <1>10 DEF Finishing, IdleWorker
<1>12. u \notin shared
  BY <1>1, <1>9, ZenonT(30) DEF OwnInv
<1>13. Holds(u, c)'
  BY <1>8, <1>10, <1>11, <1>12 DEF Holds
<1> QED
  BY <1>9, <1>13

\* The worker.
LEMMA WorkerHeld ==
  ASSUME CtlInv, HeldInv, Faults \cap Forgetful = {}, Worker
  PROVE  HeldInv'
<1>1. /\ TypeOK /\ OwnInv /\ queue \in Seq(Clusters) /\ wk \in WorkerType
      /\ wk.copy.name \in Clusters /\ wk.u \in Updaters \cup {None}
      /\ hd \in Updaters \cup {None} /\ retrying \subseteq Updaters
  BY DEF CtlInv, CtlTypeOK, WorkerType, CopyType
<1>2. None \notin Updaters
  BY UpdatersAssumption DEF None
<1>3. IdleWorker.pc = "idle" /\ \A u : Finishing(u).pc = "finish" /\ Finishing(u).u = u
  BY DEF IdleWorker, Finishing
<1>4. ASSUME NEW c \in Clusters, Take(c), UNCHANGED api,
             \A u \in Updaters : upd[u].pc # "free" => upd'[u] = upd[u],
             IsPending(api[c]) => Held(c)'
      PROVE  HeldInv'
  <2>1. wk.pc = "idle" /\ UNCHANGED <<hd, retrying, shared>>
    BY <1>4, ZenonT(60) DEF Take
  <2>2. ASSUME NEW d \in Clusters, NEW u \in Updaters, Holds(u, d) PROVE Holds(u, d)'
    BY <1>4, <2>1, <2>2 DEF Holds, Ends
  <2>3. ASSUME NEW d \in Clusters, IsPending(api[d]), d # c PROVE Held(d)'
    <3>1. d \in Range(queue) \/ \E u \in Updaters : Holds(u, d)
      BY <2>1, <2>3, ZenonT(30) DEF HeldInv, Held, Taken
    <3> QED
      BY <1>1, <1>4, <2>2, <2>3, <3>1, QueueTaken DEF Held
  <2> QED
    BY <1>4, <2>3, ZenonT(60) DEF HeldInv
<1>5. ASSUME NEW c \in Clusters, WorkerDrops(c)
      PROVE  HeldInv'
  <2>1. Take(c) /\ UNCHANGED <<api, upd>>
    BY <1>5 DEF WorkerDrops, store
  <2>2. ~IsPending(api[c])
    BY <1>5 DEF WorkerDrops, Fails, Fault, Forgetful, IsPending, State
  <2> QED
    BY <1>4, <2>1, <2>2
<1>6. ASSUME NEW c \in Clusters, WorkerTakesCreate(c)
      PROVE  HeldInv'
  <2>1. Take(c) /\ UNCHANGED <<api, upd>> /\ wk' = Working("create", c, None)
    BY <1>6 DEF WorkerTakesCreate, store
  <2>2. wk'.pc = "create" /\ wk'.copy.name = c
    BY <2>1 DEF Working, Copy
  <2>3. Held(c)'
    BY <2>2 DEF Held, Taken
  <2> QED
    BY <1>4, <2>1, <2>3
<1>7. ASSUME NEW c \in Clusters, NEW u \in Updaters, WorkerMarks(c, u)
      PROVE  HeldInv'
  <2> DEFINE ann == Set([state |-> Marks[State(c)]])
  <2>1. /\ Take(c) /\ Begin(u, Copy(c), ann) /\ State(c) \in DOMAIN Marks
        /\ wk' = Working("mark", c, u)
    BY <1>7 DEF WorkerMarks
  <2>2. /\ ann \in ClusterAnnotation /\ ann.del = {}
        /\ ann.set["state"] \notin Pending \cup {Absent}
    BY <2>1, MarkSets, ZenonT(30)
  <2> HIDE DEF ann
  <2>3. Copy(c) \in CopyType /\ Copy(c).rv = api[c].rv
    BY <1>1 DEF Copy, CopyType, TypeOK
  <2>4. /\ upd[u].pc = "free" /\ UNCHANGED api /\ \A v \in Updaters \ {u} : upd'[v] = upd[v]
    BY <1>1, <2>1, <2>2, <2>3, BeginFacts, ZenonT(30)
  <2>5. upd'[u].pc = "write" /\ upd'[u].rv = api[c].rv
    BY <1>1, <2>1, <2>2, <2>3, BeginEnds, ZenonT(30)
  <2>6. wk'.pc = "mark" /\ wk'.copy.name = c /\ wk'.u = u
    BY <2>1, ZenonT(30) DEF Working, Copy
  <2>7. Held(c)'
    BY <2>4, <2>5, <2>6, ZenonT(30) DEF Held, Taken
  <2> QED
    BY <1>4, <2>1, <2>4, <2>7, ZenonT(30)
<1>8. ASSUME NEW u \in Updaters, WorkerCreates(u)
      PROVE  HeldInv'
  <2>1. PICK c \in Clusters : wk.copy.name = c
    BY <1>1
  <2>2. /\ Holds(u, c)' /\ upd[u].pc = "free" /\ UNCHANGED api
        /\ \A v \in Updaters \ {u} : upd'[v] = upd[v]
    BY <1>8, <2>1, CreatesHeld
  <2>3. wk.pc = "create" /\ UNCHANGED <<queue, hd, retrying, shared>>
    BY <1>8 DEF WorkerCreates, Unobserved
  <2>4. ASSUME NEW d \in Clusters, NEW v \in Updaters, Holds(v, d) PROVE Holds(v, d)'
    <3>1. v # u
      BY <2>2, <2>4 DEF Holds, Ends
    <3> QED
      BY <2>2, <2>3, <2>4, <3>1 DEF Holds
  <2>5. ASSUME NEW d \in Clusters, IsPending(api[d]) PROVE Held(d)'
    <3>1. CASE d = c
      BY <2>2, <3>1 DEF Held
    <3>2. CASE d # c
      BY <2>1, <2>3, <2>4, <2>5, <3>2 DEF HeldInv, Held, Taken
    <3> QED
      BY <3>1, <3>2
  <2> QED
    BY <2>2, <2>5 DEF HeldInv
<1>9. ASSUME wk.u \in Updaters, UNCHANGED <<api, queue, hd, retrying, shared>>,
             \A v \in Updaters \ {wk.u} : upd'[v] = upd[v],
             \/ wk.pc = "secret"
             \/ wk.pc = "mark" /\ upd[wk.u].pc # "write"
      PROVE  HeldInv'
  <2>1. ASSUME NEW d \in Clusters, NEW v \in Updaters, Holds(v, d) PROVE Holds(v, d)'
    <3>1. v # wk.u /\ wk.pc # "finish"
      BY <1>1, <1>2, <1>9, <2>1, ZenonT(30) DEF Holds, OwnInv
    <3> QED
      BY <1>9, <2>1, <3>1 DEF Holds
  <2>2. ASSUME NEW d \in Clusters, IsPending(api[d]) PROVE Held(d)'
    BY <1>9, <2>1, <2>2, ZenonT(30) DEF HeldInv, Held, Taken
  <2> QED
    BY <1>9, <2>2 DEF HeldInv
<1>10. wk.pc \in {"mark", "secret", "finish"} => wk.u \in Updaters
  BY <1>1, <1>2 DEF OwnInv
<1>11. CASE WorkerAborts
  <2>1. /\ wk.u \in Updaters /\ Release(wk.u) /\ wk.pc = "mark" /\ upd[wk.u].pc = "err"
        /\ UNCHANGED <<queue, hd, retrying, shared>>
    BY <1>10, <1>11, ZenonT(60) DEF WorkerAborts, Unobserved
  <2>2. UNCHANGED api /\ \A v \in Updaters \ {wk.u} : upd'[v] = upd[v]
    BY <1>1, <2>1, ReleaseFacts
  <2> QED
    BY <1>9, <2>1, <2>2, ZenonT(30)
<1>12. CASE WorkerDeletes
  <2>1. /\ wk.u \in Updaters /\ (UNCHANGED store \/ Release(wk.u))
        /\ wk.pc = "mark" /\ upd[wk.u].pc = "ok" /\ UNCHANGED <<queue, hd, retrying, shared>>
    BY <1>10, <1>12 DEF WorkerDeletes, Marked, Unobserved
  <2>2. UNCHANGED api /\ \A v \in Updaters \ {wk.u} : upd'[v] = upd[v]
    BY <1>1, <2>1, ReleaseFacts DEF store
  <2> QED
    BY <1>9, <2>1, <2>2
<1>13. CASE WorkerDeletesSecret \/ WorkerScales
  <2>1. /\ wk.u \in Updaters /\ \E ann : Reuse(wk.u, ann)
        /\ UNCHANGED <<queue, hd, retrying, shared>>
        /\ \/ wk.pc = "secret"
           \/ wk.pc = "mark" /\ upd[wk.u].pc # "write"
    BY <1>10, <1>13, ZenonT(40)
       DEF WorkerDeletesSecret, WorkerScales, Marked, Unobserved
  <2>2. UNCHANGED api /\ \A v \in Updaters \ {wk.u} : upd'[v] = upd[v]
    BY <1>1, <2>1 DEF Reuse, TypeOK
  <2> QED
    BY <1>9, <2>1, <2>2
<1>14. CASE WorkerPanics
  BY <1>14, DiesHeld DEF WorkerPanics
<1>15. CASE WorkerFinishes
  <2>1. /\ wk.pc = "finish" /\ wk.u \in Updaters /\ Finish(wk.u)
        /\ UNCHANGED <<queue, hd>>
    BY <1>10, <1>15 DEF WorkerFinishes, Unobserved
  <2>2. /\ UNCHANGED api /\ retrying \subseteq retrying' /\ shared' \subseteq shared
        /\ \A u \in Updaters \ {wk.u} : upd'[u] = upd[u]
        /\ upd[wk.u].pc = "ok" \/ (UNCHANGED upd /\ wk.u \in retrying')
    BY <1>1, <2>1, ReleaseFacts, ZenonT(30) DEF Finish, store
  <2>3. ASSUME NEW u \in Updaters, NEW c \in Clusters, Holds(u, c)
        PROVE  Holds(u, c)'
    <3>1. upd'[u] = upd[u] /\ (u = wk.u => u \in retrying')
      BY <2>2, <2>3 DEF Holds, Ends
    <3> QED
      BY <2>1, <2>2, <2>3, <3>1 DEF Holds
  <2> QED
    BY <2>1, <2>2, <2>3, ZenonT(30) DEF HeldInv, Held, Taken
<1>16. CASE Updating(wk.u)
  <2>1. wk.u \in Updaters /\ UpdateStep(wk.u)
    BY <1>1, <1>16 DEF Updating
  <2>2. UNCHANGED <<wk, hd, retrying, shared>> /\ Observe
    BY <2>1, ZenonT(30) DEF UpdateStep, process
  <2>3. \A v \in Updaters \ {wk.u} : upd'[v] = upd[v]
    BY <1>1, <2>1, UpdateStepFacts
  <2>4. ASSUME NEW u \in Updaters, NEW c \in Clusters, Holds(u, c), IsPending(api'[c])
        PROVE  Holds(u, c)'
    <3>1. Ends(upd'[u], c)
      BY <1>1, <2>1, <2>3, <2>4, EndsUpdates DEF Holds
    <3> QED
      BY <2>2, <2>4, <3>1 DEF Holds
  <2>5. ASSUME NEW c \in Clusters, Taken(c), IsPending(api[c]), api'[c] = api[c]
        PROVE  FALSE
    <3>1. /\ wk.pc = "mark" /\ wk.copy.name = c
          /\ upd[wk.u].pc = "write" /\ upd[wk.u].rv = api[c].rv
      BY <1>1, <1>2, <2>1, <2>5, ZenonT(30) DEF Taken, OwnInv
    <3>2. upd[wk.u].name = c /\ upd[wk.u].obj["state"] \notin Pending /\ upd[wk.u] \in Updater
      BY <1>1, <2>1, <3>1, ZenonT(30) DEF CtlInv, MarkInv, TypeOK
    <3>3. api[c].live
      BY <2>5 DEF IsPending
    <3>4. CASE Write(wk.u) \/ WriteUnacknowledged(wk.u)
      <4>1. api' = Stored(c, TRUE, upd[wk.u].obj)
        BY <3>2, <3>4, ZenonT(30) DEF Write, WriteUnacknowledged
      <4>2. upd[wk.u].obj \in Object
        BY <3>2 DEF Updater
      <4>3. api'[c].obj = upd[wk.u].obj
        BY <1>1, <4>1, <4>2, StoredFacts, ZenonT(30)
      <4> QED
        BY <2>5, <3>2, <4>3, ZenonT(30) DEF IsPending
    <3>5. CASE WriteFails(wk.u) /\ Fails(~api[upd[wk.u].name].live, "api")
      BY <3>2, <3>3, <3>5 DEF Fails, Fault, Forgetful
    <3> QED
      BY <2>1, <3>1, <3>2, <3>4, <3>5 DEF UpdateStep, Resync, ResyncFails, Conflict
  <2>6. ASSUME NEW c \in Clusters, IsPending(api'[c]) PROVE Held(c)'
    <3>1. CASE api'[c] # api[c]
      BY <1>1, <2>2, <2>6, <3>1, QueueGrows DEF Held
    <3>2. CASE api'[c] = api[c]
      <4>1. IsPending(api[c])
        BY <2>6, <3>2
      <4>2. c \in Range(queue) \/ \E u \in Updaters : Holds(u, c)
        BY <2>5, <3>2, <4>1 DEF HeldInv, Held
      <4> QED
        BY <1>1, <2>2, <2>4, <2>6, <4>2, QueueGrows DEF Held
    <3> QED
      BY <3>1, <3>2
  <2> QED
    BY <2>6 DEF HeldInv
<1> QED
  BY <1>5, <1>6, <1>7, <1>8, <1>11, <1>12, <1>13, <1>14, <1>15, <1>16 DEF Worker

\* Every step keeps every pending request in somebody's hands, if none of the failures
\* happens that make one forgotten.
LEMMA HeldStep ==
  ASSUME Faults \cap Forgetful = {}
  PROVE  CtlInv /\ HeldInv /\ [CtlNext]_ctlVars => HeldInv'
<1> SUFFICES ASSUME CtlInv, HeldInv, [CtlNext]_ctlVars PROVE HeldInv'
  OBVIOUS
<1>1. CASE UNCHANGED ctlVars
  <2>1. UNCHANGED <<api, upd, queue, wk, hd, retrying, shared>>
    BY <1>1 DEF ctlVars, store, process
  <2> QED
    BY <2>1, ZenonT(30) DEF HeldInv, Held, Taken, Holds
<1>2. CASE Worker
  BY <1>2, WorkerHeld
<1>3. CASE Reconcile \/ RetryHandler \/ Cloud \/ User \/ Crash
  <2>1. queue \in Seq(Clusters) /\ OwnInv
    BY DEF CtlInv, CtlTypeOK
  <2>2. ASSUME UNCHANGED wk, Observe \/ (Unobserved /\ UNCHANGED api),
               \A u \in Updaters, c \in Clusters :
                 Holds(u, c) /\ IsPending(api'[c]) => Holds(u, c)',
               NEW c \in Clusters, IsPending(api'[c])
        PROVE  Held(c)'
    <3>1. CASE api'[c] # api[c]
      BY <2>1, <2>2, <3>1, QueueGrows DEF Held
    <3>2. CASE api'[c] = api[c]
      <4>1. IsPending(api[c])
        BY <2>2, <3>2
      <4>2. CASE c \in Range(queue)
        BY <2>1, <2>2, <4>2, QueueGrows DEF Held
      <4>3. CASE Taken(c)
        <5>1. wk.pc \in {"create", "mark"} /\ wk' = wk
          BY <2>2, <4>3 DEF Taken
        <5>2. wk' # IdleWorker
          BY <5>1 DEF IdleWorker
        <5>3. wk.u # None => upd'[wk.u] = upd[wk.u]
          BY <1>3, <5>2, OthersLeaveWorker
        <5>4. Taken(c)'
          BY <2>1, <3>2, <4>3, <5>1, <5>3 DEF Taken, OwnInv
        <5> QED
          BY <5>4 DEF Held
      <4>4. CASE \E u \in Updaters : Holds(u, c)
        BY <2>2, <4>4 DEF Held
      <4> QED
        BY <4>1, <4>2, <4>3, <4>4 DEF HeldInv, Held
    <3> QED
      BY <3>1, <3>2
  <2>3. CASE Dies
    BY <2>3, DiesHeld
  <2> QED
    BY <1>3, <2>2, <2>3, OthersHold DEF HeldInv
<1> QED
  BY <1>1, <1>2, <1>3 DEF CtlNext

-----------------------------------------------------------------------------
(* The initial states.                                                      *)

\* What the process finds is an object.
LEMMA FoundType ==
  ASSUME NEW c \in Clusters, NEW state \in Found
  PROVE  FoundObject(c, state) \in Object
<1>1. /\ state \in Values /\ "n" \in Values /\ KopsId \in Values
  <2>1. KopsId \in Ids
    BY IdsAssumption DEF KopsId
  <2>2. state \in Settled
    BY FoundAssumption DEF Settled
  <2>3. QED
    BY <2>1, <2>2, ValuesAssumption
<1>2. Set([state |-> state]) \in ClusterAnnotation
  BY <1>1, SetStateType
<1>3. Set([state |-> state, nodes |-> "n"]) \in ClusterAnnotation
  <2>1. \A f \in DOMAIN [state |-> state, nodes |-> "n"] :
          [state |-> state, nodes |-> "n"][f] \in Values
    BY <1>1
  <2>2. QED
    BY <2>1, SetType
<1>4. Set([state |-> state, nodes |-> "n", id |-> KopsId]) \in ClusterAnnotation
  <2>1. \A f \in DOMAIN [state |-> state, nodes |-> "n", id |-> KopsId] :
          [state |-> state, nodes |-> "n", id |-> KopsId][f] \in Values
    BY <1>1
  <2>2. QED
    BY <2>1, SetType
<1>5. QED
  BY <1>2, <1>3, <1>4 DEF FoundObject, ClusterAnnotation

\* The controller starts where its updaters do.
LEMMA CtlInitInit == CtlInit => Init
<1> SUFFICES ASSUME CtlInit PROVE Init
  OBVIOUS
<1>1. PICK found \in [Clusters -> Found] :
        api = [c \in Clusters |->
                 [live |-> TRUE, rv |-> 0, obj |-> FoundObject(c, found[c])]]
  BY ZenonT(30) DEF CtlInit
<1>2. \A c \in Clusters : FoundObject(c, found[c]) \in Object
  BY FoundType
<1>3. QED
  BY <1>1, <1>2 DEF CtlInit, Init

\* The invariant holds at the start.
LEMMA CtlInitInv == CtlInit => CtlInv
<1> SUFFICES ASSUME CtlInit PROVE CtlInv
  OBVIOUS
<1>1. TypeOK /\ CopyInv
  BY CtlInitInit, InitInv
<1>2. \A u \in Updaters : upd[u].pc = "free"
  BY DEF CtlInit, NoUpdater, New
<1>3. None \notin Updaters
  BY UpdatersAssumption DEF None
<1>4. /\ wk = IdleWorker /\ rc = IdleLoop /\ hd = None /\ retrying = {} /\ shared = {}
      /\ queue = <<>> /\ faults = 0
      /\ ep = [c \in Clusters |-> 0] /\ served = [c \in Clusters |-> <<>>]
  BY DEF CtlInit
<1>5. /\ IdleWorker.pc = "idle" /\ IdleWorker.u = None
      /\ IdleLoop.pc = "idle" /\ IdleLoop.u = None
  BY DEF IdleWorker, IdleLoop
<1>6. cloud \in [Clusters -> Instances] /\ secrets \subseteq Clusters
  <2>1. PICK found \in [Clusters -> Found] :
          /\ secrets = {c \in Clusters : found[c] = "ready"}
          /\ cloud = [c \in Clusters |->
                        [i \in Ids |-> IF found[c] = "ready" /\ i = KopsId
                                       THEN "running" ELSE "none"]]
    BY DEF CtlInit
  <2>2. QED
    BY <2>1 DEF Instances, Status, Stopped
<1>7. CtlTypeOK
  BY <1>1, <1>4, <1>6, IdleTypes, MaxFaultsAssumption DEF CtlTypeOK
<1>8. OwnInv
  BY <1>2, <1>3, <1>4, <1>5 DEF OwnInv
<1>9. HistoryType /\ EpisodeInv
  BY <1>4 DEF HistoryType, EpisodeInv, IsInjective
<1>10. TriesInv /\ MarkInv
  BY <1>4, <1>5 DEF TriesInv, MarkInv
<1>11. QED
  BY <1>1, <1>7, <1>8, <1>9, <1>10 DEF CtlInv

-----------------------------------------------------------------------------
(* Objects between the two calls of resetCluster().                         *)

\* The failures that may keep an object from being created again.
Losing == {"reset", "lost", "crash"}

\* An update deletes no object.
LEMMA UpdateKeepsLive ==
  ASSUME CtlInv, NEW u, UpdateStep(u), NEW c \in Clusters, api[c].live
  PROVE  api'[c].live
<1>1. api \in [Clusters -> [live : BOOLEAN, rv : Nat, obj : Object]]
  BY DEF CtlInv, CtlTypeOK, TypeOK
<1>2. CASE Write(u) \/ WriteUnacknowledged(u)
  <2>1. api' = Stored(upd[u].name, TRUE, upd[u].obj)
    BY <1>2, ZenonT(30) DEF Write, WriteUnacknowledged
  <2> QED
    BY <1>1, <2>1 DEF Stored
<1>3. CASE ~(Write(u) \/ WriteUnacknowledged(u))
  BY <1>3 DEF UpdateStep, Resync, ResyncFails, Conflict, WriteFails
<1> QED
  BY <1>2, <1>3

\* The worker, the retry handler, the cloud and the users delete nothing, and leave the
\* loop alone.
LEMMA OthersKeepLive ==
  ASSUME CtlInv, Worker \/ RetryHandler \/ Cloud \/ User, ~WorkerPanics
  PROVE  rc' = rc /\ \A c \in Clusters : api[c].live => api'[c].live
<1>1. CASE Updating(wk.u) \/ Updating(hd)
  BY <1>1, UpdateKeepsLive, ZenonT(60) DEF Updating, UpdateStep, process
<1>2. CASE \E c \in Clusters : WorkerDrops(c) \/ WorkerTakesCreate(c)
  BY <1>2 DEF WorkerDrops, WorkerTakesCreate, Take, store
<1>3. CASE \E c \in Clusters, u \in Updaters : WorkerMarks(c, u)
  BY <1>3 DEF WorkerMarks, Take, Begin, Start
<1>4. CASE \E u \in Updaters : WorkerCreates(u)
  BY <1>4 DEF WorkerCreates, Begin, Start
<1>5. CASE WorkerAborts
  BY <1>5 DEF WorkerAborts, Release
<1>6. CASE WorkerDeletes
  BY <1>6 DEF WorkerDeletes, Release, store
<1>7. CASE WorkerDeletesSecret
  BY <1>7 DEF WorkerDeletesSecret, Reuse
<1>8. CASE WorkerScales
  BY <1>8 DEF WorkerScales, Reuse
<1>9. CASE WorkerFinishes
  BY <1>9 DEF WorkerFinishes, Finish, Release, store
<1>10. CASE \E u \in Updaters : HandlerRetries(u) \/ HandlerDrops(u)
  BY <1>10 DEF HandlerRetries, HandlerDrops, Retry, Release
<1>11. CASE HandlerFinishes
  BY <1>11 DEF HandlerFinishes, Finish, Release, store
<1>12. CASE Cloud
  BY <1>12 DEF Cloud, CloudBuilds, store, process
<1>13. CASE User
  <2>1. api \in [Clusters -> [live : BOOLEAN, rv : Nat, obj : Object]]
    BY DEF CtlInv, CtlTypeOK, TypeOK
  <2>2. \E d \in Clusters : \E obj : api' = Stored(d, TRUE, obj) /\ rc' = rc
    BY <1>13, ZenonT(30) DEF User, UserRequests, UserAnnotates, UserWrites,
         ForeignWrite, process
  <2> QED
    BY <2>1, <2>2 DEF Stored
<1> QED
  BY <1>1, <1>2, <1>3, <1>4, <1>5, <1>6, <1>7, <1>8, <1>9, <1>10, <1>11, <1>12, <1>13,
      ZenonT(60)
  DEF Worker, RetryHandler

\* Every step keeps GoneOnlyInReset.
LEMMA GoneStep ==
  ASSUME Faults \cap Losing = {}, \A c \in Clusters : Class[c] = "kops",
         CtlInv, GoneOnlyInReset, [CtlNext]_ctlVars
  PROVE  GoneOnlyInReset'
<1>1. /\ api \in [Clusters -> [live : BOOLEAN, rv : Nat, obj : Object]]
      /\ rc \in LoopType /\ rc.copy.name \in Clusters
      /\ wk.copy.name \in Clusters
  BY DEF CtlInv, CtlTypeOK, TypeOK, LoopType, WorkerType, CopyType
<1>2. \A kind \in Losing : ~Fault(kind)
  BY DEF Fault
<1>3. "reset" \in Losing /\ "lost" \in Losing /\ "crash" \in Losing
  BY DEF Losing
<1>4. ~WorkerPanics /\ ~Crash
  <2>1. \A s, obj : Panics("kops", "scale", s, obj) = {}
    BY DEF Panics, KopsPanics
  <2>2. ~WorkerPanics
    BY <1>1, <2>1, ZenonT(60) DEF WorkerPanics
  <2> QED
    BY <1>2, <1>3, <2>2 DEF Crash
<1>5. CASE rc' = rc /\ \A c \in Clusters : api[c].live => api'[c].live
  BY <1>5 DEF GoneOnlyInReset
<1>6. CASE rc.pc # "create" /\ api' = api
  BY <1>6 DEF GoneOnlyInReset
<1>7. CASE ResetDeletes
  <2> DEFINE c == rc.copy.name
  <2>1. rc.pc = "delete"
    BY <1>7 DEF ResetDeletes
  <2>2. \A d \in Clusters : api[d].live
    BY <2>1 DEF GoneOnlyInReset
  <2>3. api' = Stored(c, FALSE, api[c].obj) /\ rc' = [rc EXCEPT !.pc = "create", !.tries = 0]
    BY <1>1, <1>2, <1>3, <1>7, <2>2, ZenonT(30) DEF ResetDeletes, ForeignWrite, Fails
  <2>4. rc'.pc = "create" /\ rc'.copy = rc.copy
    BY <1>1, <2>3 DEF LoopType
  <2>5. \A d \in Clusters : d # c => api'[d] = api[d]
    BY <1>1, <2>3 DEF Stored
  <2> QED
    BY <2>2, <2>4, <2>5 DEF GoneOnlyInReset
<1>8. CASE ResetCreates
  <2> DEFINE c == rc.copy.name
  <2>1. rc.pc = "create" /\ \A d \in Clusters : d # c => api[d].live
    BY <1>8 DEF ResetCreates, GoneOnlyInReset
  <2>2. \/ api' = Stored(c, TRUE, rc.copy.obj)
        \/ api[c].live /\ api' = api
    BY <1>1, <1>2, <1>3, <1>8, ZenonT(30) DEF ResetCreates, ForeignWrite, Fails, store
  <2>3. \A d \in Clusters : api'[d].live
    BY <1>1, <2>1, <2>2 DEF Stored
  <2> QED
    BY <2>3 DEF GoneOnlyInReset
<1>9. CASE Reconcile /\ ~ResetDeletes /\ ~ResetCreates
  <2>1. CASE Updating(rc.u)
    BY <1>5, <2>1, UpdateKeepsLive, ZenonT(60) DEF Updating, UpdateStep, process
  <2>2. CASE ReconcileLists \/ ReconcileEnds \/ ReconcileJoins \/ ResetRefetches
    BY <1>6, <2>2
    DEF ReconcileLists, ReconcileEnds, ReconcileJoins, ResetRefetches, store
  <2>3. CASE ReconcileAdvances
    BY <1>6, <2>3 DEF ReconcileAdvances, Alias
  <2>4. CASE ReconcileValidates
    BY <1>6, <2>4, ZenonT(30) DEF ReconcileValidates, Begin, Start, store
  <2>5. CASE ReconcileUpdated
    BY <1>6, <2>5 DEF ReconcileUpdated, Finish, Release, store
  <2>6. CASE ReconcilePanics
    BY <1>6, <2>6, ZenonT(60) DEF ReconcilePanics, Dies, Restart
  <2> QED
    BY <1>9, <2>1, <2>2, <2>3, <2>4, <2>5, <2>6 DEF Reconcile
<1>10. CASE Worker \/ RetryHandler \/ Cloud \/ User
  BY <1>4, <1>5, <1>10, OthersKeepLive
<1>11. CASE UNCHANGED ctlVars
  BY <1>5, <1>11 DEF ctlVars, store, process
<1> QED
  BY <1>4, <1>7, <1>8, <1>9, <1>10, <1>11 DEF CtlNext

-----------------------------------------------------------------------------
(* The theorems.                                                            *)

\* The invariant, step by step.
LEMMA CtlNextInv == CtlInv /\ [CtlNext]_ctlVars => CtlInv'
BY CtlTypeStep, TriesStep, OwnStep, EpisodeStep, MarkStep DEF CtlInv

\* The invariant holds in every state.
LEMMA CtlInductive == CtlSpec => []CtlInv
BY CtlInitInv, CtlNextInv, PTL DEF CtlSpec

\* An updater of the invariant has at most one owner, and one when it is in use.
LEMMA OwnInvMeans == CtlInv => OneOwner
<1> SUFFICES ASSUME CtlInv, NEW u \in Updaters
             PROVE  /\ IF upd[u].pc = "free" THEN Owners(u) = {}
                       ELSE \E g \in Hands : Owners(u) = {g}
                    /\ u \in retrying => upd[u].pc = "err" /\ upd[u].needsResync
  BY DEF OneOwner
<1>1. OwnInv /\ CopyInv /\ None \notin Updaters
  BY UpdatersAssumption DEF CtlInv, None
<1>2. u \in retrying => upd[u].pc = "err" /\ upd[u].needsResync
  BY <1>1, ZenonT(60) DEF OwnInv, CopyInv, CopyOK
<1>3. CASE upd[u].pc = "free"
  <2>1. Owners(u) = {}
    BY <1>1, <1>3 DEF OwnInv, Owners, Hands
  <2>2. QED
    BY <1>2, <1>3, <2>1
<1>4. CASE upd[u].pc # "free"
  <2>1. \E g \in Hands : Owners(u) = {g}
    <3>1. CASE u = wk.u
      <4>1. Owners(u) = {"worker"}
        BY <1>1, <3>1 DEF OwnInv, Owners, Hands
      <4>2. QED
        BY <4>1 DEF Hands
    <3>2. CASE u # wk.u /\ u = rc.u
      <4>1. Owners(u) = {"reconcile"}
        BY <1>1, <3>2 DEF OwnInv, Owners, Hands
      <4>2. QED
        BY <4>1 DEF Hands
    <3>3. CASE u # wk.u /\ u # rc.u /\ u = hd
      <4>1. Owners(u) = {"handler"}
        BY <1>1, <3>3 DEF OwnInv, Owners, Hands
      <4>2. QED
        BY <4>1 DEF Hands
    <3>4. CASE u # wk.u /\ u # rc.u /\ u # hd /\ u \in retrying
      <4>1. Owners(u) = {"retrier"}
        BY <1>1, <3>4 DEF OwnInv, Owners, Hands
      <4>2. QED
        BY <4>1 DEF Hands
    <3>5. QED
      BY <1>1, <1>4, <3>1, <3>2, <3>3, <3>4, ZenonT(30) DEF OwnInv
  <2>2. QED
    BY <1>2, <1>4, <2>1, ZenonT(60)
<1>5. QED
  BY <1>3, <1>4

\* The variables of the controller hold what their declarations say.
THEOREM CtlTypes == CtlSpec => []CtlTypeOK
<1>1. CtlInv => CtlTypeOK
  BY DEF CtlInv
<1>2. QED
  BY <1>1, CtlInductive, PTL

\* The composed controller uses its updaters as ClusterUpdater says: whatever the
\* goroutines, the users, the cloud and the failures do, api and upd make only steps of
\* ClusterUpdater.
THEOREM ControllerIsUpdater == CtlSpec => AnySpec
BY CtlInductive, CtlInitInit, CtlStep, PTL DEF CtlSpec, AnySpec

\* No updater is in the hands of two goroutines, or of one and the retrier: they are used
\* without a lock, and need none.
THEOREM CtlOneOwner == CtlSpec => []OneOwner
BY CtlInductive, OwnInvMeans, PTL

\* shutdownCluster() and scaleCluster() call the provider at most once for a request, with
\* any number of conflicts, retries, lost answers, duplicate queue items and restarts.
THEOREM CtlAtMostOnce == CtlSpec => []AtMostOncePerRequest
<1>1. CtlInv => AtMostOncePerRequest
  BY DEF CtlInv, EpisodeInv, AtMostOncePerRequest
<1>2. QED
  BY <1>1, CtlInductive, PTL

\* In the composed controller too, a copy the API server would accept is the current
\* object with the updater's changes.
THEOREM CtlAcceptedCopy == CtlSpec => []AcceptedCopyIsCurrent
BY ControllerIsUpdater, AnyAcceptedCopy, PTL

\* And there too update() is an atomic read-modify-write.
THEOREM CtlAtomic == CtlSpec => AtomicMerge
BY ControllerIsUpdater, AnyUpdateIsAtomic, PTL

\* A request that is pending is in the queue, with the worker, or in an update that ends
\* it: with any number of restarts, panics, lost answers of the API server, conflicts,
\* errors of the providers and of resetCluster(), and with aliased updaters.  Only a GET
\* or PUT that fails with the object there and an expired retry make it forgotten.
THEOREM CtlPendingHeld ==
  ASSUME Faults \cap Forgetful = {}
  PROVE  CtlSpec => []PendingIsHeld
<1>1. CtlInit => HeldInv
  <2> SUFFICES ASSUME CtlInit, NEW c \in Clusters PROVE ~IsPending(api[c])
    BY DEF HeldInv
  <2>1. PICK found \in [Clusters -> Found] :
          api = [d \in Clusters |->
                   [live |-> TRUE, rv |-> 0, obj |-> FoundObject(d, found[d])]]
    BY ZenonT(30) DEF CtlInit
  <2>2. api[c].obj = FoundObject(c, found[c]) /\ found[c] \in {"offline", "ready"}
    <3>1. found[c] \in Found
      OBVIOUS
    <3>2. found[c] \in {"offline", "ready"}
      BY <3>1, FoundAssumption, ZenonT(30)
    <3>3. api[c] = [live |-> TRUE, rv |-> 0, obj |-> FoundObject(c, found[c])]
      BY <2>1
    <3> QED
      BY <3>2, <3>3
  <2>3. FoundObject(c, found[c])["state"] = found[c]
    BY <2>2, FieldsAssumption DEF FoundObject, Set
  <2> QED
    BY <2>2, <2>3 DEF IsPending, Pending
<1>2. CtlInv /\ HeldInv => PendingIsHeld
  <2> SUFFICES ASSUME CtlInv, HeldInv, NEW c \in Clusters, IsPending(api[c])
               PROVE  \/ c \in Range(queue)
                      \/ wk.pc \in {"create", "mark"} /\ wk.copy.name = c
                      \/ \E u \in retrying \cup ({wk.u, hd} \ {None}) :
                           upd[u].name = c /\ upd[u].ann.set["state"] # Absent
    BY DEF PendingIsHeld
  <2>1. None \notin Updaters
    BY UpdatersAssumption DEF None
  <2>2. Held(c)
    BY DEF HeldInv
  <2>3. ASSUME NEW u \in Updaters, Holds(u, c)
        PROVE  /\ u \in retrying \cup ({wk.u, hd} \ {None})
               /\ upd[u].name = c /\ upd[u].ann.set["state"] # Absent
    BY <2>1, <2>3 DEF Holds, Ends
  <2> QED
    BY <2>2, <2>3 DEF Held, Taken
<1>3. QED
  BY <1>1, <1>2, CtlInductive, HeldStep, PTL DEF CtlSpec

\* With kops clusters an object is missing only while resetCluster() is between deleting and
\* creating it: with any number of clusters and requests, and of failures of the providers, of
\* secrets, of GETs and PUTs.  Only a failure of its own calls, a lost answer and the end of
\* the process there lose one.  (With OKE a scale of the worker may end the process, see
\* OkePanics, and an object the loop has just deleted is lost with it.)
THEOREM CtlGoneOnlyInReset ==
  ASSUME Faults \cap Losing = {}, \A c \in Clusters : Class[c] = "kops"
  PROVE  CtlSpec => []GoneOnlyInReset
<1>1. CtlInit => GoneOnlyInReset
  <2>1. CtlInit => \A c \in Clusters : api[c].live
    <3>1. SUFFICES ASSUME NEW found \in [Clusters -> Found], NEW c \in Clusters,
                          api = [d \in Clusters |->
                                   [live |-> TRUE, rv |-> 0, obj |-> FoundObject(d, found[d])]]
                   PROVE  api[c].live
      BY ZenonT(60) DEF CtlInit
    <3>2. QED
      BY <3>1
  <2>2. QED
    BY <2>1, ZenonT(60) DEF GoneOnlyInReset
<1>2. CtlInv /\ GoneOnlyInReset /\ [CtlNext]_ctlVars => GoneOnlyInReset'
  BY GoneStep
<1>3. QED
  BY <1>1, <1>2, CtlInductive, PTL DEF CtlSpec

=============================================================================
