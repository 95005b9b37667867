--------------------------- MODULE ClusterController ---------------------------
(***************************************************************************)
(* The ClusterController of pkg/controller/cluster/clustercontroller.go:   *)
(* three goroutines that move Cluster objects through their life cycle.    *)
(* The worker carries out pending requests, the reconcile loop looks for   *)
(* operations that have completed, and the retry handler repeats updates   *)
(* that failed.  They share no lock: they meet in the API server, in the   *)
(* cloud and in the secrets, while users ask for more, calls fail and the  *)
(* process restarts.                                                       *)
(*                                                                         *)
(* Every change of api and upd is a step of ClusterUpdater; the retrier is *)
(* the set retrying (UpdateRetrier has its channels and its clock).        *)
(***************************************************************************)
EXTENDS Providers, ClusterUpdater, Sequences, FiniteSets, Functions

CONSTANTS Class,         \* the cluster class annotation: "kops" or "oke"
          Found,         \* states clusters are in when the process starts
          Faults,        \* the kinds of failure that may happen
          MaxFaults,     \* bound: how many of them
          MaxRequests,   \* bound: requests by users
          MaxNotes       \* bound: writes by users that are not requests

\* There are finitely many clusters.
ASSUME FiniteAssumption == \A S \in SUBSET Clusters : Cardinality(S) \in Nat

\* None is not an updater.
ASSUME UpdatersAssumption == Updaters \subseteq Nat \ {0}

ASSUME ClassAssumption == Class \in [Clusters -> {"kops", "oke"}]

ASSUME FoundAssumption == Found \subseteq {"offline", "ready"}

ASSUME MaxFaultsAssumption == MaxFaults \in Nat

VARIABLES queue,      \* workQueue, with the watch events on their way to it
          wk,         \* the worker
          rc,         \* the reconcile loop
          hd,         \* the updater the retry handler works on
          retrying,   \* updaters in the retrier
          shared,     \* updaters that point to the loop variable of reconcile
          secrets,    \* clusters with a kubeconfig secret
          cloud,      \* the providers' clusters
          faults,     \* failures so far
          requests,   \* requests so far
          notes,      \* other writes so far
          ep,         \* history: pending episodes of each cluster
          served      \* history: the episodes given to Delete and Scale

store == <<api, upd>>
process == <<wk, rc, hd, retrying, shared>>
users == <<requests, notes>>
ctlVars == <<store, queue, process, secrets, cloud, faults, users, ep, served>>

None == 0

-----------------------------------------------------------------------------
(* Cluster objects and the events about them.                               *)

Pending == {"pending-provision", "pending-shutdown", "pending-up", "pending-down"}

InFlight == {"provisioning", "scaling-up", "scaling-down"}

Settled == {"offline", "joining", "ready", "shutting-down", "failed-provision",
            "failed-up", "failed-down"}

ASSUME FieldsAssumption == {"state", "id", "work", "nodes", "note"} \subseteq Fields

ASSUME ValuesAssumption ==
  Pending \cup InFlight \cup Settled \cup Ids \cup {"n"} \subseteq Values

State(c) == api[c].obj["state"]

IsPending(o) == o.live /\ o.obj["state"] \in Pending

Copy(c) == [name |-> c, rv |-> api[c].rv, obj |-> api[c].obj]

NoCopy == [name |-> CHOOSE c \in Clusters : TRUE, rv |-> 0, obj |-> Nothing]

\* The orders a set of clusters may be listed in.
Orders(S) == Bijection(1 .. Cardinality(S), S)

\* Variant for mutation: a request that comes while the worker is busy is skipped.
ObserveIdle ==
  LET news == {c \in Clusters : api'[c] # api[c] /\ IsPending(api'[c])}
      asked == {c \in news : ~IsPending(api[c]) \/ State(c) # State(c)'}
  IN  /\ \E order \in Orders(news) :
           queue' = IF wk.pc = "idle" THEN queue \o order ELSE queue
      /\ ep' = [c \in Clusters |-> IF c \in asked THEN ep[c] + 1 ELSE ep[c]]

\* onClusterAdd(), onClusterUpdate() and SubmitClusterForProvisioning(): a
\* change that leaves a cluster pending adds an item to the work queue.  Items
\* are pointers to copies, so that two of one cluster are not merged.
Observe ==
  LET news == {c \in Clusters : api'[c] # api[c] /\ IsPending(api'[c])}
      asked == {c \in news : ~IsPending(api[c]) \/ State(c) # State(c)'}
  IN  /\ \E order \in Orders(news) : queue' = queue \o order
      /\ ep' = [c \in Clusters |-> IF c \in asked THEN ep[c] + 1 ELSE ep[c]]

Unobserved == UNCHANGED <<queue, ep>>

-----------------------------------------------------------------------------
(* Failures.                                                                *)

Fault(kind) ==
  /\ kind \in Faults
  /\ faults < MaxFaults
  /\ faults' = faults + 1

NoFault == UNCHANGED faults

\* A call that fails: by itself when cause holds, else through a failure.
Fails(cause, kind) == IF cause THEN NoFault ELSE Fault(kind)

\* A provider's result is one of the failures or not.
Answer(r) == IF r.fault THEN Fault("provider") ELSE NoFault

-----------------------------------------------------------------------------
(* Updaters.                                                                *)

\* The next free updater.
Fresh(u) == upd[u].pc = "free" /\ \A v \in Updaters : v < u => upd[v].pc # "free"

Begin(u, copy, ann) == Fresh(u) /\ Start(u, copy.name, copy.rv, copy.obj, ann)

\* A goroutine is inside update().
UpdateStep(u) ==
  /\ \/ Resync(u) /\ NoFault
     \/ ResyncFails(u) /\ Fails(~api[upd[u].target].live, "api")
     \/ Write(u) /\ NoFault
     \/ WriteUnacknowledged(u) /\ Fault("lost")
     \/ Conflict(u) /\ NoFault
     \/ WriteFails(u) /\ Fails(~api[upd[u].name].live, "api")
  /\ Observe
  /\ UNCHANGED <<process, secrets, cloud, users, served>>

\* Variant for mutation: a failed update is not retried.
FinishForgets(u) ==
  /\ upd[u].pc \in {"ok", "err"}
  /\ UNCHANGED <<store, retrying, shared>>

\* update() has returned to clusterUpdate(): done, or given to the retrier.
Finish(u) ==
  \/ /\ upd[u].pc = "ok" /\ Release(u)
     /\ shared' = shared \ {u}
     /\ UNCHANGED retrying
  \/ /\ upd[u].pc = "err" /\ UNCHANGED store
     /\ retrying' = retrying \cup {u}
     /\ UNCHANGED shared

-----------------------------------------------------------------------------
(* The end of the process.                                                  *)

IdleWorker == [pc |-> "idle", copy |-> NoCopy, u |-> None, ep |-> 0]

IdleLoop == [pc |-> "idle", items |-> <<>>, copy |-> NoCopy, u |-> None, tries |-> 0]

\* Killed or in a panic, the process ends and starts again: the informer lists every
\* object.
Dies ==
  /\ Restart
  /\ queue' \in Orders({c \in Clusters : IsPending(api[c])})
  /\ wk' = IdleWorker /\ rc' = IdleLoop /\ hd' = None
  /\ retrying' = {} /\ shared' = {}
  /\ UNCHANGED <<secrets, cloud, users, ep>>

-----------------------------------------------------------------------------
(* The worker.                                                              *)

Working(pc, c, u) == [pc |-> pc, copy |-> Copy(c), u |-> u, ep |-> ep[c]]

\* Inside the last clusterUpdate() of a request.
Finishing(u) == [IdleWorker EXCEPT !.pc = "finish", !.u = u]

Take(c) ==
  /\ wk.pc = "idle"
  /\ queue # <<>> /\ c = Head(queue)
  /\ queue' = Tail(queue)
  /\ UNCHANGED <<rc, hd, retrying, shared, secrets, cloud, users, ep, served>>

\* getCluster() fails, or the state is no longer one to act on: the item is
\* dropped.
WorkerDrops(c) ==
  /\ Take(c)
  /\ \/ Fails(~api[c].live, "get")
     \/ api[c].live /\ State(c) \notin Pending /\ NoFault
  /\ UNCHANGED <<store, wk>>

\* createCluster() begins.
WorkerTakesCreate(c) ==
  /\ Take(c)
  /\ api[c].live /\ State(c) = "pending-provision"
  /\ wk' = Working("create", c, None)
  /\ UNCHANGED <<store, faults>>

Marks == [s \in Pending \ {"pending-provision"} |->
            IF s = "pending-shutdown" THEN "shutting-down"
            ELSE IF s = "pending-up" THEN "scaling-up" ELSE "scaling-down"]

\* shutdownCluster() and scaleCluster() begin with an update of the state.
WorkerMarks(c, u) ==
  /\ Take(c)
  /\ api[c].live /\ State(c) \in DOMAIN Marks
  /\ Begin(u, Copy(c), Set([state |-> Marks[State(c)]]))
  /\ wk' = Working("mark", c, u)
  /\ UNCHANGED faults

\* The first update fails, and the request is left as it is.
WorkerAborts ==
  /\ wk.pc = "mark" /\ upd[wk.u].pc = "err"
  /\ Release(wk.u)
  /\ wk' = IdleWorker
  /\ Unobserved
  /\ UNCHANGED <<rc, hd, retrying, shared, secrets, cloud, faults, users, served>>

\* createCluster(): the provider first, then the update.
WorkerCreates(u) ==
  LET c == wk.copy.name
  IN  /\ wk.pc = "create"
      /\ \E r \in CreateKubeCluster(Class[c], cloud[c], wk.copy.obj) :
           /\ cloud' = [cloud EXCEPT ![c] = r.inst]
           /\ Answer(r)
           /\ Begin(u, wk.copy,
                    IF r.ok THEN Merge(r.ann, Set([state |-> "provisioning"]))
                    ELSE Set([state |-> "failed-provision"]))
      /\ wk' = Finishing(u)
      /\ Unobserved
      /\ UNCHANGED <<rc, hd, retrying, shared, secrets, users, served>>

\* Variant for mutation: the error of the first update is not looked at.
MarkedAnyhow == wk.pc = "mark" /\ upd[wk.u].pc \in {"ok", "err"}

Marked == wk.pc = "mark" /\ upd[wk.u].pc = "ok"

Serve(c) == served' = [served EXCEPT ![c] = Append(@, wk.ep)]

\* Variant for mutation: an error of the provider is only logged.
WorkerDeletesAnyhow ==
  LET c == wk.copy.name
  IN  /\ Marked /\ wk.copy.obj["state"] = "pending-shutdown"
      /\ \E r \in DeleteKubeCluster(Class[c], cloud[c], wk.copy.obj) :
           cloud' = [cloud EXCEPT ![c] = r.inst] /\ Answer(r)
      /\ wk' = [wk EXCEPT !.pc = "secret"]
      /\ Serve(c)
      /\ Unobserved
      /\ UNCHANGED <<store, rc, hd, retrying, shared, secrets, users>>

\* shutdownCluster(): an error of the provider ends it.
WorkerDeletes ==
  LET c == wk.copy.name
  IN  /\ Marked /\ wk.copy.obj["state"] = "pending-shutdown"
      /\ \E r \in DeleteKubeCluster(Class[c], cloud[c], wk.copy.obj) :
           /\ cloud' = [cloud EXCEPT ![c] = r.inst]
           /\ Answer(r)
           /\ IF r.ok THEN wk' = [wk EXCEPT !.pc = "secret"] /\ UNCHANGED store
              ELSE wk' = IdleWorker /\ Release(wk.u)
      /\ Serve(c)
      /\ Unobserved
      /\ UNCHANGED <<rc, hd, retrying, shared, secrets, users>>

\* setAnnotation(offline) and getClusterAnnotationsToDelete().
OfflineAnnotation == [Set([state |-> "offline"]) EXCEPT !.del = {"nodes", "id", "work"}]

\* Variant for mutation: the secret is not deleted.
WorkerKeepsSecret ==
  /\ wk.pc = "secret"
  /\ Reuse(wk.u, OfflineAnnotation)
  /\ wk' = Finishing(wk.u)
  /\ Unobserved
  /\ UNCHANGED <<rc, hd, retrying, shared, secrets, cloud, faults, users, served>>

\* An error of deleteSecret() is logged; then the second update begins.
WorkerDeletesSecret ==
  LET c == wk.copy.name
  IN  /\ wk.pc = "secret"
      /\ \/ secrets' = secrets \ {c} /\ NoFault
         \/ UNCHANGED secrets /\ Fault("secret")
      /\ Reuse(wk.u, OfflineAnnotation)
      /\ wk' = Finishing(wk.u)
      /\ Unobserved
      /\ UNCHANGED <<rc, hd, retrying, shared, cloud, users, served>>

\* scaleCluster() after its first update.
WorkerScales ==
  LET c == wk.copy.name
      up == wk.copy.obj["state"] = "pending-up"
      failed == Set([state |-> IF up THEN "failed-up" ELSE "failed-down"])
  IN  /\ Marked /\ wk.copy.obj["state"] \in {"pending-up", "pending-down"}
      /\ \E r \in ScaleKubeCluster(Class[c], cloud[c], wk.copy.obj, up) :
           /\ cloud' = [cloud EXCEPT ![c] = r.inst]
           /\ Answer(r)
           /\ Reuse(wk.u, IF r.ok THEN r.ann ELSE Merge(r.ann, failed))
      /\ wk' = Finishing(wk.u)
      /\ Serve(c)
      /\ Unobserved
      /\ UNCHANGED <<rc, hd, retrying, shared, secrets, users>>

\* An answer of the provider nobody expected ends the process.
WorkerPanics ==
  LET c == wk.copy.name
  IN  /\ Marked /\ wk.copy.obj["state"] \in {"pending-up", "pending-down"}
      /\ \E r \in Panics(Class[c], "scale", cloud[c], wk.copy.obj) : Answer(r)
      /\ Serve(c)
      /\ Dies

WorkerFinishes ==
  /\ wk.pc = "finish"
  /\ Finish(wk.u)
  /\ wk' = IdleWorker
  /\ Unobserved
  /\ UNCHANGED <<rc, hd, secrets, cloud, faults, users, served>>

-----------------------------------------------------------------------------
(* The reconcile loop: one pass is reconcileWhenReady().                    *)

Looping(items) == [IdleLoop EXCEPT !.pc = "loop", !.items = items]

\* A step of the loop that touches none of the others' variables.
Reconciles ==
  /\ Unobserved
  /\ UNCHANGED <<wk, hd, users, served>>

\* listClusters() has the objects in some order.
ReconcileLists ==
  /\ rc.pc = "idle"
  /\ \E order \in Orders({c \in Clusters : api[c].live}) :
       rc' = Looping([i \in DOMAIN order |-> Copy(order[i])])
  /\ Reconciles
  /\ UNCHANGED <<store, retrying, shared, secrets, cloud, faults>>

\* The range statement stores the next item in its only variable, which
\* updaters of this pass may still point to.
ReconcileAdvances ==
  LET item == Head(rc.items)
      s == item.obj["state"]
  IN  /\ rc.pc = "loop" /\ rc.items # <<>>
      /\ Alias({u \in shared : upd[u].pc \in {"resync", "err"} /\ ~upd[u].own},
               item.name)
      /\ rc' = [Looping(Tail(rc.items)) EXCEPT
                  !.pc = IF s \in InFlight THEN "validate"
                         ELSE IF s = "joining" THEN "join" ELSE "loop",
                  !.copy = IF s \in InFlight \cup {"joining"} THEN item ELSE NoCopy]
      /\ Reconciles
      /\ UNCHANGED <<retrying, shared, secrets, cloud, faults>>

ReconcileEnds ==
  /\ rc.pc = "loop" /\ rc.items = <<>>
  /\ rc' = IdleLoop
  /\ shared' = {}
  /\ Reconciles
  /\ UNCHANGED <<store, retrying, secrets, cloud, faults>>

\* validateCluster(), up to the first call of update().
ReconcileValidates ==
  LET c == rc.copy.name
      next == IF rc.copy.obj["state"] = "provisioning" THEN "joining" ELSE "ready"
  IN  /\ rc.pc = "validate"
      /\ \E r \in ValidateKubeCluster(Class[c], cloud[c], rc.copy.obj) :
           LET ann == IF r.ok THEN Merge(r.ann, Set([state |-> next])) ELSE r.ann
           IN  /\ Answer(r)
               /\ IF ann = NoChange
                  THEN rc' = Looping(rc.items) /\ UNCHANGED <<store, shared>>
                  ELSE \E u \in Updaters :
                         /\ Begin(u, rc.copy, ann)
                         /\ rc' = [Looping(rc.items) EXCEPT !.pc = "update", !.u = u]
                         /\ shared' = shared \cup {u}
      /\ Reconciles
      /\ UNCHANGED <<retrying, secrets, cloud>>

ReconcileUpdated ==
  /\ rc.pc = "update"
  /\ Finish(rc.u)
  /\ rc' = Looping(rc.items)
  /\ Reconciles
  /\ UNCHANGED <<secrets, cloud, faults>>

\* clusterJoin(), up to resetCluster(): without a kubeconfig, or with a secret
\* that exists already, it leaves the cluster for the next pass.
ReconcileJoins ==
  LET c == rc.copy.name
      joined == [Looping(rc.items) EXCEPT !.pc = "delete", !.copy =
                   [rc.copy EXCEPT !.obj = ApplyAnnotation(@, Set([state |-> "ready"]))]]
  IN  /\ rc.pc = "join"
      /\ \E r \in ExportKubeConfig(Class[c], cloud[c], rc.copy.obj) :
           \/ /\ ~r.ok /\ Answer(r)
              /\ rc' = Looping(rc.items) /\ UNCHANGED secrets
           \/ /\ r.ok /\ c \notin secrets /\ NoFault
              /\ rc' = joined /\ secrets' = secrets \cup {c}
           \/ /\ r.ok /\ Fails(c \in secrets, "secret")
              /\ rc' = Looping(rc.items) /\ secrets' \in {secrets, secrets \cup {c}}
      /\ Reconciles
      /\ UNCHANGED <<store, retrying, shared, cloud>>

\* So does one to the loop, or a kubeconfig without the context clusterJoin() looks up.
ReconcilePanics ==
  LET c == rc.copy.name
      op == IF rc.pc = "validate" THEN "validate" ELSE "export"
  IN  /\ rc.pc \in {"validate", "join"}
      /\ \E r \in Panics(Class[c], op, cloud[c], rc.copy.obj) : Answer(r)
      /\ Dies
      /\ UNCHANGED served

\* resetCluster(): a step of it that calls the API server.
Resets ==
  /\ Observe
  /\ UNCHANGED <<wk, hd, retrying, shared, secrets, cloud, users, served>>

\* Variant for mutation: the pass goes on without creating the object again.
ResetDeletesOnly ==
  LET c == rc.copy.name
  IN  /\ rc.pc = "delete"
      /\ api[c].live /\ NoFault
      /\ ForeignWrite(c, FALSE, api[c].obj)
      /\ rc' = Looping(rc.items)
      /\ Resets

ResetDeletes ==
  LET c == rc.copy.name
  IN  /\ rc.pc = "delete"
      /\ \/ /\ api[c].live /\ NoFault
            /\ ForeignWrite(c, FALSE, api[c].obj)
            /\ rc' = [rc EXCEPT !.pc = "create", !.tries = 0]
         \/ /\ Fails(~api[c].live, "reset")
            /\ rc' = [rc EXCEPT !.pc = "refetch", !.tries = @ + 1]
            /\ UNCHANGED store
         \/ /\ api[c].live /\ Fault("lost")
            /\ ForeignWrite(c, FALSE, api[c].obj)
            /\ rc' = [rc EXCEPT !.pc = "refetch", !.tries = @ + 1]
      /\ Resets

\* After a failed delete the object is read again, and with it go the changes
\* clusterJoin() made.  When that fails too, the name is lost and with it every
\* further attempt.
ResetRefetches ==
  LET c == rc.copy.name
  IN  /\ rc.pc = "refetch"
      /\ \/ /\ api[c].live /\ NoFault
            /\ rc' = IF rc.tries < MaxRetryCount
                     THEN [rc EXCEPT !.pc = "delete", !.copy = Copy(c)]
                     ELSE Looping(rc.items)
         \/ /\ Fails(~api[c].live, "api")
            /\ rc' = Looping(rc.items)
      /\ UNCHANGED store
      /\ Resets

ResetCreates ==
  LET c == rc.copy.name
      again == IF rc.tries + 1 < MaxRetryCount THEN [rc EXCEPT !.tries = @ + 1]
               ELSE Looping(rc.items)
  IN  /\ rc.pc = "create"
      /\ \/ /\ ~api[c].live /\ NoFault
            /\ ForeignWrite(c, TRUE, rc.copy.obj)
            /\ rc' = Looping(rc.items)
         \/ /\ Fails(api[c].live, "reset")
            /\ rc' = again
            /\ UNCHANGED store
         \/ /\ ~api[c].live /\ Fault("lost")
            /\ ForeignWrite(c, TRUE, rc.copy.obj)
            /\ rc' = again
      /\ Resets

-----------------------------------------------------------------------------
(* The retry handler.                                                       *)

HandlerRetries(u) ==
  /\ hd = None /\ u \in retrying
  /\ Retry(u)
  /\ hd' = u /\ retrying' = retrying \ {u}
  /\ Unobserved
  /\ UNCHANGED <<wk, rc, shared, secrets, cloud, faults, users, served>>

\* The backoff of the updater has expired.
HandlerDrops(u) ==
  /\ hd = None /\ u \in retrying
  /\ Fault("expiry")
  /\ Release(u)
  /\ retrying' = retrying \ {u} /\ shared' = shared \ {u}
  /\ Unobserved
  /\ UNCHANGED <<wk, rc, hd, secrets, cloud, users, served>>

HandlerFinishes ==
  /\ hd # None
  /\ Finish(hd)
  /\ hd' = None
  /\ Unobserved
  /\ UNCHANGED <<wk, rc, secrets, cloud, faults, users, served>>

-----------------------------------------------------------------------------
(* Users, the cloud, and the end of the process.                            *)

\* What a user who follows the documentation asks for in each state.
Requests(s) ==
  CASE s = "offline" -> {"pending-provision"}
    [] s = "failed-provision" -> {"pending-provision", "pending-shutdown"}
    [] s \in {"ready", "failed-up", "failed-down"} ->
         {"pending-shutdown", "pending-up", "pending-down"}
    [] OTHER -> {}

UserWrites(c, obj) ==
  /\ api[c].live
  /\ ForeignWrite(c, TRUE, obj)
  /\ Observe
  /\ UNCHANGED <<process, secrets, cloud, faults, served>>

UserRequests(c, s) ==
  /\ requests < MaxRequests
  /\ s \in Requests(State(c))
  /\ UserWrites(c, [api[c].obj EXCEPT !["state"] = s])
  /\ requests' = requests + 1
  /\ UNCHANGED notes

\* Someone changes an annotation that is none of the controller's business.
UserAnnotates(c) ==
  /\ notes < MaxNotes
  /\ UserWrites(c, [api[c].obj EXCEPT !["note"] = IF @ = Absent THEN "n" ELSE Absent])
  /\ notes' = notes + 1
  /\ UNCHANGED requests

\* The cloud completes what it is building, or fails to.
CloudBuilds(c, i) ==
  /\ cloud[c][i] = "building"
  /\ \/ cloud' = [cloud EXCEPT ![c][i] = "running"] /\ NoFault
     \/ cloud' = [cloud EXCEPT ![c][i] = "failed"] /\ Fault("build")
  /\ Unobserved
  /\ UNCHANGED <<store, process, secrets, users, served>>

Crash == Fault("crash") /\ Dies /\ UNCHANGED served

-----------------------------------------------------------------------------
\* A cluster the process finds at its start: registered and offline, or made
\* ready by an earlier process.
FoundObject(c, state) ==
  IF state = "offline" THEN Set([state |-> state]).set
  ELSE IF Class[c] = "kops" THEN Set([state |-> state, nodes |-> "n"]).set
  ELSE Set([state |-> state, nodes |-> "n", id |-> KopsId]).set

CtlInit ==
  /\ \E found \in [Clusters -> Found] :
       /\ api = [c \in Clusters |->
                   [live |-> TRUE, rv |-> 0, obj |-> FoundObject(c, found[c])]]
       /\ secrets = {c \in Clusters : found[c] = "ready"}
       /\ cloud = [c \in Clusters |->
                     [i \in Ids |-> IF found[c] = "ready" /\ i = KopsId
                                    THEN "running" ELSE "none"]]
  /\ upd = [u \in Updaters |-> NoUpdater]
  /\ queue = <<>>
  /\ wk = IdleWorker /\ rc = IdleLoop /\ hd = None
  /\ retrying = {} /\ shared = {}
  /\ faults = 0 /\ requests = 0 /\ notes = 0
  /\ ep = [c \in Clusters |-> 0]
  /\ served = [c \in Clusters |-> <<>>]

Updating(u) == u # None /\ UpdateStep(u)

Worker ==
  \/ \E c \in Clusters : WorkerDrops(c) \/ WorkerTakesCreate(c)
  \/ \E c \in Clusters, u \in Updaters : WorkerMarks(c, u)
  \/ \E u \in Updaters : WorkerCreates(u)
  \/ WorkerAborts \/ WorkerDeletes \/ WorkerDeletesSecret \/ WorkerScales
  \/ WorkerPanics \/ WorkerFinishes
  \/ Updating(wk.u)

Reconcile ==
  \/ ReconcileLists \/ ReconcileAdvances \/ ReconcileEnds
  \/ ReconcileValidates \/ ReconcileUpdated \/ ReconcileJoins \/ ReconcilePanics
  \/ ResetDeletes \/ ResetRefetches \/ ResetCreates
  \/ Updating(rc.u)

RetryHandler ==
  \/ \E u \in Updaters : HandlerRetries(u) \/ HandlerDrops(u)
  \/ HandlerFinishes
  \/ Updating(hd)

Cloud == \E c \in Clusters, i \in Ids : CloudBuilds(c, i)

User == \E c \in Clusters :
  UserAnnotates(c) \/ \E s \in Pending : UserRequests(c, s)

CtlNext == Worker \/ Reconcile \/ RetryHandler \/ Cloud \/ User \/ Crash

\* The three goroutines run, and the cloud completes what it builds.
CtlFairness ==
  /\ WF_ctlVars(Worker) /\ WF_ctlVars(Reconcile) /\ WF_ctlVars(RetryHandler)
  /\ \A c \in Clusters, i \in Ids : WF_ctlVars(CloudBuilds(c, i))

CtlSpec == CtlInit /\ [][CtlNext]_ctlVars /\ CtlFairness

-----------------------------------------------------------------------------
(* Properties.                                                              *)

CopyType == [name : Clusters, rv : Nat, obj : Object]

WorkerType ==
  [pc : {"idle", "create", "mark", "secret", "finish"},
   copy : CopyType, u : Updaters \cup {None}, ep : Nat]

LoopType ==
  [pc : {"idle", "loop", "validate", "update", "join", "delete", "refetch", "create"},
   items : Seq(CopyType), copy : CopyType, u : Updaters \cup {None},
   tries : 0 .. MaxRetryCount]

\* The variables hold what their declarations say.
CtlTypeOK ==
  /\ TypeOK
  /\ queue \in Seq(Clusters)
  /\ wk \in WorkerType
  /\ rc \in LoopType
  /\ hd \in Updaters \cup {None}
  /\ retrying \subseteq Updaters /\ shared \subseteq Updaters
  /\ secrets \subseteq Clusters
  /\ cloud \in [Clusters -> Instances]
  /\ faults \in 0 .. MaxFaults

\* Who may have an updater.
Hands == {"worker", "reconcile", "handler", "retrier"}

\* Who may call a method of u.
Owners(u) ==
  {g \in Hands :
     \/ g = "worker" /\ wk.u = u
     \/ g = "reconcile" /\ rc.u = u
     \/ g = "handler" /\ hd = u
     \/ g = "retrier" /\ u \in retrying}

\* The fields of a clusterUpdater are read and written without a lock.  That is
\* sound because an updater in use is in the hands of exactly one goroutine or of
\* the retrier, and the retrier only holds updaters that will resync first.
OneOwner ==
  \A u \in Updaters :
    /\ IF upd[u].pc = "free" THEN Owners(u) = {} ELSE \E g \in Hands : Owners(u) = {g}
    /\ u \in retrying => upd[u].pc = "err" /\ upd[u].needsResync

\* Shutting down and scaling are not repeatable.  Because the state is updated
\* before the provider is called, and the call is given up when that update
\* fails, one request leads to at most one call: duplicate queue items, retries,
\* lost answers and restarts do not repeat it.
AtMostOncePerRequest == \A c \in Clusters : IsInjective(served[c])

\* A kops cluster that is offline has nothing running in the cloud: the state is
\* written only after DeleteKubeCluster() has succeeded.
OfflineMeansGone ==
  \A c \in Clusters :
    Class[c] = "kops" /\ api[c].live /\ State(c) = "offline"
      => cloud[c][KopsId] \in Stopped

\* An OKE cluster is known by an annotation only.  Without failures none that
\* runs is forgotten: its id is in the Cluster object, or in an updater that is
\* on its way there.
NoneLeaked ==
  \A c \in Clusters, i \in Ids :
    Class[c] = "oke" /\ cloud[c][i] \in {"building", "running"}
      => \/ api[c].obj["id"] = i
         \/ \E u \in Updaters : upd[u].pc # "free" /\ upd[u].ann.set["id"] = i

\* A request is only in the state of its object; there is no resync that would find it
\* again.  None is forgotten, unless a GET or PUT fails with the object there or a retry
\* expires: as long as an object is pending, a queue item is on its way, the worker has
\* taken one, or an update that ends the request is under way.
PendingIsHeld ==
  \A c \in Clusters : IsPending(api[c]) =>
    \/ c \in Range(queue)
    \/ wk.pc \in {"create", "mark"} /\ wk.copy.name = c
    \/ \E u \in retrying \cup ({wk.u, hd} \ {None}) :
         upd[u].name = c /\ upd[u].ann.set["state"] # Absent

\* resetCluster() deletes the object and creates it again; in between it is only in the
\* memory of the reconcile loop.  Unless one of the two calls fails or the process ends
\* there, an object that is missing is the one the loop is about to create, whatever the
\* worker, the retry handler and the users do meanwhile.
GoneOnlyInReset == \A c \in Clusters : ~api[c].live => rc.pc = "create" /\ rc.copy.name = c

\* Without failures every provisioning request ends in "ready".
ProvisionSettles ==
  \A c \in Clusters : State(c) = "pending-provision" ~> State(c) = "ready"

\* deploy/README.md on provisioning: the state "will be changed either to
\* `ready` if successful or `failed-up` if failed".
ProvisionEndsAsDocumented ==
  \A c \in Clusters :
    State(c) = "pending-provision" ~> State(c) \in {"ready", "failed-up"}

\* deploy/README.md on shutting down: the state "will be changed to `offline`".
ShutdownEndsAsDocumented ==
  \A c \in Clusters : State(c) = "pending-shutdown" ~> State(c) = "offline"

\* An update that is retried reaches the cluster it was made for: a cluster
\* nobody has asked anything of stays offline.
UntouchedStaysOffline == \A c \in Clusters : ep[c] = 0 => State(c) = "offline"

=============================================================================
