---------------------------- MODULE ClusterUpdater ----------------------------
(***************************************************************************)
(* The clusterUpdater of pkg/controller/cluster/clustercontroller.go: how  *)
(* the controller changes a federation Cluster object.  An updater holds a *)
(* copy of the object and the changes it wants (a ClusterAnnotation, a     *)
(* server address, a secret reference).  update() applies the changes to   *)
(* the copy and PUTs it; the API server refuses a copy whose resource      *)
(* version is old, and update() then fetches a fresh copy and tries again. *)
(*                                                                         *)
(* Several updaters run at once (the worker, the reconcile loop and the    *)
(* retry handler each drive one) while others change the same objects.     *)
(***************************************************************************)
EXTENDS AnnotationChanges, Naturals

CONSTANTS Clusters,       \* names of Cluster objects
          Updaters,       \* identities (pointers) of clusterUpdater values
          Annotations,    \* the changes updaters are asked to make
          MaxRetryCount   \* PUTs one call of update() may make

ASSUME ClustersAssumption == Clusters # {}

ASSUME AnnotationsAssumption == Annotations \subseteq ClusterAnnotation

ASSUME MaxRetryCountAssumption == MaxRetryCount \in Nat \ {0}

VARIABLES api,   \* the objects kept by the federation API server
          upd    \* the updaters

-----------------------------------------------------------------------------
(* The API server.                                                          *)

\* Every change of an object, its deletion and its creation take a new
\* resource version; an update that changes nothing does not.
Stored(c, live, obj) ==
  LET same == api[c].live = live /\ api[c].obj = obj
  IN  [api EXCEPT ![c] = [live |-> live, obj |-> obj,
                          rv |-> IF same THEN @.rv ELSE @.rv + 1]]

-----------------------------------------------------------------------------
(* The life of an updater.  pc says where it is:                            *)
(*   "free"    not in use                                                   *)
(*   "resync"  inside update(), about to GET a fresh copy                   *)
(*   "write"   inside update(), about to PUT its copy                       *)
(*   "ok"      update() returned nil                                        *)
(*   "err"     update() returned an error                                   *)
(* name, rv and obj are the copy cu.cluster points to; target is the        *)
(* clusterName read when update() was entered; own says that cu.cluster is  *)
(* an object resync() fetched, and no longer the pointer the updater was    *)
(* created with, which its creator may go on using.                         *)

New(c) ==
  [pc |-> "free", name |-> c, target |-> c, own |-> FALSE, rv |-> 0,
   obj |-> Nothing, ann |-> [set |-> Nothing, del |-> {}],
   needsResync |-> FALSE, tries |-> 0]

NoUpdater == New(CHOOSE c \in Clusters : TRUE)

Updater ==
  [pc : {"free", "resync", "write", "ok", "err"},
   name : Clusters, target : Clusters, own : BOOLEAN, rv : Nat, obj : Object,
   ann : ClusterAnnotation, needsResync : BOOLEAN, tries : Nat]

\* The local part of update(): up to its first API call.  isDirty is
\* Touched(ann) # {}: every setter sets it and reset() clears both.
Entered(r) ==
  IF Touched(r.ann) = {} THEN [r EXCEPT !.pc = "ok"]
  ELSE IF r.needsResync
       THEN [r EXCEPT !.pc = "resync", !.tries = 0, !.target = r.name]
       ELSE [r EXCEPT !.pc = "write", !.tries = 0, !.target = r.name,
                      !.obj = ApplyAnnotation(r.obj, r.ann)]

Failed(r) == [r EXCEPT !.pc = "err", !.needsResync = TRUE]

\* newClusterUpdater(), the setters, and update(), on a copy read earlier: a
\* copy with the current resource version is the current object.
Start(u, c, rv, obj, ann) ==
  /\ upd[u].pc = "free"
  /\ rv <= api[c].rv
  /\ rv = api[c].rv => api[c].live /\ obj = api[c].obj
  /\ upd' = [upd EXCEPT ![u] =
                Entered([New(c) EXCEPT !.rv = rv, !.obj = obj, !.ann = ann])]
  /\ UNCHANGED api

\* reset(), the setters, and update() again.  The copy is not refreshed:
\* update() throws away the object updateCluster() returns.
Reuse(u, ann) ==
  /\ upd[u].pc = "ok"
  /\ upd' = [upd EXCEPT ![u] =
                Entered([upd[u] EXCEPT !.ann = ann, !.needsResync = FALSE])]
  /\ UNCHANGED api

\* The retry handler calls update() on an updater whose last call failed.
Retry(u) ==
  /\ upd[u].pc = "err"
  /\ upd' = [upd EXCEPT ![u] = Entered(upd[u])]
  /\ UNCHANGED api

\* The last reference to the updater is dropped.
Release(u) ==
  /\ upd[u].pc \in {"ok", "err"}
  /\ upd' = [upd EXCEPT ![u] = NoUpdater]
  /\ UNCHANGED api

\* Variant for mutation: only the resource version is refreshed.
ResyncVersionOnly(u) ==
  LET c == upd[u].target
  IN  /\ upd[u].pc = "resync"
      /\ api[c].live
      /\ upd' = [upd EXCEPT ![u] =
                    [@ EXCEPT !.pc = "write", !.name = c, !.own = TRUE,
                              !.rv = api[c].rv, !.needsResync = FALSE]]
      /\ UNCHANGED api

\* resync() gets the object.
Resync(u) ==
  LET c == upd[u].target
  IN  /\ upd[u].pc = "resync"
      /\ api[c].live
      /\ upd' = [upd EXCEPT ![u] =
                    [@ EXCEPT !.pc = "write", !.name = c, !.own = TRUE,
                              !.rv = api[c].rv, !.needsResync = FALSE,
                              !.obj = ApplyAnnotation(api[c].obj, upd[u].ann)]]
      /\ UNCHANGED api

\* getCluster() fails: the object does not exist, or the call does.
ResyncFails(u) ==
  /\ upd[u].pc = "resync"
  /\ upd' = [upd EXCEPT ![u] = Failed(@)]
  /\ UNCHANGED api

\* Variant for mutation: the PUT carries no resource version.
WriteUnconditional(u) ==
  LET c == upd[u].name
  IN  /\ upd[u].pc = "write"
      /\ api[c].live
      /\ api' = Stored(c, TRUE, upd[u].obj)
      /\ upd' = [upd EXCEPT ![u] = [@ EXCEPT !.pc = "ok", !.needsResync = FALSE]]

\* updateCluster() succeeds.
Write(u) ==
  LET c == upd[u].name
  IN  /\ upd[u].pc = "write"
      /\ api[c].live
      /\ upd[u].rv = api[c].rv
      /\ api' = Stored(c, TRUE, upd[u].obj)
      /\ upd' = [upd EXCEPT ![u] = [@ EXCEPT !.pc = "ok", !.needsResync = FALSE]]

\* updateCluster() is carried out, but its caller sees an error.
WriteUnacknowledged(u) ==
  LET c == upd[u].name
  IN  /\ upd[u].pc = "write"
      /\ api[c].live
      /\ upd[u].rv = api[c].rv
      /\ api' = Stored(c, TRUE, upd[u].obj)
      /\ upd' = [upd EXCEPT ![u] = Failed(@)]

\* updateCluster() fails with a conflict: resync and try again, MaxRetryCount
\* times in all.
Conflict(u) ==
  LET c == upd[u].name
      n == upd[u].tries + 1
  IN  /\ upd[u].pc = "write"
      /\ api[c].live
      /\ upd[u].rv # api[c].rv
      /\ upd' = [upd EXCEPT ![u] =
                    [@ EXCEPT !.pc = IF n < MaxRetryCount THEN "resync" ELSE "err",
                              !.tries = n, !.needsResync = TRUE]]
      /\ UNCHANGED api

\* updateCluster() fails with any other error, and update() gives up.
WriteFails(u) ==
  /\ upd[u].pc = "write"
  /\ upd' = [upd EXCEPT ![u] = Failed(@)]
  /\ UNCHANGED api

\* The creator of the updaters in S stores another object behind the pointer
\* it gave to newClusterUpdater().  Only the name matters: needsResync is set.
Alias(S, c) ==
  /\ \A u \in S : upd[u].pc \in {"resync", "err"} /\ ~upd[u].own
  /\ upd' = [u \in Updaters |-> IF u \in S THEN [upd[u] EXCEPT !.name = c]
                                ELSE upd[u]]
  /\ UNCHANGED api

\* Someone else writes, deletes or creates the object.
ForeignWrite(c, live, obj) ==
  /\ api' = Stored(c, live, obj)
  /\ UNCHANGED upd

\* The process restarts without its updaters.
Restart ==
  /\ upd' = [u \in Updaters |-> NoUpdater]
  /\ UNCHANGED api

-----------------------------------------------------------------------------
vars == <<api, upd>>

Init ==
  /\ api \in [Clusters -> [live : BOOLEAN, rv : {0}, obj : Object]]
  /\ upd = [u \in Updaters |-> NoUpdater]

\* A step of an updater that is asked for one of these changes, or of others.
Step(changes) ==
  \/ \E u \in Updaters, c \in Clusters, ann \in changes :
       \E rv \in 0 .. api[c].rv, obj \in Object : Start(u, c, rv, obj, ann)
  \/ \E S \in SUBSET Updaters, c \in Clusters : Alias(S, c)
  \/ \E u \in Updaters, ann \in changes : Reuse(u, ann)
  \/ \E u \in Updaters :
       \/ Retry(u)
       \/ Release(u)
       \/ Resync(u)
       \/ ResyncFails(u)
       \/ Write(u)
       \/ WriteUnacknowledged(u)
       \/ Conflict(u)
       \/ WriteFails(u)
  \/ \E c \in Clusters, live \in BOOLEAN, obj \in Object : ForeignWrite(c, live, obj)
  \/ Restart

Next == Step(Annotations)

Spec == Init /\ [][Next]_vars

\* The same when any change may be asked for.
AnySpec == Init /\ [][Step(ClusterAnnotation)]_vars

-----------------------------------------------------------------------------
(* Properties.                                                              *)

\* api and upd hold what their declarations say.
TypeOK ==
  /\ api \in [Clusters -> [live : BOOLEAN, rv : Nat, obj : Object]]
  /\ upd \in [Updaters -> Updater]

\* The resource version protects the copy: a copy about to be PUT that the
\* API server would accept is the current object with exactly this updater's
\* changes applied, whatever others wrote since it was read.
AcceptedCopyIsCurrent ==
  \A u \in Updaters :
    LET c == upd[u].name
    IN  upd[u].pc = "write" /\ api[c].live /\ upd[u].rv = api[c].rv
          => upd[u].obj = ApplyAnnotation(api[c].obj, upd[u].ann)

\* update(), a GET and a PUT with anything in between, is an atomic
\* read-modify-write: the step in which an updater leaves "write" with success,
\* or changes the API server, merges its changes into the object as it is at
\* that moment.  No field another client wrote is lost, and no change of a
\* successful updater is missing.
AtomicMerge ==
  [][\A u \in Updaters :
       LET c == upd[u].name
       IN  upd[u].pc = "write" /\ upd'[u].pc # "write"
             /\ (upd'[u].pc = "ok" \/ api' # api)
           => /\ api'[c].obj = ApplyAnnotation(api[c].obj, upd[u].ann)
              /\ \A d \in Clusters \ {c} : api'[d] = api[d]]_vars

=============================================================================
