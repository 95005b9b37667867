------------------------------- MODULE Registry --------------------------------
(***************************************************************************)
(* The registry of providers: how it is filled when the process starts,    *)
(* what a cluster must satisfy to be submitted, and how the worker and the *)
(* reconcile loop look a provider up (clustercontroller.go 360-521 and     *)
(* 635-791, NewAwsKops() and NewOke()).  A cluster is its class and its    *)
(* state.  What a provider does, and the failures of the API server, are   *)
(* in ClusterController.                                                   *)
(***************************************************************************)
EXTENDS Sequences, FiniteSets, Naturals

CONSTANTS
  Clusters,
  Classes,      \* values of the class annotation, supported or not, or none
  MaxWrites,    \* bound on the writes of users
  MaxStarts     \* bound on the starts of the process

VARIABLES
  config,       \* the environment variables that are set; whether the kops store parses
  providers,    \* clusterProviders: a provider or "nil" for each key of the map
  running,
  objects,      \* class and state of each Cluster object
  events,       \* copies on their way to the informer
  queue,        \* the work queue
  listed,       \* what is left of the list of the reconcile pass
  call,         \* the provider call the worker and the reconcile loop are in
  writes, starts

vars == <<config, providers, running, objects, events, queue, listed, call, writes, starts>>

None == [op |-> "none"]

Goroutines == {"worker", "reconcile"}

-----------------------------------------------------------------------------
(* Start-up.                                                                *)

KopsKeys == {"AWS_ACCESS_KEY_ID", "AWS_SECRET_ACCESS_KEY"}

OkeKeys == {"OKE_BEARER_TOKEN", "OKE_AUTH_GROUP"}

NewAwsKops == IF KopsKeys \subseteq config.env /\ config.store THEN "kops" ELSE "nil"

NewOke == IF OkeKeys \subseteq config.env THEN "oke" ELSE "nil"

\* The error is logged; the key is in the map all the same.
newClusterController == [kops |-> NewAwsKops, oke |-> NewOke]

\* The map gives nil for a class it does not have.
getProvider(class) == IF class \in DOMAIN providers THEN providers[class] ELSE "nil"

actionableStates == {"pending-provision", "pending-shutdown", "pending-up", "pending-down"}

\* The state written before the provider is called; createCluster() writes none.
Marks ==
  [s \in actionableStates |-> CASE s = "pending-provision" -> s
                                [] s = "pending-shutdown" -> "shutting-down"
                                [] s = "pending-up" -> "scaling-up"
                                [] s = "pending-down" -> "scaling-down"]

Init ==
  /\ config \in [env : SUBSET (KopsKeys \cup OkeKeys), store : BOOLEAN]
  /\ objects \in [Clusters -> [class : Classes, state : {"offline"}]]
  /\ providers = <<>> /\ running = FALSE
  /\ events = <<>> /\ queue = <<>> /\ listed = {}
  /\ call = [g \in Goroutines |-> None]
  /\ writes = 0 /\ starts = 0

\* The informer lists the clusters and calls onClusterAdd() for each.
StartClusterController ==
  /\ ~running /\ starts < MaxStarts
  /\ running' = TRUE /\ starts' = starts + 1
  /\ providers' = newClusterController
  /\ \E order \in [1..Cardinality(Clusters) -> Clusters] :
       /\ {order[i] : i \in DOMAIN order} = Clusters
       /\ events' = [i \in DOMAIN order |-> [name |-> order[i], copy |-> objects[order[i]]]]
  /\ UNCHANGED <<config, objects, queue, listed, call, writes>>

-----------------------------------------------------------------------------
(* Users and the informer.  Writes of the controller itself cause events    *)
(* too, which SubmitClusterForProvisioning() drops: none is actionable.     *)

UserWrites(c, object) ==
  /\ writes < MaxWrites /\ writes' = writes + 1
  /\ objects' = [objects EXCEPT ![c] = object]
  /\ events' = IF running THEN Append(events, [name |-> c, copy |-> object]) ELSE events
  /\ UNCHANGED <<config, providers, running, queue, listed, call, starts>>

UserRequests(c, state) == UserWrites(c, [objects[c] EXCEPT !.state = state])

UserSetsClass(c, class) == UserWrites(c, [objects[c] EXCEPT !.class = class])

SubmitClusterForProvisioning ==
  /\ running /\ events # <<>>
  /\ LET copy == Head(events).copy
     IN  queue' = IF copy.class \in DOMAIN providers /\ copy.state \in actionableStates
                  THEN Append(queue, Head(events).name) ELSE queue
  /\ events' = Tail(events)
  /\ UNCHANGED <<config, providers, running, objects, listed, call, writes, starts>>

-----------------------------------------------------------------------------
(* Calls of a provider.                                                     *)

Calling(g, op, c) ==
  call' = [call EXCEPT ![g] = [op |-> op, name |-> c, class |-> objects[c].class]]

\* The worker reads the object again and looks at its state only.
workerFunction ==
  /\ running /\ call["worker"] = None /\ queue # <<>>
  /\ LET c == Head(queue)
         s == objects[c].state
     IN  IF s \in actionableStates
         THEN /\ objects' = [objects EXCEPT ![c].state = Marks[s]]
              /\ Calling("worker", s, c)
         ELSE UNCHANGED <<objects, call>>
  /\ queue' = Tail(queue)
  /\ UNCHANGED <<config, providers, running, events, listed, writes, starts>>

\* The list of clusters of reconcileWhenReady().
listClusters ==
  /\ running /\ call["reconcile"] = None /\ listed = {}
  /\ listed' = {[name |-> c, copy |-> objects[c]] : c \in Clusters}
  /\ UNCHANGED <<config, providers, running, objects, events, queue, call, writes, starts>>

\* One cluster of the list: validateCluster(), clusterJoin() or nothing.
reconcileWhenReady ==
  /\ running /\ call["reconcile"] = None
  /\ \E l \in listed :
       /\ listed' = listed \ {l}
       /\ IF l.copy.state \in {"provisioning", "scaling-up", "scaling-down", "joining"}
          THEN call' = [call EXCEPT !["reconcile"] =
                  [op |-> l.copy.state, name |-> l.name, class |-> l.copy.class]]
          ELSE UNCHANGED call
  /\ UNCHANGED <<config, providers, running, objects, events, queue, writes, starts>>

\* The states written after a call.  None is written after a refused shutdown, an accepted
\* scale or a failed validation.
Outcomes ==
  [op \in actionableStates \cup {"provisioning", "scaling-up", "scaling-down", "joining"} |->
     CASE op = "pending-provision" -> {"failed-provision", "provisioning"}
       [] op = "pending-shutdown" -> {"offline"}
       [] op = "pending-up" -> {"failed-up"}
       [] op = "pending-down" -> {"failed-down", "ready"}
       [] op = "provisioning" -> {"joining"}
       [] OTHER -> {"ready"}]

CallReturns(g) ==
  LET r == call[g]
  IN  /\ running /\ r # None /\ getProvider(r.class) # "nil"
      /\ \/ \E s \in Outcomes[r.op] : objects' = [objects EXCEPT ![r.name].state = s]
         \/ r.op # "pending-provision" /\ UNCHANGED objects
      /\ call' = [call EXCEPT ![g] = None]
      /\ UNCHANGED <<config, providers, running, events, queue, listed, writes, starts>>

\* A method of a nil provider: the process ends.
CallPanics(g) ==
  /\ running /\ call[g] # None /\ getProvider(call[g].class) = "nil"
  /\ running' = FALSE
  /\ events' = <<>> /\ queue' = <<>> /\ listed' = {}
  /\ call' = [h \in Goroutines |-> None]
  /\ UNCHANGED <<config, providers, objects, writes, starts>>

-----------------------------------------------------------------------------
Next ==
  \/ StartClusterController \/ SubmitClusterForProvisioning
  \/ workerFunction \/ listClusters \/ reconcileWhenReady
  \/ \E g \in Goroutines : CallReturns(g) \/ CallPanics(g)
  \/ \E c \in Clusters :
       \/ \E state \in actionableStates : UserRequests(c, state)
       \/ \E class \in Classes : UserSetsClass(c, class)

Spec == Init /\ [][Next]_vars

-----------------------------------------------------------------------------
(* Properties                                                               *)

\* Whoever calls getProvider() gets a provider: "all checks are done on cluster submission",
\* "at this point we assume the aanotation is set and provider is supported".
ProviderIsSupported ==
  \A g \in Goroutines : call[g] # None => getProvider(call[g].class) # "nil"

=============================================================================
