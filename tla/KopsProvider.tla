------------------------------ MODULE KopsProvider ------------------------------
(***************************************************************************)
(* The kops provider, kopsAws/kops.go, on one cluster name, call by call   *)
(* of its tool set.  It keeps the configuration of the cluster as files in *)
(* the kops state store and has kops make the resources in AWS agree with  *)
(* them.  The worker of the controller creates, deletes and scales, one    *)
(* call after the other, while the reconcile loop validates and exports;   *)
(* each call of the tool set may fail and the process may end in between.  *)
(***************************************************************************)
EXTENDS Integers, FiniteSets

CONSTANTS Texts,        \* what a user writes as numberOfNodes, "" for nothing
          ParseInt,      \* strconv.ParseInt(_, 10, 32) of the texts it accepts
          DefaultNumberOfNodes,
          Resources,     \* the unshared resources of a cluster in AWS
          Sizes,         \* bound: the scaleSize arguments
          MaxInt,        \* the largest int32
          MaxCalls,      \* bound: calls of the worker
          MaxFaults      \* bound: failures

MinInt == -MaxInt - 1

ASSUME MaxIntAssumption == MaxInt \in Nat \ {0}

ASSUME TextsAssumption ==
  /\ "" \in Texts /\ DefaultNumberOfNodes \in DOMAIN ParseInt \cap Texts
  /\ \A text \in DOMAIN ParseInt : ParseInt[text] \in MinInt .. MaxInt

ASSUME BoundsAssumption == Sizes \subseteq Int /\ MaxCalls \in Nat /\ MaxFaults \in Nat

ASSUME ResourcesAssumption == Resources # {} /\ IsFiniteSet(Resources)

VARIABLES files,      \* the files of the cluster in the state store
          size,       \* MinSize and MaxSize in the file of the group "nodes"
          resources,  \* the resources that exist
          running,    \* the size the node group in AWS was given
          call,       \* the call the worker is in
          look,       \* the call the reconcile loop is in
          answer,     \* the last answer to the worker
          calls,
          faults

vars == <<files, size, resources, running, call, look, answer, calls, faults>>

\* What getCluster() and the instance group calls find.
Files == {"config", "master", "nodes", "sshkey"}

Complete == {"config", "master", "nodes"} \subseteq files

-----------------------------------------------------------------------------
(* Numbers.                                                                 *)

\* The conversion int32(n): modulo 2^32.
Int32(n) == ((n - MinInt) % (2 * (MaxInt + 1))) + MinInt

\* setDefaultValues()
Number(text) == IF text = "" THEN DefaultNumberOfNodes ELSE text

\* instantiateInstanceGroup(): a text that is no int32 counts as 1.
Instances(text) == IF text \in DOMAIN ParseInt THEN ParseInt[text] ELSE 1

\* Variant for mutation: the size is not added to the count.
ScaledSet(n, by) == IF Int32(by) < 1 THEN 1 ELSE Int32(by)

\* Variant for mutation: the sum is wider than the counts it is stored in.
ScaledWide(n, by) == IF n + by < 1 THEN 1 ELSE n + by

\* nodeCount += int32(scaleSize), and at least 1
Scaled(n, by) == LET sum == Int32(n + Int32(by)) IN IF sum < 1 THEN 1 ELSE sum

-----------------------------------------------------------------------------
(* Calls and answers.  ann is what the ClusterAnnotation of the answer      *)
(* sets: nothing, the node count or the state "ready".                      *)

Idle == [op |-> "none", pc |-> "idle", text |-> "", key |-> FALSE, by |-> 0,
         ann |-> "nothing", from |-> "none"]

Resting == [op |-> "none", pc |-> "idle"]

NoAnswer == [op |-> "none", ok |-> TRUE, ann |-> "nothing", from |-> "none",
             faulted |-> FALSE, by |-> 0, text |-> ""]

\* What Providers calls the state of the cluster, where "up" stands for every state
\* with resources.  "broken" is an incomplete configuration no create completes;
\* "scraps" are files without the one getCluster() reads.
Status(fs, res) ==
  IF res # {} THEN "up"
  ELSE IF {"config", "master", "nodes"} \subseteq fs THEN "config"
  ELSE IF "config" \in fs THEN "broken"
  ELSE IF {"master", "nodes"} \cap fs # {} THEN "scraps" ELSE "none"

Return(ok, ann, faulted) ==
  /\ answer' = [op |-> call.op, ok |-> ok, ann |-> ann, from |-> call.from,
                faulted |-> faulted, by |-> call.by, text |-> call.text]
  /\ call' = Idle

At(pc) == call.pc = pc

Goto(pc) == call' = [call EXCEPT !.pc = pc] /\ UNCHANGED answer

NoFault == UNCHANGED faults

Fault == faults < MaxFaults /\ faults' = faults + 1

\* A call of the tool set that fails and ends the call of the provider.
Fails == Fault /\ Return(FALSE, "nothing", TRUE)

\* One that fails by itself.
Refuses == NoFault /\ Return(FALSE, "nothing", FALSE)

Stored == UNCHANGED <<files, size>>
Cloud == UNCHANGED <<resources, running>>
Worker == UNCHANGED <<look, calls>>

Begins(op, text, key, by) ==
  /\ At("idle") /\ calls < MaxCalls
  /\ calls' = calls + 1
  /\ call' = [Idle EXCEPT !.op = op, !.pc = op, !.text = text, !.key = key, !.by = by,
                          !.from = Status(files, resources)]
  /\ answer' = NoAnswer
  /\ UNCHANGED <<files, size, resources, running, look, faults>>

-----------------------------------------------------------------------------
(* CreateKubeCluster(): up() and apply().                                   *)

\* Variant for mutation: a configuration that exists is an error.
UpReadsOnce ==
  /\ At("create")
  /\ \/ "config" \notin files /\ NoFault /\ Goto("assign")
     \/ "config" \in files /\ Refuses
     \/ Fails
  /\ Stored /\ Cloud /\ Worker

\* up() looks for the configuration; one that exists is not completed.
UpReads ==
  /\ At("create")
  /\ \/ /\ NoFault
        /\ Goto(IF "config" \in files THEN "apply" ELSE "assign")
     \/ Fails
  /\ Stored /\ Cloud /\ Worker

\* The specification of the cluster is put together and its defaults assigned.
UpAssigns ==
  /\ At("assign")
  /\ \/ NoFault /\ Goto("createCluster")
     \/ Fails
  /\ Stored /\ Cloud /\ Worker

\* A file is created, unless it exists; a failure may leave it behind or not.
Creates(file, next) ==
  \/ /\ file \notin files /\ NoFault
     /\ files' = files \cup {file}
     /\ Goto(next)
  \/ file \in files /\ Refuses /\ UNCHANGED files
  \/ Fails /\ files' \in {files, files \cup {file}}

UpCreatesCluster ==
  /\ At("createCluster")
  /\ Creates("config", "createMaster")
  /\ UNCHANGED size /\ Cloud /\ Worker

UpCreatesMaster ==
  /\ At("createMaster")
  /\ Creates("master", "createNodes")
  /\ UNCHANGED size /\ Cloud /\ Worker

UpCreatesNodes ==
  /\ At("createNodes")
  /\ Creates("nodes", "addKey")
  /\ size' = IF "nodes" \in files THEN size ELSE Instances(Number(call.text))
  /\ Cloud /\ Worker

\* addSSHPublicKey() if there is one; then the annotation is made.
UpAddsKey ==
  /\ At("addKey")
  /\ \/ /\ NoFault
        /\ files' = IF call.key THEN files \cup {"sshkey"} ELSE files
        /\ call' = [call EXCEPT !.pc = "apply", !.ann = "nodes"]
        /\ UNCHANGED answer
     \/ call.key /\ Fails /\ files' \in {files, files \cup {"sshkey"}}
  /\ UNCHANGED size /\ Cloud /\ Worker

\* apply() reads the configuration again.
ApplyReads ==
  /\ At("apply")
  /\ \/ "config" \in files /\ NoFault /\ Goto("run")
     \/ "config" \notin files /\ Refuses
     \/ Fails
  /\ Stored /\ Cloud /\ Worker

\* Variant for mutation: an error of applyCmdRun() is not returned.
ApplyRunsAnyhow ==
  /\ At("run")
  /\ \/ NoFault /\ resources' = Resources
     \/ Fault /\ resources' \in {resources \cup r : r \in SUBSET Resources}
  /\ running' = size
  /\ Return(TRUE, IF call.op = "scale" THEN "nodes" ELSE call.ann, FALSE)
  /\ Stored /\ Worker

\* ApplyClusterCmd refuses an incomplete configuration and makes the resources agree
\* with a complete one; when it fails it has come any part of the way.
ApplyRuns ==
  /\ At("run")
  /\ \/ /\ Complete /\ NoFault
        /\ resources' = Resources /\ running' = size
        /\ Return(TRUE, IF call.op = "scale" THEN "nodes" ELSE call.ann, FALSE)
     \/ ~Complete /\ Refuses /\ Cloud
     \/ /\ Complete /\ Fails
        /\ resources' \in {resources \cup r : r \in SUBSET Resources}
        /\ running' \in {running, size}
     \/ ~Complete /\ Fails /\ Cloud
  /\ Stored /\ Worker

-----------------------------------------------------------------------------
(* DeleteKubeCluster()                                                      *)

\* Without a configuration there is nothing to delete.  The region, the AWS client and
\* the place of the configuration are found, or not.
DeleteReads ==
  /\ At("delete")
  /\ \/ "config" \notin files /\ NoFault /\ Return(TRUE, "nothing", FALSE)
     \/ "config" \in files /\ NoFault /\ Goto("list")
     \/ Fails
  /\ Stored /\ Cloud /\ Worker

\* listResources() and extractUnsharedClusterResources()
DeleteLists ==
  /\ At("list")
  /\ \/ NoFault /\ Goto(IF resources = {} THEN "kubeconfig" ELSE "deleteResources")
     \/ Fails
  /\ Stored /\ Cloud /\ Worker

\* Variant for mutation: an error of deleteResources() is only logged.
DeleteResourcesAnyhow ==
  /\ At("deleteResources")
  /\ \/ NoFault /\ resources' = {}
     \/ Fault /\ resources' \in SUBSET resources
  /\ Goto("deleteState")
  /\ Stored /\ UNCHANGED running /\ Worker

DeleteResources ==
  /\ At("deleteResources")
  /\ \/ NoFault /\ resources' = {} /\ Goto("deleteState")
     \/ Fails /\ resources' \in SUBSET resources
  /\ Stored /\ UNCHANGED running /\ Worker

\* The files are removed one by one.
DeleteState ==
  /\ At("deleteState")
  /\ \/ NoFault /\ files' = {} /\ Goto("kubeconfig")
     \/ Fails /\ files' \in SUBSET files
  /\ UNCHANGED size /\ Cloud /\ Worker

\* An error of deleteKubeConfig() is only logged.
DeleteKubeConfig ==
  /\ At("kubeconfig")
  /\ NoFault \/ Fault
  /\ Return(TRUE, "nothing", FALSE)
  /\ Stored /\ Cloud /\ Worker

-----------------------------------------------------------------------------
(* ScaleKubeCluster()                                                       *)

ScaleReads ==
  /\ At("scale")
  /\ \/ "config" \notin files /\ NoFault /\ Return(TRUE, "nothing", FALSE)
     \/ "config" \in files /\ NoFault /\ Goto("readGroup")
     \/ Fails
  /\ Stored /\ Cloud /\ Worker

\* A group of one node is not made smaller.
ScaleReadsGroup ==
  /\ At("readGroup")
  /\ \/ "nodes" \notin files /\ Refuses
     \/ /\ "nodes" \in files /\ NoFault
        /\ IF size = 1 /\ call.by < 0 THEN Return(TRUE, "ready", FALSE)
           ELSE Goto("updateGroup")
     \/ Fails
  /\ Stored /\ Cloud /\ Worker

\* updateInstanceGroup(); apply() follows.
ScaleUpdatesGroup ==
  /\ At("updateGroup")
  /\ \/ NoFault /\ size' = Scaled(size, call.by) /\ Goto("apply")
     \/ Fails /\ size' \in {size, Scaled(size, call.by)}
  /\ UNCHANGED files /\ Cloud /\ Worker

-----------------------------------------------------------------------------
(* The reconcile loop: ValidateKubeCluster() and ExportKubeConfig().        *)

Looks == UNCHANGED <<files, size, resources, running, call, answer, calls>>

LookBegins(op) ==
  /\ look.pc = "idle"
  /\ look' = [op |-> op, pc |-> IF op = "validate" THEN "read" ELSE "export"]
  /\ NoFault /\ Looks

\* Validation reads the configuration and the instance groups.
LookReads ==
  /\ look.pc = "read"
  /\ \/ NoFault /\ look' = IF "config" \in files THEN [look EXCEPT !.pc = "export"] ELSE Resting
     \/ Fault /\ look' = Resting
  /\ Looks

\* ExportKubeConfigBuilder() reads it once more, and hands a nil pointer on when it is
\* gone: the process ends in a panic.  Both operations end here, with an error or not.
LookExports ==
  /\ look.pc = "export" /\ "config" \in files
  /\ NoFault \/ Fault
  /\ look' = Resting
  /\ Looks

Ends ==
  /\ call' = Idle /\ look' = Resting /\ answer' = NoAnswer
  /\ UNCHANGED <<files, size, resources, running, calls>>

LookPanics ==
  /\ look.pc = "export" /\ "config" \notin files
  /\ NoFault /\ Ends

Crash == Fault /\ Ends

-----------------------------------------------------------------------------
Init ==
  /\ files = {} /\ size = 0
  /\ resources = {} /\ running = 0
  /\ call = Idle /\ look = Resting /\ answer = NoAnswer
  /\ calls = 0 /\ faults = 0

Create == UpReads \/ UpAssigns \/ UpCreatesCluster \/ UpCreatesMaster \/ UpCreatesNodes
          \/ UpAddsKey

Apply == ApplyReads \/ ApplyRuns

Delete == DeleteReads \/ DeleteLists \/ DeleteResources \/ DeleteState \/ DeleteKubeConfig

Scale == ScaleReads \/ ScaleReadsGroup \/ ScaleUpdatesGroup

Look == \/ \E op \in {"validate", "export"} : LookBegins(op)
        \/ LookReads \/ LookExports \/ LookPanics

Next ==
  \/ \E text \in Texts, key \in BOOLEAN : Begins("create", text, key, 0)
  \/ Begins("delete", "", FALSE, 0)
  \/ \E by \in Sizes : Begins("scale", "", FALSE, by)
  \/ Create \/ Apply \/ Delete \/ Scale \/ Look \/ Crash

Spec == Init /\ [][Next]_vars

-----------------------------------------------------------------------------
(* Properties.                                                              *)

Statuses == {"none", "scraps", "broken", "config", "up"}

Call == [op : {"none", "create", "delete", "scale"},
         pc : {"idle", "create", "assign", "createCluster", "createMaster", "createNodes",
               "addKey", "apply", "run", "delete", "list", "deleteResources", "deleteState",
               "kubeconfig", "scale", "readGroup", "updateGroup"},
         text : Texts, key : BOOLEAN, by : Sizes \cup {0}, ann : {"nothing", "nodes"},
         from : Statuses]

Answer == [op : {"none", "create", "delete", "scale"}, ok : BOOLEAN,
           ann : {"nothing", "nodes", "ready"}, from : Statuses, faulted : BOOLEAN,
           by : Sizes \cup {0}, text : Texts]

\* The variables hold what their declarations say; the sizes are int32 numbers.
TypeOK ==
  /\ files \subseteq Files /\ resources \subseteq Resources
  /\ size \in MinInt .. MaxInt /\ running \in MinInt .. MaxInt
  /\ call \in Call /\ answer \in Answer
  /\ look \in [op : {"none", "validate", "export"}, pc : {"idle", "read", "export"}]
  /\ calls \in 0 .. MaxCalls /\ faults \in 0 .. MaxFaults

\* Resources are found through the configuration only.  Whatever fails, and wherever the
\* process ends, as long as one of them exists the configuration and both instance groups
\* are still stored: a later DeleteKubeCluster() finds it, and apply() accepts it.
NothingOrphaned == resources # {} => Complete

\* CreateKubeCluster() and ScaleKubeCluster() answer with a node count only when all the
\* resources exist and AWS was given the number of nodes that is stored; what
\* CreateKubeCluster() annotates is the text that number was read from.
CountedIsRunning ==
  answer.ok /\ answer.ann = "nodes" =>
    /\ resources = Resources /\ running = size
    /\ answer.op = "create" => size = Instances(Number(answer.text))

\* A positive scaleSize never makes the group of a working cluster smaller and a negative
\* one never makes it larger, as long as the size and the sum are int32 numbers.
ScalesAsAsked ==
  [][call.op = "scale" /\ size >= 1 /\ {call.by, size + call.by} \subseteq MinInt .. MaxInt =>
       (call.by > 0 => size' >= size) /\ (call.by < 0 => size' <= size)]_vars

\* What Providers says of a kops cluster, on one instance.
Abstract == INSTANCE Providers WITH Ids <- {"kops"}, Fields <- {"state", "nodes"},
                                    Values <- {"ready", "n"}, Absent <- "absent"

\* The status here of one there, and the other way round.
Seen(st) == IF st \in Abstract!Stopped THEN st ELSE "up"

Unseen(st) == {s \in Abstract!Status : Seen(s) = st}

\* What Providers lets an operation do, in terms of this module.
Results(op, by, from) ==
  LET of(s) == CASE op = "create" -> Abstract!KopsCreate(s)
                 [] op = "delete" -> Abstract!KopsDelete(s)
                 [] op = "scale" -> Abstract!KopsScale(s, by >= 0)
      ann(a) == IF a.set["state"] # "absent" THEN "ready"
                ELSE IF a.set["nodes"] # "absent" THEN "nodes" ELSE "nothing"
  IN  {[status |-> Seen(r.inst["kops"]), ok |-> r.ok, ann |-> ann(r.ann), fault |-> r.fault] :
         r \in UNION {of([i \in {"kops"} |-> st]) : st \in Unseen(from)}}

\* The controller is checked with the one-step operations of Providers.  Every call here
\* leaves a status and gives an answer one of them has, with a failure only if one
\* happened; and where the process may end in the middle of a call, the status is one the
\* operation may leave behind.
ActsAsInProviders ==
  LET status == Status(files, resources)
  IN  /\ call.op # "none" =>
           \E r \in Results(call.op, call.by, call.from) : r.status = status
      /\ answer.op # "none" =>
           \E r \in Results(answer.op, answer.by, answer.from) :
             /\ r.status = status /\ r.ok = answer.ok /\ r.ann = answer.ann
             /\ r.fault => answer.faulted

=============================================================================
