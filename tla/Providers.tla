------------------------------- MODULE Providers -------------------------------
(***************************************************************************)
(* The two providers behind the interface of provider/kubeprovider.go, as  *)
(* the controller sees them: kops on AWS (kopsAws/kops.go), which finds a  *)
(* cluster by its name, and OKE (oke/okebmc.go), which finds it by the     *)
(* cluster id kept in an annotation.  An operation is the set of results   *)
(* it may have: what it does in the cloud, the ClusterAnnotation and the   *)
(* error it returns.  A result marked as a fault needs a failure outside   *)
(* the controller; the others are what a healthy cloud answers.            *)
(***************************************************************************)
EXTENDS AnnotationChanges

CONSTANT Ids     \* identities of clusters in the cloud

ASSUME IdsAssumption == Ids # {}

\* What is left of a kops cluster without resources: "config" is a complete configuration,
\* "broken" one without both instance groups, "scraps" are instance groups alone.
Stopped == {"none", "scraps", "broken", "config"}

Status == Stopped \cup {"building", "running", "failed", "gone"}

\* The cloud's view of one Cluster object.
Instances == [Ids -> Status]

\* kops knows a cluster by name: one instance per Cluster object.
KopsId == CHOOSE i \in Ids : TRUE

-----------------------------------------------------------------------------
\* SetAnnotation() for every field of the record g.
Set(g) ==
  [set |-> [f \in Fields |-> IF f \in DOMAIN g THEN g[f] ELSE Absent], del |-> {}]

\* A nil *ClusterAnnotation.
NoChange == [set |-> Nothing, del |-> {}]

\* Variant for mutation: the provider's annotation is not copied.
MergeDrops(a, b) == b

\* clusterAnnotation, then b, as copyAnnotation() and setAnnotation() add them.
Merge(a, b) ==
  [set |-> [f \in Fields |-> IF b.set[f] # Absent THEN b.set[f] ELSE a.set[f]],
   del |-> a.del \cup b.del]

Result(inst, ann, ok, fault) == [inst |-> inst, ann |-> ann, ok |-> ok, fault |-> fault]

Fine(inst, ann) == Result(inst, ann, TRUE, FALSE)

Refused(inst, ann) == Result(inst, ann, FALSE, FALSE)

Broken(inst) == Result(inst, NoChange, FALSE, TRUE)

\* The number of nodes, whatever it is.
NodeCount == Set([nodes |-> "n"])

\* The scale down finds a single node and asks for the state to be set back.
BackToReady == Set([state |-> "ready"])

-----------------------------------------------------------------------------
(* kops                                                                     *)

At(s, i, st) == [s EXCEPT ![i] = st]

\* ApplyClusterCmd creates whatever is missing.
Applied(st) == IF st \in {"none", "config", "failed"} THEN "building" ELSE st

\* The results of a call that fails on its way.
BrokenAt(s, sts) == {Broken(At(s, KopsId, st)) : st \in sts}

\* up() and apply(): a configuration that exists is used again as it is, instance groups
\* that exist are an error.
KopsCreate(s) ==
  LET st == s[KopsId]
      built == At(s, KopsId, Applied(st))
  IN  CASE st = "none" -> {Fine(built, NodeCount)}
                             \cup BrokenAt(s, {"none", "broken", "config", "building"})
        [] st = "scraps" -> {Refused(At(s, KopsId, left), NoChange) :
                               left \in {"broken", "config"}}
                              \cup BrokenAt(s, {"scraps", "broken", "config"})
        [] st = "broken" -> {Refused(s, NoChange), Broken(s)}
        [] OTHER -> {Fine(built, NoChange), Broken(s), Broken(built)}

\* Without resources the stored configuration is left alone.
KopsDelete(s) ==
  IF s[KopsId] \in Stopped THEN {Fine(s, NoChange), Broken(s)}
  ELSE {Fine(At(s, KopsId, "none"), NoChange), Broken(s)} \cup BrokenAt(s, Stopped)

\* A cluster that does not exist is scaled without an error.
KopsScale(s, up) ==
  LET st == s[KopsId]
      building == At(s, KopsId, "building")
      back == IF up THEN {} ELSE {Fine(s, BackToReady)}
  IN  CASE st \in {"none", "scraps"} -> {Fine(s, NoChange), Broken(s)}
        [] st = "broken" -> {Refused(s, NoChange), Broken(s)} \cup back
        [] OTHER -> {Fine(building, NodeCount), Broken(s), Broken(building)} \cup back

KopsValidate(s) ==
  IF s[KopsId] = "running" THEN {Fine(s, NoChange), Broken(s)}
  ELSE {Refused(s, NoChange)}

KopsExport(s) ==
  IF s[KopsId] \in {"none", "scraps"} THEN {} ELSE {Fine(s, NoChange), Broken(s)}

\* ExportKubeConfigBuilder() follows a nil pointer when there is no configuration.
KopsPanics(op, s) ==
  IF op = "export" /\ s[KopsId] \in {"none", "scraps"} THEN {Refused(s, NoChange)} ELSE {}

-----------------------------------------------------------------------------
(* OKE.  The work item of an operation is named by the cluster it works on. *)

\* Every request makes a new cluster; its answer may be lost or unreadable.  When all
\* Ids are taken, none is made.
OkeCreate(s) ==
  LET new == {i \in Ids : s[i] = "none"}
      i == CHOOSE i \in new : TRUE
  IN  {Broken(s)} \cup
      IF new = {} THEN {}
      ELSE {Fine(At(s, i, "building"), Set([id |-> i, work |-> i, nodes |-> "n"])),
            Broken(At(s, i, "building"))}

\* An error of the request is logged and not returned.
OkeDelete(s, obj) ==
  IF obj["id"] = Absent THEN {Refused(s, NoChange)}
  ELSE {Fine(At(s, obj["id"], "gone"), NoChange), Result(s, NoChange, TRUE, TRUE)}

\* OKE does not know the cluster: it answers with an error object.
Unknown(s, obj) == obj["id"] # Absent /\ s[obj["id"]] = "gone"

\* The answer names a work item or not.
OkeScale(s, obj, up) ==
  LET building == At(s, obj["id"], "building")
  IN  IF obj["id"] = Absent THEN {Refused(s, NoChange)}
      ELSE IF Unknown(s, obj) THEN {Broken(s)}
      ELSE {Fine(building, Set([work |-> obj["id"], nodes |-> "n"])),
            Fine(building, NoChange), Broken(s), Broken(building)}
             \cup (IF up THEN {} ELSE {Fine(s, BackToReady)})

\* First the work item, if there is one, then the cluster.
WorkPending(s, obj) == obj["work"] # Absent /\ s[obj["work"]] \in {"building", "failed"}

OkeValidate(s, obj) ==
  LET done == IF obj["work"] = Absent THEN NoChange
              ELSE [NoChange EXCEPT !.del = {"work"}]
      answer == IF Unknown(s, obj) THEN {}
                ELSE IF obj["id"] # Absent /\ s[obj["id"]] = "running" THEN {Fine(s, done)}
                ELSE {Refused(s, done)}
  IN  {Broken(s), Result(s, done, FALSE, TRUE)}
        \cup (IF WorkPending(s, obj) THEN {Refused(s, NoChange)} ELSE answer)
        \cup (IF WorkPending(s, obj) /\ s[obj["work"]] = "building" THEN answer ELSE {})

OkeExport(s, obj) ==
  IF obj["id"] = Absent THEN {Refused(s, NoChange)}
  ELSE IF Unknown(s, obj) THEN {Broken(s)} ELSE {Fine(s, NoChange), Broken(s)}

\* An error object is read as an answer without pools, without a cluster and without a
\* context: the process ends at the first use of them.
OkePanics(op, s, obj) ==
  IF \/ obj["id"] = Absent \/ op \notin {"scale", "validate", "export"}
     \/ op = "validate" /\ obj["work"] # Absent /\ s[obj["work"]] = "failed"
  THEN {} ELSE {Result(s, NoChange, FALSE, ~Unknown(s, obj))}

-----------------------------------------------------------------------------
(* provider.Provider                                                        *)

CreateKubeCluster(class, s, obj) ==
  IF class = "kops" THEN KopsCreate(s) ELSE OkeCreate(s)

DeleteKubeCluster(class, s, obj) ==
  IF class = "kops" THEN KopsDelete(s) ELSE OkeDelete(s, obj)

ScaleKubeCluster(class, s, obj, up) ==
  IF class = "kops" THEN KopsScale(s, up) ELSE OkeScale(s, obj, up)

ValidateKubeCluster(class, s, obj) ==
  IF class = "kops" THEN KopsValidate(s) ELSE OkeValidate(s, obj)

ExportKubeConfig(class, s, obj) ==
  IF class = "kops" THEN KopsExport(s) ELSE OkeExport(s, obj)

\* The results with which an operation ends the process in a panic.
Panics(class, op, s, obj) ==
  IF class = "kops" THEN KopsPanics(op, s) ELSE OkePanics(op, s, obj)

=============================================================================
