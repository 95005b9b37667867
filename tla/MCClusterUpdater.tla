--------------------------- MODULE MCClusterUpdater ---------------------------
(***************************************************************************)
(* ClusterUpdater for TLC: three annotations (one sets a field, one sets a *)
(* field and deletes another, one is empty) and at most MaxRV resource     *)
(* versions of an object.                                                  *)
(***************************************************************************)
EXTENDS ClusterUpdater, TLC

CONSTANTS f1, f2, v1, MaxRV

MCAnnotations ==
  {[set |-> Nothing, del |-> {}],
   [set |-> [Nothing EXCEPT ![f1] = v1], del |-> {}],
   [set |-> [Nothing EXCEPT ![f2] = v1], del |-> {f1}]}

MCNext == Next /\ \A c \in Clusters : api'[c].rv <= MaxRV

MCSpec == Init /\ [][MCNext]_vars

Symmetry == Permutations(Updaters)

=============================================================================
