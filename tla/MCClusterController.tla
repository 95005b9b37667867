-------------------------- MODULE MCClusterController --------------------------
(***************************************************************************)
(* ClusterController for TLC.                                              *)
(***************************************************************************)
EXTENDS ClusterController, TLC

CONSTANTS c1, c2

MCFields == {"state", "id", "work", "nodes", "note"}

MCIds == {"i1", "i2"}

MCValues == Pending \cup InFlight \cup Settled \cup MCIds \cup {"n"}

\* The changes the controller makes are not enumerated.
MCAnnotations == {NoChange}

OneKops == c1 :> "kops"
OneOke == c1 :> "oke"
TwoKops == c1 :> "kops" @@ c2 :> "kops"

=============================================================================
