----------------------------- MODULE MCOkeProvider -----------------------------
(***************************************************************************)
(* OkeProvider for TLC: int32 has 4 bits, "9" is out of its range, and OKE *)
(* adds a pool of its own to the one it is asked for.                      *)
(***************************************************************************)
EXTENDS OkeProvider

MCTexts == {"", "0", "1", "9"}
MCParseInt == "0" :> 0 @@ "1" :> 1
MCNodeZones == <<"ad1", "ad2">>
MCOtherPools == <<Object([name |-> Text("other"), ads |-> Array(<<>>),
                          workersPerAD |-> Number(2)])>>
MCSizes == {-1, 7}

=============================================================================
