----------------------------- MODULE MCKopsProvider -----------------------------
(***************************************************************************)
(* KopsProvider for TLC: int32 has 4 bits, "9" is out of its range.        *)
(***************************************************************************)
EXTENDS KopsProvider, TLC

MCTexts == {"", "0", "1", "3", "9", "x"}
MCParseInt == "0" :> 0 @@ "1" :> 1 @@ "3" :> 3
MCSizes == {-17, -9, -1, 1, 4, 15}

=============================================================================
