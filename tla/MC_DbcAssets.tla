------------------------------ MODULE MC_DbcAssets -----------------------------
(* Two contents that are documents under either encoding, one that is not; a *)
(* project that owns one of them twice, under each encoding.                 *)
EXTENDS DbcAssets, TLC

MCParsable == {"body", "other"} \X {"utf", "latin"}
MCOwned == {<<1, <<"body", "utf">>>>, <<2, <<"body", "latin">>>>}
MCSymmetry == Permutations(Workers) \cup Permutations(Ids)
================================================================================
