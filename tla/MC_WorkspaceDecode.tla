--------------------------- MODULE MC_WorkspaceDecode ---------------------------
(***************************************************************************)
(* The values of the constants of WorkspaceDecode for TLC: two channels    *)
(* that alternate in the viewport, two documents and two projects.         *)
(***************************************************************************)
EXTENDS WorkspaceDecode, TLC

CONSTANTS c1, c2

MCChannels == {c1, c2}
MCChannelOf == [n \in Numbers |-> IF n % 2 = 1 THEN c1 ELSE c2]
================================================================================
