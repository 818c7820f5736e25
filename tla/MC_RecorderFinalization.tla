------------------------ MODULE MC_RecorderFinalization ------------------------
(* Instances of RecorderFinalization for TLC. *)
EXTENDS RecorderFinalization
================================================================================
