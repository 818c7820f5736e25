------------------------------ MODULE RealtimeView ------------------------------
(***************************************************************************)
(* What the realtime store and the decode loop have in common: the numbers *)
(* of the frames of a stream, and the viewport a worker keeps of them      *)
(* (frame-worker-core.ts).                                                 *)
(***************************************************************************)
EXTENDS Naturals, Sequences

CONSTANTS
  ViewCapacity,  \* the capacity of the worker's ring
  MaxStreams,    \* bound on captures
  MaxFrames      \* bound on the frames of a capture

ASSUME ViewAssumption ==
  /\ MaxStreams \in Nat /\ MaxFrames \in Nat /\ ViewCapacity \in Nat \ {0}

Numbers == 1..MaxFrames
================================================================================
