--------------------------- MODULE SessionContract ----------------------------
(***************************************************************************)
(* What a data session promises to whoever records into it and reads it    *)
(* back, files, rows, crashes and recovery left out: frames become durable *)
(* in the order they were accepted and stay durable, COMPLETED means all   *)
(* of them did, and a session ends once.                                   *)
(***************************************************************************)
EXTENDS Naturals

VARIABLES
  state,    \* the state of the session
  offered,  \* the sequence numbers of the frames it accepted
  durable   \* those a reader will find, now and for ever

cvars == <<state, offered, durable>>

Init ==
  /\ state = "none"
  /\ offered = {}
  /\ durable = {}

Open ==
  /\ state = "none"
  /\ state' = "active"
  /\ UNCHANGED <<offered, durable>>

\* Frames are accepted only behind all the frames accepted before.
Offer ==
  /\ state = "active"
  /\ offered' \in SUBSET Nat
  /\ offered \subseteq offered'
  /\ \A old \in offered, new \in offered' \ offered : old < new
  /\ UNCHANGED <<state, durable>>

\* What becomes durable leaves no older frame behind.
Persist ==
  /\ state = "active"
  /\ durable \subseteq durable'
  /\ durable' \subseteq offered
  /\ \A f \in durable', g \in offered \ durable' : f < g
  /\ UNCHANGED <<state, offered>>

Complete ==
  /\ state = "active"
  /\ durable = offered
  /\ state' = "completed"
  /\ UNCHANGED <<offered, durable>>

\* The writer gives up, or a recovery finds that it died.
End ==
  /\ state = "active"
  /\ state' \in {"failed", "interrupted"}
  /\ UNCHANGED <<offered, durable>>

Next == Open \/ Offer \/ Persist \/ Complete \/ End

Spec == Init /\ [][Next]_cvars
===============================================================================
