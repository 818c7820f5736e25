--------------------- MODULE RecorderFinalizationProofs ---------------------
(***************************************************************************)
(* Proofs about RecorderFinalization, for any number of captures and with  *)
(* or without disk faults.                                                 *)
(*                                                                         *)
(* None of the safety properties is inductive.  What makes a verdict final *)
(* is spread over the actors: the loop starts the worker of a recorder     *)
(* only after its archive task has ended (WorkerAfterArchive), an append   *)
(* that outlives that task belongs to a recorder that has failed           *)
(* (AppendOwned), a recorder that has failed is past its commit            *)
(* (FailedNeverCommits), and the gate closes only over a worker that is    *)
(* not inside its terminal section (ClosedNeverCommits).                   *)
(***************************************************************************)
EXTENDS RecorderFinalization, TLAPS

\* A recorder not created yet has no thread, no session and no failure.
Unborn(c) ==
  /\ worker[c] = "none" /\ append[c] = "none"
  /\ mem[c] = "none" /\ row[c] = "none"
  /\ ~recFailed[c] /\ ~completed[c] /\ recState[c] = "idle"
  /\ ~lost[c] /\ ~buffer[c]

Fresh == \A c \in Captures : c > current => Unborn(c)

\* The fields of the service that are set together.
Owned ==
  /\ last <= current
  /\ call = "open" => last < current
  /\ ~pipeline => archive = "none" /\ (call = "abort" \/ cleanup = "none")
  /\ call \in {"open", "launch"} =>
       pipeline /\ cleanup = "none" /\ archive = "none"
  /\ call = "abort" => ~pipeline
  /\ pipeline \/ call = "abort" => current \in Captures

WorkerAfterArchive ==
  /\ cleanup # "none" => archive \in {"none", "done"}
  /\ (pipeline \/ call = "abort") /\ cleanup \in {"none", "join"}
       => worker[current] = "none"

\* A thread or a terminal step belongs to an opened session, and the last one
\* opened is the only one still to be finalized.
Opened ==
  /\ \A c \in Captures : /\ mem[c] # "none" => c <= last
                         /\ worker[c] # "none" => mem[c] # "none"
                         /\ append[c] # "none" => mem[c] # "none"
                         /\ recState[c] = "recording" => mem[c] # "none"
  /\ cleanup \in {"wait", "gate", "verdict"} => last = current
  /\ settling => last = current /\ last \in Captures

FailurePublished ==
  /\ \A c \in condemned : recFailed[c]
  /\ pipeline /\ call \notin {"open", "launch"} /\ failure # 0
       => recFailed[current]

AppendOwned ==
  \A c \in Captures :
    append[c] \in {"queued", "register"} =>
      recFailed[c] \/ (archive = "writing" /\ c = current)

FailedNeverCommits ==
  \A c \in Captures : recFailed[c] => worker[c] # "commit" /\ ~completed[c]

ClosedNeverCommits ==
  /\ \A c \in Captures : budget[c] = "closed" => worker[c] # "commit"
  /\ cleanup = "verdict" => budget[current] = "closed" /\ ~completed[current]

\* COMPLETED, in the database or in memory, is the worker's doing alone.
CompletedByWorker ==
  \A c \in Captures :
    /\ row[c] = "completed" \/ mem[c] = "completed" => completed[c]
    /\ completed[c] => worker[c] \in {"exit", "done"} /\ ~lost[c] /\ ~buffer[c]

NothingLostOnTheWay ==
  \A c \in Captures :
    /\ lost[c] => recFailed[c] \/ mem[c] = "failed"
    /\ worker[c] \in {"decide", "commit"} /\ ~recFailed[c] => ~buffer[c]

OneFinalization == \A c \in Captures : c # current => ~WorkerPending(c)

\* What the worker and the gate report is what the database holds.
DurableCompletion ==
  \A c \in Captures :
    /\ completed[c] => row[c] = "completed"
    /\ gate[c] = "sawCompleted" => completed[c]

\* A worker left behind by a cleanup is waited for, or known to have completed.
FinalizingOwned ==
  /\ cleanup = "done" /\ last = current /\ last \in Captures /\
     WorkerPending(last)
       => settling \/ closing \/ completed[last] \/ failure # 0
  /\ capture = "finalizing" /\ call \in {"none", "abort"} /\ ~pipeline
       => closing \/ settling \/ (last \in Captures /\ row[last] = "completed")

IInv ==
  /\ TypeOK /\ Fresh /\ Owned /\ WorkerAfterArchive /\ Opened
  /\ FailurePublished /\ AppendOwned /\ FailedNeverCommits
  /\ ClosedNeverCommits /\ CompletedByWorker /\ NothingLostOnTheWay
  /\ OneFinalization /\ DurableCompletion /\ FinalizingOwned

-----------------------------------------------------------------------------
(***************************************************************************)
(* Type correctness.  It is not inductive alone: that the published failure *)
(* is the failure of a capture comes from Owned and Opened.                *)
(***************************************************************************)
LEMMA InitTypeOK == Init => TypeOK
<1> SUFFICES ASSUME Init PROVE TypeOK
  OBVIOUS
<1>1. /\ capture \in CaptureState /\ call \in CallState
      /\ archive \in ArchiveState /\ cleanup \in CleanupState
  BY DEF Init, CaptureState, CallState, ArchiveState, CleanupState
<1>2. /\ recState \in [Captures -> RecorderState]
      /\ budget \in [Captures -> Budget]
      /\ worker \in [Captures -> WorkerState]
      /\ append \in [Captures -> AppendState]
      /\ gate \in [Captures -> GateState]
      /\ mem \in [Captures -> SessionState]
      /\ row \in [Captures -> SessionState]
  BY DEF Init, RecorderState, Budget, WorkerState, AppendState, GateState,
         SessionState
<1>3. /\ failure \in 0..MaxCaptures /\ current \in 0..MaxCaptures
      /\ last \in 0..MaxCaptures /\ condemned \in SUBSET Captures
  BY FinalizationAssumption DEF Init
<1>4. QED
  BY <1>1, <1>2, <1>3 DEF Init, TypeOK

\* What a failure leaves behind is well typed, if there is a capture to blame.
LEMMA PublishFailureType ==
  ASSUME TypeOK, current \in Captures, PublishFailure
  PROVE  /\ failure' \in 0..MaxCaptures
         /\ condemned' \in SUBSET Captures
         /\ recState' \in [Captures -> RecorderState]
         /\ recFailed' \in [Captures -> BOOLEAN]
<1>1. CASE failure # 0
  BY <1>1 DEF TypeOK, PublishFailure
<1>2. CASE failure = 0
  <2>1. failure' \in 0..MaxCaptures
    BY <1>2 DEF TypeOK, PublishFailure
  <2>2. condemned' = condemned \union {current}
    BY <1>2 DEF PublishFailure
  <2>3. condemned' \in SUBSET Captures
    BY <2>2 DEF TypeOK
  <2>4. /\ recState' \in [Captures -> RecorderState]
        /\ recFailed' \in [Captures -> BOOLEAN]
    BY <1>2 DEF TypeOK, PublishFailure, RecorderFail, RecorderState
  <2>5. QED
    BY <2>1, <2>3, <2>4
<1>3. QED
  BY <1>1, <1>2

LEMMA HandleRecorderFailureType ==
  ASSUME TypeOK, current \in Captures, HandleRecorderFailure
  PROVE  /\ failure' \in 0..MaxCaptures
         /\ condemned' \in SUBSET Captures
         /\ recState' \in [Captures -> RecorderState]
         /\ recFailed' \in [Captures -> BOOLEAN]
         /\ capture' \in CaptureState
         /\ archive' \in ArchiveState
         /\ cleanup' \in CleanupState
         /\ queued' \in BOOLEAN
         /\ lost' \in [Captures -> BOOLEAN]
<1>1. /\ archive' \in ArchiveState
      /\ cleanup' \in CleanupState
  BY DEF TypeOK, HandleRecorderFailure, EnsureCleanup, ArchiveState,
         CleanupState
<1>2. /\ capture' \in CaptureState
      /\ queued' \in BOOLEAN
      /\ lost' \in [Captures -> BOOLEAN]
  BY DEF TypeOK, HandleRecorderFailure, CaptureState
<1>3. QED
  BY <1>1, <1>2, PublishFailureType DEF HandleRecorderFailure

\* A new capture is within the bound.
LEMMA MayStartType ==
  ASSUME TypeOK, MayStart
  PROVE  current + 1 \in Captures /\ current + 1 \in 0..MaxCaptures
BY FinalizationAssumption DEF TypeOK, MayStart, Captures

LEMMA NextTypeOK == IInv /\ [Next]_vars => TypeOK'
<1> SUFFICES ASSUME IInv, [Next]_vars PROVE TypeOK'
  OBVIOUS
<1> USE FinalizationAssumption
<1>1. CASE StartProject
  BY <1>1, MayStartType DEF IInv, TypeOK, StartProject, recVars, storeVars,
     CallState
<1>2. CASE StartRealtime
  <2>1. capture' \in CaptureState /\ archive' \in ArchiveState
    BY <1>2 DEF StartRealtime, CaptureState, ArchiveState
  <2>2. current' \in 0..MaxCaptures /\ failure' \in 0..MaxCaptures
    BY <1>2, MayStartType DEF IInv, StartRealtime
  <2>3. QED
    BY <1>2, <2>1, <2>2 DEF IInv, TypeOK, StartRealtime, recVars, storeVars
<1>3. CASE RecorderOpens
  BY <1>3 DEF IInv, TypeOK, RecorderOpens, CallState, RecorderState,
     SessionState, Captures
<1>4. CASE CaptureStarts
  BY <1>4 DEF IInv, TypeOK, CaptureStarts, recVars, storeVars, CaptureState,
     CallState, ArchiveState, Captures
<1>5. CASE StartAborts
  <2>1. current \in Captures
    BY <1>5 DEF IInv, Owned, StartAborts
  <2>2. QED
    BY <1>5, <2>1, PublishFailureType
       DEF IInv, TypeOK, StartAborts, EnsureCleanup, storeVars, CallState,
           ArchiveState, CaptureState, CleanupState
<1>6. CASE AbortEnds
  BY <1>6 DEF IInv, TypeOK, AbortEnds, recVars, storeVars, CallState,
     CleanupState
<1>7. CASE FramesArrive
  BY <1>7 DEF IInv, TypeOK, FramesArrive, recVars, storeVars
<1>8. CASE ArchiveTakes
  BY <1>8 DEF IInv, TypeOK, ArchiveTakes, storeVars, ArchiveState, AppendState
<1>9. CASE ArchiveResumes
  <2>1. current \in Captures
    BY <1>9 DEF IInv, Owned, ArchiveResumes
  <2>2. CASE HandleRecorderFailure
    BY <1>9, <2>1, <2>2, HandleRecorderFailureType DEF IInv, TypeOK,
       ArchiveResumes
  <2>3. CASE append[current] = "ok"
    BY <1>9, <2>3 DEF IInv, TypeOK, ArchiveResumes, ArchiveState
  <2>4. QED
    BY <1>9, <2>2, <2>3 DEF ArchiveResumes
<1>10. CASE Backpressure
  <2>1. current \in Captures
    BY <1>10 DEF IInv, Owned, Backpressure
  <2>2. CASE HandleRecorderFailure
    BY <1>10, <2>1, <2>2, HandleRecorderFailureType DEF IInv, TypeOK,
       Backpressure
  <2>3. QED
    BY <1>10, <2>2 DEF Backpressure
<1>11. CASE StopBegins
  BY <1>11 DEF IInv, TypeOK, StopBegins, recVars, storeVars, CaptureState,
     CallState
<1>12. CASE IngressStops
  BY <1>12 DEF IInv, TypeOK, IngressStops, recVars, storeVars, CallState
<1>13. CASE ArchiveEnds
  BY <1>13 DEF IInv, TypeOK, ArchiveEnds, recVars, storeVars, ArchiveState
<1>14. CASE DrainEnds
  BY <1>14 DEF IInv, TypeOK, DrainEnds, EnsureCleanup, recVars, storeVars,
     CallState, CleanupState
<1>15. CASE DrainTimesOut
  <2>1. current \in Captures
    BY <1>15 DEF IInv, Owned, DrainTimesOut
  <2>2. CASE HandleRecorderFailure
    BY <1>15, <2>1, <2>2, HandleRecorderFailureType DEF IInv, TypeOK,
       DrainTimesOut, CallState
  <2>3. QED
    BY <1>15, <2>2 DEF DrainTimesOut
<1>16. CASE StopEnds
  BY <1>16 DEF IInv, TypeOK, StopEnds, recVars, storeVars, CaptureState,
     CallState, ArchiveState, CleanupState
<1>17. CASE Close
  BY <1>17 DEF IInv, TypeOK, Close, recVars, storeVars
<1>18. CASE CleanupStops
  BY <1>18 DEF IInv, TypeOK, CleanupStops, storeVars, CleanupState, Budget,
     WorkerState
<1>19. CASE CleanupReturns
  BY <1>19 DEF IInv, TypeOK, CleanupReturns, recVars, storeVars, CleanupState
<1>20. CASE BudgetRunsOut
  BY <1>20 DEF IInv, TypeOK, BudgetRunsOut, loopVars, storeVars, Budget
<1>21. CASE DeadlineExpires
  BY <1>21 DEF IInv, TypeOK, DeadlineExpires, storeVars, CleanupState,
     WorkerState
<1>22. CASE GateCloses
  BY <1>22 DEF IInv, TypeOK, GateCloses, storeVars, CleanupState, Budget,
     GateState
<1>23. CASE GatePending
  BY <1>23 DEF IInv, TypeOK, GatePending, recVars, storeVars, CaptureState,
     CleanupState
<1>24. CASE GateDecides
  <2>1. current \in Captures
    BY <1>24 DEF IInv, Owned, GateDecides
  <2>2. failure' \in 0..MaxCaptures
    BY <1>24 DEF IInv, TypeOK, GateDecides
  <2>3. condemned' \in SUBSET Captures
    <3>1. condemned' \in {condemned, condemned \union {current}}
      BY <1>24 DEF GateDecides
    <3>2. QED
      BY <2>1, <3>1 DEF IInv, TypeOK
  <2>4. QED
    BY <1>24, <2>1, <2>2, <2>3
       DEF IInv, TypeOK, GateDecides, RecorderFail, CaptureState, CleanupState,
           RecorderState
<1>25. CASE Settles
  <2>1. last \in Captures
    BY <1>25 DEF IInv, Opened, Settles
  <2>2. failure' \in 0..MaxCaptures
    BY <1>25 DEF IInv, TypeOK, Settles
  <2>3. condemned' \in SUBSET Captures
    <3>1. condemned' \in {condemned, condemned \union {last}}
      BY <1>25 DEF Settles
    <3>2. QED
      BY <2>1, <3>1 DEF IInv, TypeOK
  <2>4. QED
    BY <1>25, <2>1, <2>2, <2>3
       DEF IInv, TypeOK, Settles, RecorderFail, storeVars, CaptureState,
           RecorderState
<1>26. CASE SettlementAbandoned
  BY <1>26 DEF IInv, TypeOK, SettlementAbandoned, recVars, storeVars
<1>27. ASSUME NEW c \in Captures, AppendBuffers(c) PROVE TypeOK'
  BY <1>27 DEF IInv, TypeOK, AppendBuffers, loopVars, AppendState
<1>28. ASSUME NEW c \in Captures, AppendRegisters(c) PROVE TypeOK'
  BY <1>28 DEF IInv, TypeOK, AppendRegisters, loopVars, AppendState,
     SessionState
<1>29. ASSUME NEW c \in Captures, AppendFails(c) PROVE TypeOK'
  BY <1>29 DEF IInv, TypeOK, AppendFails, MarkFailed, FailedRow, loopVars,
     AppendState, SessionState
<1>30. ASSUME NEW c \in Captures, WorkerStarts(c) PROVE TypeOK'
  BY <1>30 DEF IInv, TypeOK, WorkerStarts, RecorderFail, loopVars, storeVars,
     RecorderState, WorkerState
<1>31. ASSUME NEW c \in Captures, WorkerWrites(c) PROVE TypeOK'
  BY <1>31 DEF IInv, TypeOK, WorkerWrites, loopVars, storeVars, WorkerState
<1>32. ASSUME NEW c \in Captures, WorkerRegisters(c) PROVE TypeOK'
  BY <1>32 DEF IInv, TypeOK, WorkerRegisters, loopVars, WorkerState,
     SessionState
<1>33. ASSUME NEW c \in Captures, FlushFails(c) PROVE TypeOK'
  BY <1>33 DEF IInv, TypeOK, FlushFails, MarkFailed, FailedRow, RecorderFail,
     loopVars, RecorderState, WorkerState, SessionState
<1>34. ASSUME NEW c \in Captures, WorkerReadsGate(c) PROVE TypeOK'
  BY <1>34 DEF IInv, TypeOK, WorkerReadsGate, RecorderFail, loopVars,
     storeVars, RecorderState, WorkerState
<1>35. ASSUME NEW c \in Captures, WorkerCommits(c) PROVE TypeOK'
  BY <1>35 DEF IInv, TypeOK, WorkerCommits, loopVars, RecorderState,
     WorkerState, SessionState
<1>36. ASSUME NEW c \in Captures, CommitFails(c) PROVE TypeOK'
  BY <1>36 DEF IInv, TypeOK, CommitFails, MarkFailed, FailedRow, RecorderFail,
     loopVars, RecorderState, WorkerState, SessionState
<1>37. ASSUME NEW c \in Captures, WorkerRefuses(c) PROVE TypeOK'
  BY <1>37 DEF IInv, TypeOK, WorkerRefuses, MarkFailed, FailedRow, loopVars,
     WorkerState, SessionState
<1>38. ASSUME NEW c \in Captures, WorkerSettles(c) PROVE TypeOK'
  BY <1>38 DEF IInv, TypeOK, WorkerSettles, loopVars, storeVars, WorkerState
<1>39. ASSUME NEW c \in Captures, GateClaims(c) PROVE TypeOK'
  BY <1>39 DEF IInv, TypeOK, GateClaims, loopVars, GateState, SessionState
<1>40. ASSUME NEW c \in Captures, GateReads(c) PROVE TypeOK'
  BY <1>40 DEF IInv, TypeOK, GateReads, loopVars, storeVars, GateState
<1>41. ASSUME NEW c \in Captures, GateFails(c) PROVE TypeOK'
  BY <1>41 DEF IInv, TypeOK, GateFails, loopVars, storeVars, GateState
<1>42. CASE UNCHANGED vars
  BY <1>42 DEF IInv, TypeOK, vars, loopVars, recVars, storeVars
<1>43. QED
  BY <1>1, <1>2, <1>3, <1>4, <1>5, <1>6, <1>7, <1>8, <1>9, <1>10, <1>11,
     <1>12, <1>13, <1>14, <1>15, <1>16, <1>17, <1>18, <1>19, <1>20, <1>21,
     <1>22, <1>23, <1>24, <1>25, <1>26, <1>27, <1>28, <1>29, <1>30, <1>31,
     <1>32, <1>33, <1>34, <1>35, <1>36, <1>37, <1>38, <1>39, <1>40, <1>41,
     <1>42 DEF Next, LoopNext, AppendNext, WorkerNext, GateNext

LEMMA InitIInv == Init => IInv
<1> SUFFICES ASSUME Init PROVE IInv
  OBVIOUS
<1> USE FinalizationAssumption DEF Init
<1>1. TypeOK
  BY InitTypeOK
<1>2. Fresh /\ FailurePublished /\ AppendOwned /\ FailedNeverCommits
      /\ ClosedNeverCommits /\ CompletedByWorker /\ NothingLostOnTheWay
      /\ DurableCompletion
  BY DEF Fresh, Unborn, FailurePublished, AppendOwned, FailedNeverCommits,
         ClosedNeverCommits, CompletedByWorker, NothingLostOnTheWay,
         DurableCompletion
<1>3. Owned /\ WorkerAfterArchive /\ Opened /\ FinalizingOwned
  BY DEF Owned, WorkerAfterArchive, Opened, FinalizingOwned
<1>4. OneFinalization
  BY DEF OneFinalization, WorkerPending
<1>5. QED
  BY <1>1, <1>2, <1>3, <1>4 DEF IInv


-----------------------------------------------------------------------------
(***************************************************************************)
(* The parts of the invariant, one lemma each.  The cases of a lemma are the *)
(* actions that touch the variables of its part.                           *)
(***************************************************************************)
LEMMA NextFresh == IInv /\ [Next]_vars => Fresh'
<1> SUFFICES ASSUME IInv, [Next]_vars PROVE Fresh'
  OBVIOUS
<1> USE DEF IInv, TypeOK, Fresh, Owned, Opened, Unborn
<1>1. CASE UNCHANGED <<current, worker, append, mem, row, recFailed,
   completed, recState, lost, buffer>>
  BY <1>1
<1>2. CASE StartProject
  <2>1. \A c \in Captures : c > current' => c > current
    BY <1>2, FinalizationAssumption DEF StartProject, Captures
  <2>2. QED
    BY <1>2, <2>1 DEF StartProject, recVars, storeVars
<1>3. CASE StartRealtime
  <2>1. \A c \in Captures : c > current' => c > current
    BY <1>3, FinalizationAssumption DEF StartRealtime, Captures
  <2>2. QED
    BY <1>3, <2>1 DEF StartRealtime, recVars, storeVars
<1>4. CASE RecorderOpens
  BY <1>4 DEF RecorderOpens
<1>5. CASE StartAborts
  BY <1>5 DEF StartAborts, PublishFailure, RecorderFail, EnsureCleanup,
     storeVars
<1>6. CASE ArchiveTakes
  BY <1>6 DEF ArchiveTakes, storeVars
<1>7. CASE ArchiveResumes
  BY <1>7 DEF ArchiveResumes, HandleRecorderFailure, PublishFailure,
     RecorderFail, EnsureCleanup
<1>8. CASE Backpressure
  <2>1. current \in Captures
    BY <1>8 DEF Backpressure
  <2>2. /\ lost' = lost \/ lost' = [lost EXCEPT ![current] = TRUE]
        /\ recFailed' = recFailed \/ recFailed' = [recFailed EXCEPT ![current]
           = TRUE]
        /\ recState' = recState \/ recState' = [recState EXCEPT ![current] =
           "failed"]
    BY <1>8 DEF Backpressure, HandleRecorderFailure, PublishFailure,
       RecorderFail
  <2>3. QED
    BY <1>8, <2>1, <2>2 DEF Backpressure
<1>9. CASE DrainTimesOut
  BY <1>9 DEF DrainTimesOut, HandleRecorderFailure, PublishFailure,
     RecorderFail, EnsureCleanup
<1>10. CASE CleanupStops
  BY <1>10 DEF CleanupStops, storeVars
<1>11. CASE DeadlineExpires
  BY <1>11 DEF DeadlineExpires, storeVars
<1>12. CASE GateDecides
  BY <1>12 DEF GateDecides, RecorderFail
<1>13. CASE Settles
  BY <1>13 DEF Settles, LoopFree, WorkerPending, RecorderFail, storeVars
<1>14. ASSUME NEW c \in Captures, AppendBuffers(c) PROVE Fresh'
  BY <1>14 DEF AppendBuffers, WorkerHoldsWriter, loopVars
<1>15. ASSUME NEW c \in Captures, AppendRegisters(c) PROVE Fresh'
  BY <1>15 DEF AppendRegisters, loopVars
<1>16. ASSUME NEW c \in Captures, AppendFails(c) PROVE Fresh'
  BY <1>16 DEF AppendFails, MarkFailed, FailedRow, loopVars
<1>17. ASSUME NEW c \in Captures, WorkerStarts(c) PROVE Fresh'
  BY <1>17 DEF WorkerStarts, AppendHoldsWriter, RecorderFail, loopVars,
     storeVars
<1>18. ASSUME NEW c \in Captures, WorkerWrites(c) PROVE Fresh'
  BY <1>18 DEF WorkerWrites, loopVars, storeVars
<1>19. ASSUME NEW c \in Captures, WorkerRegisters(c) PROVE Fresh'
  BY <1>19 DEF WorkerRegisters, loopVars
<1>20. ASSUME NEW c \in Captures, FlushFails(c) PROVE Fresh'
  BY <1>20 DEF FlushFails, WorkerHoldsWriter, MarkFailed, FailedRow,
     RecorderFail, loopVars
<1>21. ASSUME NEW c \in Captures, WorkerReadsGate(c) PROVE Fresh'
  BY <1>21 DEF WorkerReadsGate, GateOpen, RecorderFail, loopVars, storeVars
<1>22. ASSUME NEW c \in Captures, WorkerCommits(c) PROVE Fresh'
  BY <1>22 DEF WorkerCommits, AppendHoldsWriter, loopVars
<1>23. ASSUME NEW c \in Captures, CommitFails(c) PROVE Fresh'
  BY <1>23 DEF CommitFails, AppendHoldsWriter, MarkFailed, FailedRow,
     RecorderFail, loopVars
<1>24. ASSUME NEW c \in Captures, WorkerRefuses(c) PROVE Fresh'
  BY <1>24 DEF WorkerRefuses, AppendHoldsWriter, MarkFailed, FailedRow,
     loopVars
<1>25. ASSUME NEW c \in Captures, WorkerSettles(c) PROVE Fresh'
  BY <1>25 DEF WorkerSettles, loopVars, storeVars
<1>26. ASSUME NEW c \in Captures, GateClaims(c) PROVE Fresh'
  BY <1>26 DEF GateClaims, loopVars
<1>27. QED
  BY <1>1, <1>2, <1>3, <1>4, <1>5, <1>6, <1>7, <1>8, <1>9, <1>10, <1>11,
     <1>12, <1>13, <1>14, <1>15, <1>16, <1>17, <1>18, <1>19, <1>20, <1>21,
     <1>22, <1>23, <1>24, <1>25, <1>26
     DEF Next, LoopNext, AppendNext, WorkerNext, GateNext, vars, loopVars,
        recVars, storeVars, CaptureStarts, AbortEnds, FramesArrive,
        StopBegins, IngressStops, ArchiveEnds, DrainEnds, StopEnds, Close,
        CleanupReturns, BudgetRunsOut, GateCloses, GatePending,
        SettlementAbandoned, GateReads, GateFails

LEMMA NextOwned == IInv /\ [Next]_vars => Owned'
<1> SUFFICES ASSUME IInv, [Next]_vars PROVE Owned'
  OBVIOUS
<1> USE DEF IInv, TypeOK, Owned, Opened
<1>1. CASE UNCHANGED <<last, current, pipeline, archive, call, cleanup>>
  BY <1>1
<1>2. CASE StartProject
  BY <1>2, MayStartType DEF StartProject, MayStart, recVars, storeVars
<1>3. CASE StartRealtime
  BY <1>3, MayStartType DEF StartRealtime, MayStart, recVars, storeVars
<1>4. CASE RecorderOpens
  BY <1>4 DEF RecorderOpens
<1>5. CASE CaptureStarts
  BY <1>5 DEF CaptureStarts, recVars, storeVars
<1>6. CASE StartAborts
  BY <1>6 DEF StartAborts, PublishFailure, RecorderFail, EnsureCleanup,
     storeVars
<1>7. CASE AbortEnds
  BY <1>7 DEF AbortEnds, recVars, storeVars
<1>8. CASE ArchiveTakes
  BY <1>8 DEF ArchiveTakes, storeVars
<1>9. CASE ArchiveResumes
  BY <1>9 DEF ArchiveResumes, HandleRecorderFailure, PublishFailure,
     RecorderFail, EnsureCleanup
<1>10. CASE Backpressure
  BY <1>10 DEF Backpressure, HandleRecorderFailure, PublishFailure,
     RecorderFail, EnsureCleanup
<1>11. CASE StopBegins
  BY <1>11 DEF StopBegins, recVars, storeVars
<1>12. CASE IngressStops
  BY <1>12 DEF IngressStops, recVars, storeVars
<1>13. CASE ArchiveEnds
  BY <1>13 DEF ArchiveEnds, recVars, storeVars
<1>14. CASE DrainEnds
  BY <1>14 DEF DrainEnds, EnsureCleanup, recVars, storeVars
<1>15. CASE DrainTimesOut
  BY <1>15 DEF DrainTimesOut, HandleRecorderFailure, PublishFailure,
     RecorderFail, EnsureCleanup
<1>16. CASE StopEnds
  BY <1>16 DEF StopEnds, recVars, storeVars
<1>17. CASE CleanupStops
  BY <1>17 DEF CleanupStops, storeVars
<1>18. CASE CleanupReturns
  BY <1>18 DEF CleanupReturns, recVars, storeVars
<1>19. CASE DeadlineExpires
  BY <1>19 DEF DeadlineExpires, storeVars
<1>20. CASE GateCloses
  BY <1>20 DEF GateCloses, TerminalLocked, storeVars
<1>21. CASE GatePending
  BY <1>21 DEF GatePending, TerminalLocked, recVars, storeVars
<1>22. CASE GateDecides
  BY <1>22 DEF GateDecides, RecorderFail
<1>23. QED
  BY <1>1, <1>2, <1>3, <1>4, <1>5, <1>6, <1>7, <1>8, <1>9, <1>10, <1>11,
     <1>12, <1>13, <1>14, <1>15, <1>16, <1>17, <1>18, <1>19, <1>20, <1>21,
     <1>22
     DEF Next, LoopNext, AppendNext, WorkerNext, GateNext, vars, loopVars,
        recVars, storeVars, FramesArrive, Close, BudgetRunsOut, Settles,
        SettlementAbandoned, AppendBuffers, AppendRegisters, AppendFails,
        WorkerStarts, WorkerWrites, WorkerRegisters, FlushFails,
        WorkerReadsGate, WorkerCommits, CommitFails, WorkerRefuses,
        WorkerSettles, GateClaims, GateReads, GateFails

LEMMA NextWorkerAfterArchive == IInv /\ [Next]_vars => WorkerAfterArchive'
<1> SUFFICES ASSUME IInv, [Next]_vars PROVE WorkerAfterArchive'
  OBVIOUS
<1> USE DEF IInv, TypeOK, WorkerAfterArchive, Owned, Fresh, Unborn
<1>1. CASE UNCHANGED <<cleanup, archive, pipeline, call, worker, current>>
  BY <1>1
<1>2. CASE StartProject
  BY <1>2, MayStartType DEF StartProject, MayStart, recVars, storeVars
<1>3. CASE StartRealtime
  BY <1>3, MayStartType DEF StartRealtime, MayStart, recVars, storeVars
<1>4. CASE RecorderOpens
  BY <1>4 DEF RecorderOpens
<1>5. CASE CaptureStarts
  BY <1>5 DEF CaptureStarts, recVars, storeVars
<1>6. CASE StartAborts
  BY <1>6 DEF StartAborts, PublishFailure, RecorderFail, EnsureCleanup,
     storeVars
<1>7. CASE AbortEnds
  BY <1>7 DEF AbortEnds, recVars, storeVars
<1>8. CASE ArchiveTakes
  BY <1>8 DEF ArchiveTakes, storeVars
<1>9. CASE ArchiveResumes
  BY <1>9 DEF ArchiveResumes, HandleRecorderFailure, PublishFailure,
     RecorderFail, EnsureCleanup
<1>10. CASE Backpressure
  BY <1>10 DEF Backpressure, HandleRecorderFailure, PublishFailure,
     RecorderFail, EnsureCleanup
<1>11. CASE StopBegins
  BY <1>11 DEF StopBegins, recVars, storeVars
<1>12. CASE IngressStops
  BY <1>12 DEF IngressStops, recVars, storeVars
<1>13. CASE ArchiveEnds
  BY <1>13 DEF ArchiveEnds, recVars, storeVars
<1>14. CASE DrainEnds
  BY <1>14 DEF DrainEnds, EnsureCleanup, recVars, storeVars
<1>15. CASE DrainTimesOut
  BY <1>15 DEF DrainTimesOut, HandleRecorderFailure, PublishFailure,
     RecorderFail, EnsureCleanup
<1>16. CASE StopEnds
  BY <1>16 DEF StopEnds, recVars, storeVars
<1>17. CASE CleanupStops
  BY <1>17 DEF CleanupStops, storeVars
<1>18. CASE CleanupReturns
  BY <1>18 DEF CleanupReturns, recVars, storeVars
<1>19. CASE DeadlineExpires
  BY <1>19 DEF DeadlineExpires, storeVars
<1>20. CASE GateCloses
  BY <1>20 DEF GateCloses, TerminalLocked, storeVars
<1>21. CASE GatePending
  BY <1>21 DEF GatePending, TerminalLocked, recVars, storeVars
<1>22. CASE GateDecides
  BY <1>22 DEF GateDecides, RecorderFail
<1>23. ASSUME NEW c \in Captures, WorkerStarts(c) PROVE WorkerAfterArchive'
  BY <1>23 DEF WorkerStarts, AppendHoldsWriter, RecorderFail, loopVars,
     storeVars
<1>24. ASSUME NEW c \in Captures, WorkerWrites(c) PROVE WorkerAfterArchive'
  BY <1>24 DEF WorkerWrites, loopVars, storeVars
<1>25. ASSUME NEW c \in Captures, WorkerRegisters(c) PROVE WorkerAfterArchive'
  BY <1>25 DEF WorkerRegisters, loopVars
<1>26. ASSUME NEW c \in Captures, FlushFails(c) PROVE WorkerAfterArchive'
  BY <1>26 DEF FlushFails, WorkerHoldsWriter, MarkFailed, FailedRow,
     RecorderFail, loopVars
<1>27. ASSUME NEW c \in Captures, WorkerReadsGate(c) PROVE WorkerAfterArchive'
  BY <1>27 DEF WorkerReadsGate, GateOpen, RecorderFail, loopVars, storeVars
<1>28. ASSUME NEW c \in Captures, WorkerCommits(c) PROVE WorkerAfterArchive'
  BY <1>28 DEF WorkerCommits, AppendHoldsWriter, loopVars
<1>29. ASSUME NEW c \in Captures, CommitFails(c) PROVE WorkerAfterArchive'
  BY <1>29 DEF CommitFails, AppendHoldsWriter, MarkFailed, FailedRow,
     RecorderFail, loopVars
<1>30. ASSUME NEW c \in Captures, WorkerRefuses(c) PROVE WorkerAfterArchive'
  BY <1>30 DEF WorkerRefuses, AppendHoldsWriter, MarkFailed, FailedRow,
     loopVars
<1>31. ASSUME NEW c \in Captures, WorkerSettles(c) PROVE WorkerAfterArchive'
  BY <1>31 DEF WorkerSettles, loopVars, storeVars
<1>32. QED
  BY <1>1, <1>2, <1>3, <1>4, <1>5, <1>6, <1>7, <1>8, <1>9, <1>10, <1>11,
     <1>12, <1>13, <1>14, <1>15, <1>16, <1>17, <1>18, <1>19, <1>20, <1>21,
     <1>22, <1>23, <1>24, <1>25, <1>26, <1>27, <1>28, <1>29, <1>30, <1>31
     DEF Next, LoopNext, AppendNext, WorkerNext, GateNext, vars, loopVars,
        recVars, storeVars, FramesArrive, Close, BudgetRunsOut, Settles,
        SettlementAbandoned, AppendBuffers, AppendRegisters, AppendFails,
        GateClaims, GateReads, GateFails

LEMMA NextOpened == IInv /\ [Next]_vars => Opened'
<1> SUFFICES ASSUME IInv, [Next]_vars PROVE Opened'
  OBVIOUS
<1> USE DEF IInv, TypeOK, Opened, Owned, Fresh, WorkerAfterArchive, Unborn
<1>1. CASE UNCHANGED <<last, mem, worker, append, recState, cleanup, current,
   settling>>
  BY <1>1
<1>2. CASE StartProject
  BY <1>2, MayStartType DEF StartProject, MayStart, Outstanding, recVars,
     storeVars
<1>3. CASE StartRealtime
  BY <1>3, MayStartType DEF StartRealtime, MayStart, Outstanding, recVars,
     storeVars
<1>4. CASE RecorderOpens
  <2>1. current \in Captures /\ last < current /\ last' = current /\ ~settling
    BY <1>4 DEF RecorderOpens, Captures
  <2>2. \A c \in Captures : c <= last => c <= current
    BY <2>1, FinalizationAssumption DEF Captures
  <2>3. \A c \in Captures : mem'[c] # "none" => c <= last'
    BY <1>4, <2>1, <2>2, FinalizationAssumption DEF RecorderOpens, Captures
  <2>4. QED
    BY <1>4, <2>1, <2>3 DEF RecorderOpens
<1>5. CASE StartAborts
  BY <1>5 DEF StartAborts, PublishFailure, RecorderFail, EnsureCleanup,
     storeVars
<1>6. CASE AbortEnds
  BY <1>6 DEF AbortEnds, recVars, storeVars
<1>7. CASE ArchiveTakes
  BY <1>7 DEF ArchiveTakes, storeVars
<1>8. CASE ArchiveResumes
  BY <1>8 DEF ArchiveResumes, HandleRecorderFailure, PublishFailure,
     RecorderFail, EnsureCleanup
<1>9. CASE Backpressure
  <2>1. CASE failure # 0
    BY <1>9, <2>1 DEF Backpressure, HandleRecorderFailure, PublishFailure
  <2>2. CASE failure = 0
    BY <1>9, <2>2 DEF Backpressure, HandleRecorderFailure, PublishFailure,
       RecorderFail, EnsureCleanup
  <2>3. QED
    BY <2>1, <2>2
<1>10. CASE DrainEnds
  BY <1>10 DEF DrainEnds, EnsureCleanup, recVars, storeVars
<1>11. CASE DrainTimesOut
  BY <1>11 DEF DrainTimesOut, HandleRecorderFailure, PublishFailure,
     RecorderFail, EnsureCleanup
<1>12. CASE StopEnds
  BY <1>12 DEF StopEnds, Outstanding, recVars, storeVars
<1>13. CASE CleanupStops
  BY <1>13 DEF CleanupStops, storeVars
<1>14. CASE CleanupReturns
  BY <1>14 DEF CleanupReturns, recVars, storeVars
<1>15. CASE DeadlineExpires
  BY <1>15 DEF DeadlineExpires, storeVars
<1>16. CASE GateCloses
  BY <1>16 DEF GateCloses, TerminalLocked, storeVars
<1>17. CASE GatePending
  BY <1>17 DEF GatePending, TerminalLocked, recVars, storeVars
<1>18. CASE GateDecides
  BY <1>18 DEF GateDecides, RecorderFail
<1>19. CASE Settles
  BY <1>19 DEF Settles, LoopFree, WorkerPending, RecorderFail, storeVars
<1>20. CASE SettlementAbandoned
  BY <1>20 DEF SettlementAbandoned, LoopFree, WorkerPending, recVars, storeVars
<1>21. ASSUME NEW c \in Captures, AppendBuffers(c) PROVE Opened'
  BY <1>21 DEF AppendBuffers, WorkerHoldsWriter, loopVars
<1>22. ASSUME NEW c \in Captures, AppendRegisters(c) PROVE Opened'
  BY <1>22 DEF AppendRegisters, loopVars
<1>23. ASSUME NEW c \in Captures, AppendFails(c) PROVE Opened'
  BY <1>23 DEF AppendFails, MarkFailed, FailedRow, loopVars
<1>24. ASSUME NEW c \in Captures, WorkerStarts(c) PROVE Opened'
  BY <1>24 DEF WorkerStarts, AppendHoldsWriter, RecorderFail, loopVars,
     storeVars
<1>25. ASSUME NEW c \in Captures, WorkerWrites(c) PROVE Opened'
  BY <1>25 DEF WorkerWrites, loopVars, storeVars
<1>26. ASSUME NEW c \in Captures, WorkerRegisters(c) PROVE Opened'
  BY <1>26 DEF WorkerRegisters, loopVars
<1>27. ASSUME NEW c \in Captures, FlushFails(c) PROVE Opened'
  BY <1>27 DEF FlushFails, WorkerHoldsWriter, MarkFailed, FailedRow,
     RecorderFail, loopVars
<1>28. ASSUME NEW c \in Captures, WorkerReadsGate(c) PROVE Opened'
  BY <1>28 DEF WorkerReadsGate, GateOpen, RecorderFail, loopVars, storeVars
<1>29. ASSUME NEW c \in Captures, WorkerCommits(c) PROVE Opened'
  BY <1>29 DEF WorkerCommits, AppendHoldsWriter, loopVars
<1>30. ASSUME NEW c \in Captures, CommitFails(c) PROVE Opened'
  BY <1>30 DEF CommitFails, AppendHoldsWriter, MarkFailed, FailedRow,
     RecorderFail, loopVars
<1>31. ASSUME NEW c \in Captures, WorkerRefuses(c) PROVE Opened'
  BY <1>31 DEF WorkerRefuses, AppendHoldsWriter, MarkFailed, FailedRow,
     loopVars
<1>32. ASSUME NEW c \in Captures, WorkerSettles(c) PROVE Opened'
  BY <1>32 DEF WorkerSettles, loopVars, storeVars
<1>33. QED
  BY <1>1, <1>2, <1>3, <1>4, <1>5, <1>6, <1>7, <1>8, <1>9, <1>10, <1>11,
     <1>12, <1>13, <1>14, <1>15, <1>16, <1>17, <1>18, <1>19, <1>20, <1>21,
     <1>22, <1>23, <1>24, <1>25, <1>26, <1>27, <1>28, <1>29, <1>30, <1>31,
     <1>32
     DEF Next, LoopNext, AppendNext, WorkerNext, GateNext, vars, loopVars,
        recVars, storeVars, CaptureStarts, FramesArrive, StopBegins,
        IngressStops, ArchiveEnds, Close, BudgetRunsOut, GateClaims,
        GateReads, GateFails

LEMMA NextFailurePublished == IInv /\ [Next]_vars => FailurePublished'
<1> SUFFICES ASSUME IInv, [Next]_vars PROVE FailurePublished'
  OBVIOUS
<1> USE DEF IInv, TypeOK, FailurePublished, Owned, Opened
<1>1. CASE UNCHANGED <<condemned, recFailed, pipeline, call, failure, current>>
  BY <1>1
<1>2. CASE StartProject
  BY <1>2, MayStartType DEF StartProject, MayStart, recVars, storeVars
<1>3. CASE StartRealtime
  BY <1>3, MayStartType DEF StartRealtime, MayStart, recVars, storeVars
<1>4. CASE RecorderOpens
  BY <1>4 DEF RecorderOpens
<1>5. CASE CaptureStarts
  BY <1>5 DEF CaptureStarts, recVars, storeVars
<1>6. CASE StartAborts
  BY <1>6 DEF StartAborts, PublishFailure, RecorderFail, EnsureCleanup,
     storeVars
<1>7. CASE AbortEnds
  BY <1>7 DEF AbortEnds, recVars, storeVars
<1>8. CASE ArchiveResumes
  BY <1>8 DEF ArchiveResumes, HandleRecorderFailure, PublishFailure,
     RecorderFail, EnsureCleanup
<1>9. CASE Backpressure
  BY <1>9 DEF Backpressure, HandleRecorderFailure, PublishFailure,
     RecorderFail, EnsureCleanup
<1>10. CASE StopBegins
  BY <1>10 DEF StopBegins, recVars, storeVars
<1>11. CASE IngressStops
  BY <1>11 DEF IngressStops, recVars, storeVars
<1>12. CASE DrainEnds
  BY <1>12 DEF DrainEnds, EnsureCleanup, recVars, storeVars
<1>13. CASE DrainTimesOut
  BY <1>13 DEF DrainTimesOut, HandleRecorderFailure, PublishFailure,
     RecorderFail, EnsureCleanup
<1>14. CASE StopEnds
  BY <1>14 DEF StopEnds, recVars, storeVars
<1>15. CASE GateDecides
  BY <1>15 DEF GateDecides, RecorderFail
<1>16. CASE Settles
  BY <1>16 DEF Settles, LoopFree, WorkerPending, RecorderFail, storeVars
<1>17. ASSUME NEW c \in Captures, WorkerStarts(c) PROVE FailurePublished'
  BY <1>17 DEF WorkerStarts, AppendHoldsWriter, RecorderFail, loopVars,
     storeVars
<1>18. ASSUME NEW c \in Captures, FlushFails(c) PROVE FailurePublished'
  BY <1>18 DEF FlushFails, WorkerHoldsWriter, MarkFailed, FailedRow,
     RecorderFail, loopVars
<1>19. ASSUME NEW c \in Captures, WorkerReadsGate(c) PROVE FailurePublished'
  BY <1>19 DEF WorkerReadsGate, GateOpen, RecorderFail, loopVars, storeVars
<1>20. ASSUME NEW c \in Captures, CommitFails(c) PROVE FailurePublished'
  BY <1>20 DEF CommitFails, AppendHoldsWriter, MarkFailed, FailedRow,
     RecorderFail, loopVars
<1>21. QED
  BY <1>1, <1>2, <1>3, <1>4, <1>5, <1>6, <1>7, <1>8, <1>9, <1>10, <1>11,
     <1>12, <1>13, <1>14, <1>15, <1>16, <1>17, <1>18, <1>19, <1>20
     DEF Next, LoopNext, AppendNext, WorkerNext, GateNext, vars, loopVars,
        recVars, storeVars, FramesArrive, ArchiveTakes, ArchiveEnds, Close,
        CleanupStops, CleanupReturns, BudgetRunsOut, DeadlineExpires,
        GateCloses, GatePending, SettlementAbandoned, AppendBuffers,
        AppendRegisters, AppendFails, WorkerWrites, WorkerRegisters,
        WorkerCommits, WorkerRefuses, WorkerSettles, GateClaims, GateReads,
        GateFails

LEMMA NextAppendOwned == IInv /\ [Next]_vars => AppendOwned'
<1> SUFFICES ASSUME IInv, [Next]_vars PROVE AppendOwned'
  OBVIOUS
<1> USE DEF IInv, TypeOK, AppendOwned, Owned, WorkerAfterArchive,
   FailurePublished
<1>1. CASE UNCHANGED <<append, recFailed, archive, current>>
  BY <1>1
<1>2. CASE StartProject
  BY <1>2, MayStartType DEF StartProject, MayStart, recVars, storeVars
<1>3. CASE StartRealtime
  BY <1>3, MayStartType DEF StartRealtime, MayStart, recVars, storeVars
<1>4. CASE CaptureStarts
  BY <1>4 DEF CaptureStarts, recVars, storeVars
<1>5. CASE StartAborts
  BY <1>5 DEF StartAborts, PublishFailure, RecorderFail, EnsureCleanup,
     storeVars
<1>6. CASE ArchiveTakes
  BY <1>6 DEF ArchiveTakes, storeVars
<1>7. CASE ArchiveResumes
  BY <1>7 DEF ArchiveResumes, HandleRecorderFailure, PublishFailure,
     RecorderFail, EnsureCleanup
<1>8. CASE Backpressure
  BY <1>8 DEF Backpressure, HandleRecorderFailure, PublishFailure,
     RecorderFail, EnsureCleanup
<1>9. CASE ArchiveEnds
  BY <1>9 DEF ArchiveEnds, recVars, storeVars
<1>10. CASE DrainTimesOut
  BY <1>10 DEF DrainTimesOut, HandleRecorderFailure, PublishFailure,
     RecorderFail, EnsureCleanup
<1>11. CASE StopEnds
  BY <1>11 DEF StopEnds, recVars, storeVars
<1>12. CASE GateDecides
  BY <1>12 DEF GateDecides, RecorderFail
<1>13. CASE Settles
  BY <1>13 DEF Settles, LoopFree, WorkerPending, RecorderFail, storeVars
<1>14. ASSUME NEW c \in Captures, AppendBuffers(c) PROVE AppendOwned'
  BY <1>14 DEF AppendBuffers, WorkerHoldsWriter, loopVars
<1>15. ASSUME NEW c \in Captures, AppendRegisters(c) PROVE AppendOwned'
  BY <1>15 DEF AppendRegisters, loopVars
<1>16. ASSUME NEW c \in Captures, AppendFails(c) PROVE AppendOwned'
  BY <1>16 DEF AppendFails, MarkFailed, FailedRow, loopVars
<1>17. ASSUME NEW c \in Captures, WorkerStarts(c) PROVE AppendOwned'
  BY <1>17 DEF WorkerStarts, AppendHoldsWriter, RecorderFail, loopVars,
     storeVars
<1>18. ASSUME NEW c \in Captures, FlushFails(c) PROVE AppendOwned'
  BY <1>18 DEF FlushFails, WorkerHoldsWriter, MarkFailed, FailedRow,
     RecorderFail, loopVars
<1>19. ASSUME NEW c \in Captures, WorkerReadsGate(c) PROVE AppendOwned'
  BY <1>19 DEF WorkerReadsGate, GateOpen, RecorderFail, loopVars, storeVars
<1>20. ASSUME NEW c \in Captures, CommitFails(c) PROVE AppendOwned'
  BY <1>20 DEF CommitFails, AppendHoldsWriter, MarkFailed, FailedRow,
     RecorderFail, loopVars
<1>21. QED
  BY <1>1, <1>2, <1>3, <1>4, <1>5, <1>6, <1>7, <1>8, <1>9, <1>10, <1>11,
     <1>12, <1>13, <1>14, <1>15, <1>16, <1>17, <1>18, <1>19, <1>20
     DEF Next, LoopNext, AppendNext, WorkerNext, GateNext, vars, loopVars,
        recVars, storeVars, RecorderOpens, AbortEnds, FramesArrive,
        StopBegins, IngressStops, DrainEnds, Close, CleanupStops,
        CleanupReturns, BudgetRunsOut, DeadlineExpires, GateCloses,
        GatePending, SettlementAbandoned, WorkerWrites, WorkerRegisters,
        WorkerCommits, WorkerRefuses, WorkerSettles, GateClaims, GateReads,
        GateFails

LEMMA NextFailedNeverCommits == IInv /\ [Next]_vars => FailedNeverCommits'
<1> SUFFICES ASSUME IInv, [Next]_vars PROVE FailedNeverCommits'
  OBVIOUS
<1> USE DEF IInv, TypeOK, FailedNeverCommits, Owned, WorkerAfterArchive,
   Opened, CompletedByWorker, ClosedNeverCommits
<1>1. CASE UNCHANGED <<recFailed, worker, completed>>
  BY <1>1
<1>2. CASE StartAborts
  BY <1>2 DEF StartAborts, PublishFailure, RecorderFail, EnsureCleanup,
     storeVars
<1>3. CASE ArchiveResumes
  BY <1>3 DEF ArchiveResumes, HandleRecorderFailure, PublishFailure,
     RecorderFail, EnsureCleanup
<1>4. CASE Backpressure
  BY <1>4 DEF Backpressure, HandleRecorderFailure, PublishFailure,
     RecorderFail, EnsureCleanup
<1>5. CASE DrainTimesOut
  BY <1>5 DEF DrainTimesOut, HandleRecorderFailure, PublishFailure,
     RecorderFail, EnsureCleanup
<1>6. CASE CleanupStops
  BY <1>6 DEF CleanupStops, storeVars
<1>7. CASE DeadlineExpires
  BY <1>7 DEF DeadlineExpires, storeVars
<1>8. CASE GateDecides
  BY <1>8 DEF GateDecides, RecorderFail
<1>9. CASE Settles
  BY <1>9 DEF Settles, LoopFree, WorkerPending, RecorderFail, storeVars
<1>10. ASSUME NEW c \in Captures, WorkerStarts(c) PROVE FailedNeverCommits'
  BY <1>10 DEF WorkerStarts, AppendHoldsWriter, RecorderFail, loopVars,
     storeVars
<1>11. ASSUME NEW c \in Captures, WorkerWrites(c) PROVE FailedNeverCommits'
  BY <1>11 DEF WorkerWrites, loopVars, storeVars
<1>12. ASSUME NEW c \in Captures, WorkerRegisters(c) PROVE FailedNeverCommits'
  BY <1>12 DEF WorkerRegisters, loopVars
<1>13. ASSUME NEW c \in Captures, FlushFails(c) PROVE FailedNeverCommits'
  BY <1>13 DEF FlushFails, WorkerHoldsWriter, MarkFailed, FailedRow,
     RecorderFail, loopVars
<1>14. ASSUME NEW c \in Captures, WorkerReadsGate(c) PROVE FailedNeverCommits'
  BY <1>14 DEF WorkerReadsGate, GateOpen, RecorderFail, loopVars, storeVars
<1>15. ASSUME NEW c \in Captures, WorkerCommits(c) PROVE FailedNeverCommits'
  BY <1>15 DEF WorkerCommits, AppendHoldsWriter, loopVars
<1>16. ASSUME NEW c \in Captures, CommitFails(c) PROVE FailedNeverCommits'
  BY <1>16 DEF CommitFails, AppendHoldsWriter, MarkFailed, FailedRow,
     RecorderFail, loopVars
<1>17. ASSUME NEW c \in Captures, WorkerRefuses(c) PROVE FailedNeverCommits'
  BY <1>17 DEF WorkerRefuses, AppendHoldsWriter, MarkFailed, FailedRow,
     loopVars
<1>18. ASSUME NEW c \in Captures, WorkerSettles(c) PROVE FailedNeverCommits'
  BY <1>18 DEF WorkerSettles, loopVars, storeVars
<1>19. QED
  BY <1>1, <1>2, <1>3, <1>4, <1>5, <1>6, <1>7, <1>8, <1>9, <1>10, <1>11,
     <1>12, <1>13, <1>14, <1>15, <1>16, <1>17, <1>18
     DEF Next, LoopNext, AppendNext, WorkerNext, GateNext, vars, loopVars,
        recVars, storeVars, StartProject, StartRealtime, RecorderOpens,
        CaptureStarts, AbortEnds, FramesArrive, ArchiveTakes, StopBegins,
        IngressStops, ArchiveEnds, DrainEnds, StopEnds, Close, CleanupReturns,
        BudgetRunsOut, GateCloses, GatePending, SettlementAbandoned,
        AppendBuffers, AppendRegisters, AppendFails, GateClaims, GateReads,
        GateFails

LEMMA NextClosedNeverCommits == IInv /\ [Next]_vars => ClosedNeverCommits'
<1> SUFFICES ASSUME IInv, [Next]_vars PROVE ClosedNeverCommits'
  OBVIOUS
<1> USE DEF IInv, TypeOK, ClosedNeverCommits, Owned, Opened, CompletedByWorker
<1>1. CASE UNCHANGED <<budget, worker, cleanup, completed, current>>
  BY <1>1
<1>2. CASE StartProject
  BY <1>2, MayStartType DEF StartProject, MayStart, Outstanding, recVars,
     storeVars
<1>3. CASE StartRealtime
  BY <1>3, MayStartType DEF StartRealtime, MayStart, Outstanding, recVars,
     storeVars
<1>4. CASE StartAborts
  BY <1>4 DEF StartAborts, PublishFailure, RecorderFail, EnsureCleanup,
     storeVars
<1>5. CASE AbortEnds
  BY <1>5 DEF AbortEnds, recVars, storeVars
<1>6. CASE ArchiveResumes
  BY <1>6 DEF ArchiveResumes, HandleRecorderFailure, PublishFailure,
     RecorderFail, EnsureCleanup
<1>7. CASE Backpressure
  BY <1>7 DEF Backpressure, HandleRecorderFailure, PublishFailure,
     RecorderFail, EnsureCleanup
<1>8. CASE DrainEnds
  BY <1>8 DEF DrainEnds, EnsureCleanup, recVars, storeVars
<1>9. CASE DrainTimesOut
  BY <1>9 DEF DrainTimesOut, HandleRecorderFailure, PublishFailure,
     RecorderFail, EnsureCleanup
<1>10. CASE StopEnds
  BY <1>10 DEF StopEnds, Outstanding, recVars, storeVars
<1>11. CASE CleanupStops
  BY <1>11 DEF CleanupStops, storeVars
<1>12. CASE CleanupReturns
  BY <1>12 DEF CleanupReturns, recVars, storeVars
<1>13. CASE BudgetRunsOut
  BY <1>13 DEF BudgetRunsOut, loopVars, storeVars
<1>14. CASE DeadlineExpires
  BY <1>14 DEF DeadlineExpires, storeVars
<1>15. CASE GateCloses
  BY <1>15 DEF GateCloses, TerminalLocked, storeVars
<1>16. CASE GatePending
  BY <1>16 DEF GatePending, TerminalLocked, recVars, storeVars
<1>17. CASE GateDecides
  BY <1>17 DEF GateDecides, RecorderFail
<1>18. ASSUME NEW c \in Captures, WorkerStarts(c) PROVE ClosedNeverCommits'
  BY <1>18 DEF WorkerStarts, AppendHoldsWriter, RecorderFail, loopVars,
     storeVars
<1>19. ASSUME NEW c \in Captures, WorkerWrites(c) PROVE ClosedNeverCommits'
  BY <1>19 DEF WorkerWrites, loopVars, storeVars
<1>20. ASSUME NEW c \in Captures, WorkerRegisters(c) PROVE ClosedNeverCommits'
  BY <1>20 DEF WorkerRegisters, loopVars
<1>21. ASSUME NEW c \in Captures, FlushFails(c) PROVE ClosedNeverCommits'
  BY <1>21 DEF FlushFails, WorkerHoldsWriter, MarkFailed, FailedRow,
     RecorderFail, loopVars
<1>22. ASSUME NEW c \in Captures, WorkerReadsGate(c) PROVE ClosedNeverCommits'
  BY <1>22 DEF WorkerReadsGate, GateOpen, RecorderFail, loopVars, storeVars
<1>23. ASSUME NEW c \in Captures, WorkerCommits(c) PROVE ClosedNeverCommits'
  BY <1>23 DEF WorkerCommits, AppendHoldsWriter, loopVars
<1>24. ASSUME NEW c \in Captures, CommitFails(c) PROVE ClosedNeverCommits'
  BY <1>24 DEF CommitFails, AppendHoldsWriter, MarkFailed, FailedRow,
     RecorderFail, loopVars
<1>25. ASSUME NEW c \in Captures, WorkerRefuses(c) PROVE ClosedNeverCommits'
  BY <1>25 DEF WorkerRefuses, AppendHoldsWriter, MarkFailed, FailedRow,
     loopVars
<1>26. ASSUME NEW c \in Captures, WorkerSettles(c) PROVE ClosedNeverCommits'
  BY <1>26 DEF WorkerSettles, loopVars, storeVars
<1>27. QED
  BY <1>1, <1>2, <1>3, <1>4, <1>5, <1>6, <1>7, <1>8, <1>9, <1>10, <1>11,
     <1>12, <1>13, <1>14, <1>15, <1>16, <1>17, <1>18, <1>19, <1>20, <1>21,
     <1>22, <1>23, <1>24, <1>25, <1>26
     DEF Next, LoopNext, AppendNext, WorkerNext, GateNext, vars, loopVars,
        recVars, storeVars, RecorderOpens, CaptureStarts, FramesArrive,
        ArchiveTakes, StopBegins, IngressStops, ArchiveEnds, Close, Settles,
        SettlementAbandoned, AppendBuffers, AppendRegisters, AppendFails,
        GateClaims, GateReads, GateFails

LEMMA NextCompletedByWorker == IInv /\ [Next]_vars => CompletedByWorker'
<1> SUFFICES ASSUME IInv, [Next]_vars PROVE CompletedByWorker'
  OBVIOUS
<1> USE DEF IInv, TypeOK, CompletedByWorker, Owned, WorkerAfterArchive,
   AppendOwned, FailedNeverCommits, NothingLostOnTheWay, Opened,
   ClosedNeverCommits
<1>1. CASE UNCHANGED <<row, mem, completed, worker, lost, buffer>>
  BY <1>1
<1>2. CASE RecorderOpens
  BY <1>2 DEF RecorderOpens
<1>3. CASE ArchiveResumes
  BY <1>3 DEF ArchiveResumes, HandleRecorderFailure, PublishFailure,
     RecorderFail, EnsureCleanup
<1>4. CASE Backpressure
  BY <1>4 DEF Backpressure, HandleRecorderFailure, PublishFailure,
     RecorderFail, EnsureCleanup
<1>5. CASE DrainTimesOut
  BY <1>5 DEF DrainTimesOut, HandleRecorderFailure, PublishFailure,
     RecorderFail, EnsureCleanup
<1>6. CASE CleanupStops
  BY <1>6 DEF CleanupStops, storeVars
<1>7. CASE DeadlineExpires
  BY <1>7 DEF DeadlineExpires, storeVars
<1>8. CASE GateDecides
  BY <1>8 DEF GateDecides, RecorderFail
<1>9. ASSUME NEW c \in Captures, AppendBuffers(c) PROVE CompletedByWorker'
  BY <1>9 DEF AppendBuffers, WorkerHoldsWriter, loopVars
<1>10. ASSUME NEW c \in Captures, AppendRegisters(c) PROVE CompletedByWorker'
  BY <1>10 DEF AppendRegisters, loopVars
<1>11. ASSUME NEW c \in Captures, AppendFails(c) PROVE CompletedByWorker'
  BY <1>11 DEF AppendFails, MarkFailed, FailedRow, loopVars
<1>12. ASSUME NEW c \in Captures, WorkerStarts(c) PROVE CompletedByWorker'
  BY <1>12 DEF WorkerStarts, AppendHoldsWriter, RecorderFail, loopVars,
     storeVars
<1>13. ASSUME NEW c \in Captures, WorkerWrites(c) PROVE CompletedByWorker'
  BY <1>13 DEF WorkerWrites, loopVars, storeVars
<1>14. ASSUME NEW c \in Captures, WorkerRegisters(c) PROVE CompletedByWorker'
  BY <1>14 DEF WorkerRegisters, loopVars
<1>15. ASSUME NEW c \in Captures, FlushFails(c) PROVE CompletedByWorker'
  BY <1>15 DEF FlushFails, WorkerHoldsWriter, MarkFailed, FailedRow,
     RecorderFail, loopVars
<1>16. ASSUME NEW c \in Captures, WorkerReadsGate(c) PROVE CompletedByWorker'
  BY <1>16 DEF WorkerReadsGate, GateOpen, RecorderFail, loopVars, storeVars
<1>17. ASSUME NEW c \in Captures, WorkerCommits(c) PROVE CompletedByWorker'
  BY <1>17 DEF WorkerCommits, AppendHoldsWriter, loopVars
<1>18. ASSUME NEW c \in Captures, CommitFails(c) PROVE CompletedByWorker'
  BY <1>18 DEF CommitFails, AppendHoldsWriter, MarkFailed, FailedRow,
     RecorderFail, loopVars
<1>19. ASSUME NEW c \in Captures, WorkerRefuses(c) PROVE CompletedByWorker'
  BY <1>19 DEF WorkerRefuses, AppendHoldsWriter, MarkFailed, FailedRow,
     loopVars
<1>20. ASSUME NEW c \in Captures, WorkerSettles(c) PROVE CompletedByWorker'
  BY <1>20 DEF WorkerSettles, loopVars, storeVars
<1>21. ASSUME NEW c \in Captures, GateClaims(c) PROVE CompletedByWorker'
  BY <1>21 DEF GateClaims, loopVars
<1>22. QED
  BY <1>1, <1>2, <1>3, <1>4, <1>5, <1>6, <1>7, <1>8, <1>9, <1>10, <1>11,
     <1>12, <1>13, <1>14, <1>15, <1>16, <1>17, <1>18, <1>19, <1>20, <1>21
     DEF Next, LoopNext, AppendNext, WorkerNext, GateNext, vars, loopVars,
        recVars, storeVars, StartProject, StartRealtime, CaptureStarts,
        StartAborts, AbortEnds, FramesArrive, ArchiveTakes, StopBegins,
        IngressStops, ArchiveEnds, DrainEnds, StopEnds, Close, CleanupReturns,
        BudgetRunsOut, GateCloses, GatePending, Settles, SettlementAbandoned,
        GateReads, GateFails

LEMMA NextNothingLostOnTheWay == IInv /\ [Next]_vars => NothingLostOnTheWay'
<1> SUFFICES ASSUME IInv, [Next]_vars PROVE NothingLostOnTheWay'
  OBVIOUS
<1> USE DEF IInv, TypeOK, NothingLostOnTheWay, Owned, Opened,
   WorkerAfterArchive, AppendOwned, CompletedByWorker
<1>1. CASE UNCHANGED <<lost, recFailed, mem, worker, buffer>>
  BY <1>1
<1>2. CASE RecorderOpens
  BY <1>2 DEF RecorderOpens
<1>3. CASE StartAborts
  BY <1>3 DEF StartAborts, PublishFailure, RecorderFail, EnsureCleanup,
     storeVars
<1>4. CASE ArchiveResumes
  BY <1>4 DEF ArchiveResumes, HandleRecorderFailure, PublishFailure,
     RecorderFail, EnsureCleanup
<1>5. CASE Backpressure
  <2>1. CASE failure # 0
    BY <1>5, <2>1 DEF Backpressure, HandleRecorderFailure, PublishFailure
  <2>2. CASE failure = 0
    BY <1>5, <2>2 DEF Backpressure, HandleRecorderFailure, PublishFailure,
       RecorderFail, EnsureCleanup
  <2>3. QED
    BY <2>1, <2>2
<1>6. CASE DrainTimesOut
  BY <1>6 DEF DrainTimesOut, HandleRecorderFailure, PublishFailure,
     RecorderFail, EnsureCleanup
<1>7. CASE CleanupStops
  BY <1>7 DEF CleanupStops, storeVars
<1>8. CASE DeadlineExpires
  BY <1>8 DEF DeadlineExpires, storeVars
<1>9. CASE GateDecides
  BY <1>9 DEF GateDecides, RecorderFail
<1>10. CASE Settles
  BY <1>10 DEF Settles, LoopFree, WorkerPending, RecorderFail, storeVars
<1>11. ASSUME NEW c \in Captures, AppendBuffers(c) PROVE NothingLostOnTheWay'
  <2>1. ~recFailed[c] => worker[c] = "none"
    BY <1>11 DEF AppendBuffers
  <2>2. ~recFailed[c] /\ mem[c] # "active" => mem[c] = "failed"
    BY <1>11, <2>1 DEF AppendBuffers, SessionState
  <2>3. QED
    BY <1>11, <2>1, <2>2 DEF AppendBuffers, loopVars
<1>12. ASSUME NEW c \in Captures, AppendRegisters(c) PROVE NothingLostOnTheWay'
  BY <1>12 DEF AppendRegisters, loopVars
<1>13. ASSUME NEW c \in Captures, AppendFails(c) PROVE NothingLostOnTheWay'
  BY <1>13 DEF AppendFails, MarkFailed, FailedRow, loopVars
<1>14. ASSUME NEW c \in Captures, WorkerStarts(c) PROVE NothingLostOnTheWay'
  BY <1>14 DEF WorkerStarts, AppendHoldsWriter, RecorderFail, loopVars,
     storeVars
<1>15. ASSUME NEW c \in Captures, WorkerWrites(c) PROVE NothingLostOnTheWay'
  BY <1>15 DEF WorkerWrites, loopVars, storeVars
<1>16. ASSUME NEW c \in Captures, WorkerRegisters(c) PROVE NothingLostOnTheWay'
  BY <1>16 DEF WorkerRegisters, loopVars
<1>17. ASSUME NEW c \in Captures, FlushFails(c) PROVE NothingLostOnTheWay'
  BY <1>17 DEF FlushFails, WorkerHoldsWriter, MarkFailed, FailedRow,
     RecorderFail, loopVars
<1>18. ASSUME NEW c \in Captures, WorkerReadsGate(c) PROVE NothingLostOnTheWay'
  BY <1>18 DEF WorkerReadsGate, GateOpen, RecorderFail, loopVars, storeVars
<1>19. ASSUME NEW c \in Captures, WorkerCommits(c) PROVE NothingLostOnTheWay'
  BY <1>19 DEF WorkerCommits, AppendHoldsWriter, loopVars
<1>20. ASSUME NEW c \in Captures, CommitFails(c) PROVE NothingLostOnTheWay'
  BY <1>20 DEF CommitFails, AppendHoldsWriter, MarkFailed, FailedRow,
     RecorderFail, loopVars
<1>21. ASSUME NEW c \in Captures, WorkerRefuses(c) PROVE NothingLostOnTheWay'
  BY <1>21 DEF WorkerRefuses, AppendHoldsWriter, MarkFailed, FailedRow,
     loopVars
<1>22. ASSUME NEW c \in Captures, WorkerSettles(c) PROVE NothingLostOnTheWay'
  BY <1>22 DEF WorkerSettles, loopVars, storeVars
<1>23. QED
  BY <1>1, <1>2, <1>3, <1>4, <1>5, <1>6, <1>7, <1>8, <1>9, <1>10, <1>11,
     <1>12, <1>13, <1>14, <1>15, <1>16, <1>17, <1>18, <1>19, <1>20, <1>21,
     <1>22
     DEF Next, LoopNext, AppendNext, WorkerNext, GateNext, vars, loopVars,
        recVars, storeVars, StartProject, StartRealtime, CaptureStarts,
        AbortEnds, FramesArrive, ArchiveTakes, StopBegins, IngressStops,
        ArchiveEnds, DrainEnds, StopEnds, Close, CleanupReturns,
        BudgetRunsOut, GateCloses, GatePending, SettlementAbandoned,
        GateClaims, GateReads, GateFails

LEMMA NextOneFinalization == IInv /\ [Next]_vars => OneFinalization'
<1> SUFFICES ASSUME IInv, [Next]_vars PROVE OneFinalization'
  OBVIOUS
<1> USE DEF IInv, TypeOK, OneFinalization, Owned, Opened, Fresh, Unborn,
   WorkerPending
<1>1. CASE UNCHANGED <<worker, current>>
  BY <1>1
<1>2. CASE StartProject
  <2>1. ~Outstanding /\ current' = current + 1 /\ UNCHANGED worker
    BY <1>2 DEF StartProject, MayStart, recVars
  <2>2. current \in Captures => ~WorkerPending(current)
    BY <2>1, FinalizationAssumption DEF Outstanding, Captures
  <2>3. QED
    BY <2>1, <2>2
<1>3. CASE StartRealtime
  <2>1. ~Outstanding /\ current' = current + 1 /\ UNCHANGED worker
    BY <1>3 DEF StartRealtime, MayStart, recVars
  <2>2. current \in Captures => ~WorkerPending(current)
    BY <2>1, FinalizationAssumption DEF Outstanding, Captures
  <2>3. QED
    BY <2>1, <2>2
<1>4. CASE CleanupStops
  BY <1>4 DEF CleanupStops, storeVars
<1>5. CASE DeadlineExpires
  BY <1>5 DEF DeadlineExpires, storeVars
<1>6. ASSUME NEW c \in Captures, WorkerStarts(c) PROVE OneFinalization'
  BY <1>6 DEF WorkerStarts, AppendHoldsWriter, RecorderFail, loopVars,
     storeVars
<1>7. ASSUME NEW c \in Captures, WorkerWrites(c) PROVE OneFinalization'
  BY <1>7 DEF WorkerWrites, loopVars, storeVars
<1>8. ASSUME NEW c \in Captures, WorkerRegisters(c) PROVE OneFinalization'
  BY <1>8 DEF WorkerRegisters, loopVars
<1>9. ASSUME NEW c \in Captures, FlushFails(c) PROVE OneFinalization'
  BY <1>9 DEF FlushFails, WorkerHoldsWriter, MarkFailed, FailedRow,
     RecorderFail, loopVars
<1>10. ASSUME NEW c \in Captures, WorkerReadsGate(c) PROVE OneFinalization'
  BY <1>10 DEF WorkerReadsGate, GateOpen, RecorderFail, loopVars, storeVars
<1>11. ASSUME NEW c \in Captures, WorkerCommits(c) PROVE OneFinalization'
  BY <1>11 DEF WorkerCommits, AppendHoldsWriter, loopVars
<1>12. ASSUME NEW c \in Captures, CommitFails(c) PROVE OneFinalization'
  BY <1>12 DEF CommitFails, AppendHoldsWriter, MarkFailed, FailedRow,
     RecorderFail, loopVars
<1>13. ASSUME NEW c \in Captures, WorkerRefuses(c) PROVE OneFinalization'
  BY <1>13 DEF WorkerRefuses, AppendHoldsWriter, MarkFailed, FailedRow,
     loopVars
<1>14. ASSUME NEW c \in Captures, WorkerSettles(c) PROVE OneFinalization'
  BY <1>14 DEF WorkerSettles, loopVars, storeVars
<1>15. QED
  BY <1>1, <1>2, <1>3, <1>4, <1>5, <1>6, <1>7, <1>8, <1>9, <1>10, <1>11,
     <1>12, <1>13, <1>14
     DEF Next, LoopNext, AppendNext, WorkerNext, GateNext, vars, loopVars,
        recVars, storeVars, RecorderOpens, CaptureStarts, StartAborts,
        AbortEnds, FramesArrive, ArchiveTakes, ArchiveResumes, Backpressure,
        StopBegins, IngressStops, ArchiveEnds, DrainEnds, DrainTimesOut,
        StopEnds, Close, CleanupReturns, BudgetRunsOut, GateCloses,
        GatePending, GateDecides, Settles, SettlementAbandoned, AppendBuffers,
        AppendRegisters, AppendFails, GateClaims, GateReads, GateFails

LEMMA NextDurableCompletion == IInv /\ [Next]_vars => DurableCompletion'
<1> SUFFICES ASSUME IInv, [Next]_vars PROVE DurableCompletion'
  OBVIOUS
<1> USE DEF IInv, TypeOK, DurableCompletion, WorkerAfterArchive,
   CompletedByWorker, AppendOwned, FailedNeverCommits, Owned
<1>1. CASE UNCHANGED <<completed, row, gate>>
  BY <1>1
<1>2. CASE RecorderOpens
  BY <1>2 DEF RecorderOpens
<1>3. CASE GateCloses
  BY <1>3 DEF GateCloses, TerminalLocked, storeVars
<1>4. ASSUME NEW c \in Captures, AppendRegisters(c) PROVE DurableCompletion'
  BY <1>4 DEF AppendRegisters, loopVars
<1>5. ASSUME NEW c \in Captures, AppendFails(c) PROVE DurableCompletion'
  BY <1>5 DEF AppendFails, MarkFailed, FailedRow, loopVars
<1>6. ASSUME NEW c \in Captures, WorkerRegisters(c) PROVE DurableCompletion'
  BY <1>6 DEF WorkerRegisters, loopVars
<1>7. ASSUME NEW c \in Captures, FlushFails(c) PROVE DurableCompletion'
  BY <1>7 DEF FlushFails, WorkerHoldsWriter, MarkFailed, FailedRow,
     RecorderFail, loopVars
<1>8. ASSUME NEW c \in Captures, WorkerCommits(c) PROVE DurableCompletion'
  BY <1>8 DEF WorkerCommits, AppendHoldsWriter, loopVars
<1>9. ASSUME NEW c \in Captures, CommitFails(c) PROVE DurableCompletion'
  BY <1>9 DEF CommitFails, AppendHoldsWriter, MarkFailed, FailedRow,
     RecorderFail, loopVars
<1>10. ASSUME NEW c \in Captures, WorkerRefuses(c) PROVE DurableCompletion'
  BY <1>10 DEF WorkerRefuses, AppendHoldsWriter, MarkFailed, FailedRow,
     loopVars
<1>11. ASSUME NEW c \in Captures, GateClaims(c) PROVE DurableCompletion'
  BY <1>11 DEF GateClaims, loopVars
<1>12. ASSUME NEW c \in Captures, GateReads(c) PROVE DurableCompletion'
  BY <1>12 DEF GateReads, loopVars, storeVars
<1>13. ASSUME NEW c \in Captures, GateFails(c) PROVE DurableCompletion'
  BY <1>13 DEF GateFails, loopVars, storeVars
<1>14. QED
  BY <1>1, <1>2, <1>3, <1>4, <1>5, <1>6, <1>7, <1>8, <1>9, <1>10, <1>11,
     <1>12, <1>13
     DEF Next, LoopNext, AppendNext, WorkerNext, GateNext, vars, loopVars,
        recVars, storeVars, StartProject, StartRealtime, CaptureStarts,
        StartAborts, AbortEnds, FramesArrive, ArchiveTakes, ArchiveResumes,
        Backpressure, StopBegins, IngressStops, ArchiveEnds, DrainEnds,
        DrainTimesOut, StopEnds, Close, CleanupStops, CleanupReturns,
        BudgetRunsOut, DeadlineExpires, GatePending, GateDecides, Settles,
        SettlementAbandoned, AppendBuffers, WorkerStarts, WorkerWrites,
        WorkerReadsGate, WorkerSettles

LEMMA NextFinalizingOwned == IInv /\ [Next]_vars => FinalizingOwned'
<1> SUFFICES ASSUME IInv, [Next]_vars PROVE FinalizingOwned'
  OBVIOUS
<1> USE DEF IInv, TypeOK, FinalizingOwned, Owned, WorkerAfterArchive, Opened,
   OneFinalization, DurableCompletion, ClosedNeverCommits, FailedNeverCommits,
   CompletedByWorker, AppendOwned, WorkerPending
<1>1. CASE UNCHANGED <<cleanup, last, current, worker, settling, closing,
   completed, failure, capture, call, pipeline, row>>
  BY <1>1
<1>2. CASE StartProject
  BY <1>2, MayStartType DEF StartProject, MayStart, Outstanding, recVars,
     storeVars
<1>3. CASE StartRealtime
  BY <1>3, MayStartType DEF StartRealtime, MayStart, Outstanding, recVars,
     storeVars
<1>4. CASE RecorderOpens
  BY <1>4 DEF RecorderOpens
<1>5. CASE CaptureStarts
  BY <1>5 DEF CaptureStarts, recVars, storeVars
<1>6. CASE StartAborts
  BY <1>6 DEF StartAborts, PublishFailure, RecorderFail, EnsureCleanup,
     storeVars
<1>7. CASE AbortEnds
  BY <1>7 DEF AbortEnds, recVars, storeVars
<1>8. CASE ArchiveResumes
  BY <1>8 DEF ArchiveResumes, HandleRecorderFailure, PublishFailure,
     RecorderFail, EnsureCleanup
<1>9. CASE Backpressure
  BY <1>9 DEF Backpressure, HandleRecorderFailure, PublishFailure,
     RecorderFail, EnsureCleanup
<1>10. CASE StopBegins
  <2>1. closing => closing'
    BY <1>10 DEF StopBegins
  <2>2. call' = "ingress"
    BY <1>10 DEF StopBegins
  <2>3. QED
    BY <1>10, <2>1, <2>2 DEF StopBegins, recVars, storeVars
<1>11. CASE IngressStops
  BY <1>11 DEF IngressStops, recVars, storeVars
<1>12. CASE DrainEnds
  BY <1>12 DEF DrainEnds, EnsureCleanup, recVars, storeVars
<1>13. CASE DrainTimesOut
  BY <1>13 DEF DrainTimesOut, HandleRecorderFailure, PublishFailure,
     RecorderFail, EnsureCleanup
<1>14. CASE StopEnds
  <2>1. last # 0 => last \in Captures
    BY FinalizationAssumption DEF Captures
  <2>2. last \in Captures /\ WorkerPending(last) => last = current
    OBVIOUS
  <2>3. capture' = "finalizing" => failure = 0 /\ Outstanding
    BY <1>14 DEF StopEnds
  <2>4. capture' = "finalizing" =>
          closing \/ settling \/ (last \in Captures /\ row[last] = "completed")
    BY <1>14, <2>1, <2>2, <2>3 DEF StopEnds, Outstanding
  <2>5. QED
    BY <1>14, <2>4 DEF StopEnds, recVars, storeVars
<1>15. CASE Close
  BY <1>15 DEF Close, recVars, storeVars
<1>16. CASE CleanupStops
  BY <1>16 DEF CleanupStops, storeVars
<1>17. CASE CleanupReturns
  BY <1>17 DEF CleanupReturns, recVars, storeVars
<1>18. CASE DeadlineExpires
  BY <1>18 DEF DeadlineExpires, storeVars
<1>19. CASE GateCloses
  BY <1>19 DEF GateCloses, TerminalLocked, storeVars
<1>20. CASE GatePending
  BY <1>20 DEF GatePending, TerminalLocked, recVars, storeVars
<1>21. CASE GateDecides
  <2>1. current \in Captures /\ ~completed[current]
    BY <1>21 DEF GateDecides
  <2>2. gate[current] # "sawCompleted"
    BY <2>1
  <2>3. failure' # 0 /\ capture' \in {capture, "degraded"}
    BY <1>21, <2>1, <2>2 DEF GateDecides, Captures
  <2>4. QED
    BY <1>21, <2>3 DEF GateDecides
<1>22. CASE Settles
  BY <1>22 DEF Settles, LoopFree, WorkerPending, RecorderFail, storeVars
<1>23. CASE SettlementAbandoned
  BY <1>23 DEF SettlementAbandoned, LoopFree, WorkerPending, recVars, storeVars
<1>24. ASSUME NEW c \in Captures, AppendRegisters(c) PROVE FinalizingOwned'
  BY <1>24 DEF AppendRegisters, loopVars
<1>25. ASSUME NEW c \in Captures, AppendFails(c) PROVE FinalizingOwned'
  BY <1>25 DEF AppendFails, MarkFailed, FailedRow, loopVars
<1>26. ASSUME NEW c \in Captures, WorkerStarts(c) PROVE FinalizingOwned'
  BY <1>26 DEF WorkerStarts, AppendHoldsWriter, RecorderFail, loopVars,
     storeVars
<1>27. ASSUME NEW c \in Captures, WorkerWrites(c) PROVE FinalizingOwned'
  BY <1>27 DEF WorkerWrites, loopVars, storeVars
<1>28. ASSUME NEW c \in Captures, WorkerRegisters(c) PROVE FinalizingOwned'
  BY <1>28 DEF WorkerRegisters, loopVars
<1>29. ASSUME NEW c \in Captures, FlushFails(c) PROVE FinalizingOwned'
  BY <1>29 DEF FlushFails, WorkerHoldsWriter, MarkFailed, FailedRow,
     RecorderFail, loopVars
<1>30. ASSUME NEW c \in Captures, WorkerReadsGate(c) PROVE FinalizingOwned'
  BY <1>30 DEF WorkerReadsGate, GateOpen, RecorderFail, loopVars, storeVars
<1>31. ASSUME NEW c \in Captures, WorkerCommits(c) PROVE FinalizingOwned'
  BY <1>31 DEF WorkerCommits, AppendHoldsWriter, loopVars
<1>32. ASSUME NEW c \in Captures, CommitFails(c) PROVE FinalizingOwned'
  BY <1>32 DEF CommitFails, AppendHoldsWriter, MarkFailed, FailedRow,
     RecorderFail, loopVars
<1>33. ASSUME NEW c \in Captures, WorkerRefuses(c) PROVE FinalizingOwned'
  BY <1>33 DEF WorkerRefuses, AppendHoldsWriter, MarkFailed, FailedRow,
     loopVars
<1>34. ASSUME NEW c \in Captures, WorkerSettles(c) PROVE FinalizingOwned'
  BY <1>34 DEF WorkerSettles, loopVars, storeVars
<1>35. ASSUME NEW c \in Captures, GateClaims(c) PROVE FinalizingOwned'
  BY <1>35 DEF GateClaims, loopVars
<1>36. QED
  BY <1>1, <1>2, <1>3, <1>4, <1>5, <1>6, <1>7, <1>8, <1>9, <1>10, <1>11,
     <1>12, <1>13, <1>14, <1>15, <1>16, <1>17, <1>18, <1>19, <1>20, <1>21,
     <1>22, <1>23, <1>24, <1>25, <1>26, <1>27, <1>28, <1>29, <1>30, <1>31,
     <1>32, <1>33, <1>34, <1>35
     DEF Next, LoopNext, AppendNext, WorkerNext, GateNext, vars, loopVars,
        recVars, storeVars, FramesArrive, ArchiveTakes, ArchiveEnds,
        BudgetRunsOut, AppendBuffers, GateReads, GateFails

LEMMA NextIInv == IInv /\ [Next]_vars => IInv'
BY NextTypeOK, NextFresh, NextOwned, NextWorkerAfterArchive, NextOpened,
   NextFailurePublished, NextAppendOwned, NextFailedNeverCommits,
   NextClosedNeverCommits, NextCompletedByWorker, NextNothingLostOnTheWay,
   NextOneFinalization, NextDurableCompletion, NextFinalizingOwned DEF IInv

LEMMA InvariantIInv == Spec => []IInv
BY InitIInv, NextIInv, PTL DEF Spec
-----------------------------------------------------------------------------
\* The service, the recorders and their sessions stay within their types.
THEOREM TypeCorrect == Spec => []TypeOK
<1>1. IInv => TypeOK
  BY DEF IInv
<1>2. QED
  BY <1>1, InvariantIInv, PTL

\* A failure the runtime has published is never contradicted by the database.
THEOREM FailureStands == Spec => []PublishedFailureStands
<1>1. IInv => PublishedFailureStands
  BY DEF IInv, TypeOK, FailurePublished, FailedNeverCommits,
         CompletedByWorker, PublishedFailureStands
<1>2. QED
  BY <1>1, InvariantIInv, PTL

\* A COMPLETED session holds every frame its archive was handed.
THEOREM Lossless == Spec => []CompletedIsLossless
<1>1. IInv => CompletedIsLossless
  BY DEF IInv, CompletedByWorker, CompletedIsLossless
<1>2. QED
  BY <1>1, InvariantIInv, PTL

\* No worker completes a session after its gate has been closed.
THEOREM GateHolds == Spec => ClosedGateHolds
<1>1. IInv /\ [Next]_vars =>
        \A c \in Captures :
          budget[c] = "closed" /\ row'[c] = "completed" => row[c] = "completed"
  <2> SUFFICES ASSUME IInv, [Next]_vars, NEW c \in Captures,
                      budget[c] = "closed", row'[c] = "completed"
               PROVE  row[c] = "completed"
    OBVIOUS
  <2>1. IInv'
    BY NextIInv
  <2>2. completed'[c]
    BY <2>1 DEF IInv, CompletedByWorker
  <2>3. CASE completed[c]
    BY <2>3 DEF IInv, DurableCompletion
  <2>4. CASE ~completed[c]
    <3>1. \E d \in Captures : WorkerCommits(d)
      BY <2>2, <2>4
         DEF Next, LoopNext, AppendNext, WorkerNext, GateNext, vars, loopVars,
             recVars, storeVars, StartProject, StartRealtime, RecorderOpens,
                CaptureStarts, StartAborts, AbortEnds, FramesArrive,
                ArchiveTakes, ArchiveResumes, Backpressure, StopBegins,
                IngressStops, ArchiveEnds, DrainEnds, DrainTimesOut, StopEnds,
                Close, CleanupStops, CleanupReturns, BudgetRunsOut,
                DeadlineExpires, GateCloses, GatePending, GateDecides,
                Settles, SettlementAbandoned, AppendBuffers, AppendRegisters,
                AppendFails, WorkerStarts, WorkerWrites, WorkerRegisters,
                FlushFails, WorkerReadsGate, CommitFails, WorkerRefuses,
                WorkerSettles, GateClaims, GateReads, GateFails
    <3>2. worker[c] = "commit"
      BY <2>2, <2>4, <3>1 DEF IInv, TypeOK, WorkerCommits
    <3>3. QED
      BY <3>2 DEF IInv, ClosedNeverCommits
  <2>5. QED
    BY <2>3, <2>4
<1>2. QED
  BY <1>1, InvariantIInv, PTL DEF Spec, ClosedGateHolds

\* At most one capture still has a finalization under way.
THEOREM OneAtATime == Spec => []NoCaptureUnderFinalization
<1>1. IInv => NoCaptureUnderFinalization
  BY DEF IInv, OneFinalization, Opened, NoCaptureUnderFinalization
<1>2. QED
  BY <1>1, InvariantIInv, PTL

\* FINALIZING left behind by a stop is being settled, or is in fact COMPLETED.
THEOREM FinalizingTruthful == Spec => []FinalizingHidesNoFailure
<1>1. IInv => FinalizingHidesNoFailure
  BY DEF IInv, FinalizingOwned, FinalizingHidesNoFailure
<1>2. QED
  BY <1>1, InvariantIInv, PTL

\* An outstanding finalization is the only one, and FINALIZING hides no failure.
THEOREM FinalizationAccounts == Spec => []FinalizationIsAccounted
BY OneAtATime, FinalizingTruthful, PTL DEF FinalizationIsAccounted
=============================================================================
