------------------------- MODULE RecorderFinalization -------------------------
(***************************************************************************)
(* How a capture ends: runtime/canx/runtime/service.py (start, stop, the   *)
(* cleanup and the settlement tasks), recorder/project_recorder.py (the    *)
(* finalization worker, the terminal lock, the gate) and the row of the    *)
(* data session in SQLite (data/session.py, data/repository.py).           *)
(*                                                                         *)
(* Actors:                                                                 *)
(*   - the event loop: one start or stop at a time (the lifecycle lock),   *)
(*     the archive consumer, the cleanup task, the settlement task; it     *)
(*     yields only at an await, so what lies between two awaits is one     *)
(*     action, and it runs nothing else while close_finalization_gate      *)
(*     blocks it (cleanup is then "gate" or "verdict");                    *)
(*   - threads asyncio cannot cancel: one append and one finalization      *)
(*     worker per recorder, and the gate's own settling thread.            *)
(*                                                                         *)
(* One SQLite transaction is one atomic update of row.  Time is what the   *)
(* properties tell apart of it: whether the stop budget still has room for *)
(* a commit (budget).  Frames are reduced to two facts per capture: some   *)
(* are buffered and not yet in a segment, some will never be.              *)
(***************************************************************************)
EXTENDS Naturals

CONSTANTS
  MaxCaptures,  \* bound on the number of captures started
  DiskFaults    \* whether a write to the project may fail

ASSUME FinalizationAssumption ==
  /\ MaxCaptures \in Nat
  /\ DiskFaults \in BOOLEAN

Captures == 1..MaxCaptures

VARIABLES
  \* RuntimeService, on the event loop.
  capture,    \* _capture_state
  failure,    \* _failure: 0, or the capture whose recorder it came from
  pipeline,   \* _pipeline is not None
  ingress,    \* the pipeline's capture loop runs
  call,       \* where the holder of the lifecycle lock is
  archive,    \* _archive_task
  queued,     \* the archive subscriber's queue holds frames
  cleanup,    \* _recorder_cleanup_task, "none" when the field is None
  settling,   \* _finalization_settlement_task is not None
  closing,    \* aclose was called
  current,    \* the capture whose recorder is _recorder, 0 before the first
  last,       \* the capture whose recorder is _last_project_recorder, or 0
  \* ProjectRecorder, one per capture.
  recState,   \* state
  recFailed,  \* failure is not None
  budget,     \* _deadline, as the gate reads it
  completed,  \* _completed
  worker,     \* the thread that runs _finish_serially
  append,     \* the thread that runs _append_serially
  gate,       \* the thread of _settle_durable_state
  \* DataSessionWriter and the project database, one session per capture.
  mem,        \* the writer's in-memory session state
  buffer,     \* the writer buffers frames that are in no segment
  lost,       \* frames the archive was given will never be in a segment
  row,        \* the state column of the session's row
  \* History.
  condemned   \* the captures a failure was ever published for

loopVars == <<capture, failure, pipeline, ingress, call, archive, queued,
              cleanup, settling, closing, current, last>>
recVars == <<recState, recFailed, budget, completed, worker, append, gate>>
storeVars == <<mem, buffer, lost, row>>
vars == <<loopVars, recVars, storeVars, condemned>>

-----------------------------------------------------------------------------
CaptureState == {"idle", "running", "degraded", "finalizing", "failed"}
CallState == {"none", "open", "launch", "abort", "ingress", "drain", "cleanup"}
ArchiveState == {"none", "running", "writing", "done"}
CleanupState == {"none", "join", "wait", "gate", "verdict", "done"}
RecorderState == {"idle", "recording", "stopped", "failed"}
Budget == {"unarmed", "ample", "spent", "closed"}
WorkerState == {"none", "queued", "flush", "register", "decide", "commit",
                "refuse", "exit", "done", "dropped"}
AppendState == {"none", "queued", "register", "ok", "error"}
GateState == {"none", "claim", "read", "sawCompleted", "sawOther", "sawNothing"}
SessionState == {"none", "active", "completed", "failed"}

\* The type of the state.
TypeOK ==
  /\ capture \in CaptureState
  /\ failure \in 0..MaxCaptures
  /\ pipeline \in BOOLEAN
  /\ ingress \in BOOLEAN
  /\ call \in CallState
  /\ archive \in ArchiveState
  /\ queued \in BOOLEAN
  /\ cleanup \in CleanupState
  /\ settling \in BOOLEAN
  /\ closing \in BOOLEAN
  /\ current \in 0..MaxCaptures
  /\ last \in 0..MaxCaptures
  /\ recState \in [Captures -> RecorderState]
  /\ recFailed \in [Captures -> BOOLEAN]
  /\ budget \in [Captures -> Budget]
  /\ completed \in [Captures -> BOOLEAN]
  /\ worker \in [Captures -> WorkerState]
  /\ append \in [Captures -> AppendState]
  /\ gate \in [Captures -> GateState]
  /\ mem \in [Captures -> SessionState]
  /\ buffer \in [Captures -> BOOLEAN]
  /\ lost \in [Captures -> BOOLEAN]
  /\ row \in [Captures -> SessionState]
  /\ condemned \in SUBSET Captures

Init ==
  /\ capture = "idle"
  /\ failure = 0
  /\ pipeline = FALSE
  /\ ingress = FALSE
  /\ call = "none"
  /\ archive = "none"
  /\ queued = FALSE
  /\ cleanup = "none"
  /\ settling = FALSE
  /\ closing = FALSE
  /\ current = 0
  /\ last = 0
  /\ recState = [c \in Captures |-> "idle"]
  /\ recFailed = [c \in Captures |-> FALSE]
  /\ budget = [c \in Captures |-> "unarmed"]
  /\ completed = [c \in Captures |-> FALSE]
  /\ worker = [c \in Captures |-> "none"]
  /\ append = [c \in Captures |-> "none"]
  /\ gate = [c \in Captures |-> "none"]
  /\ mem = [c \in Captures |-> "none"]
  /\ buffer = [c \in Captures |-> FALSE]
  /\ lost = [c \in Captures |-> FALSE]
  /\ row = [c \in Captures |-> "none"]
  /\ condemned = {}

-----------------------------------------------------------------------------
(* What several steps share. *)

\* The event loop is not blocked inside close_finalization_gate.
LoopFree == cleanup \notin {"gate", "verdict"}

\* Fault: the settled event is never set.
NeverSettled(c) == worker[c] # "none"

\* finalization_pending: stop() was entered and its worker has not settled.  A
\* worker the executor dropped never settles.
WorkerPending(c) == worker[c] \notin {"none", "done"}

\* Fault: the abandoned worker is forgotten.
OutstandingTaskOnly == settling

\* _finalization_outstanding.
Outstanding == settling \/ (last # 0 /\ WorkerPending(last))

\* _terminal_lock is held by the finalization worker.
TerminalLocked(c) == worker[c] \in {"commit", "refuse"}

\* _lock, which serialises the writer's calls, is held by one of the threads.
AppendHoldsWriter(c) == append[c] = "register"
WorkerHoldsWriter(c) == worker[c] \in {"flush", "register"}

\* Faults: the gate looks at the deadline only, or at the failure only.
GateOnDeadline(c) == budget[c] \in {"unarmed", "ample"}
GateOnFailure(c) == ~recFailed[c]

\* _gate_open: no failure, and a commit still fits into the budget.
GateOpen(c) == ~recFailed[c] /\ budget[c] \in {"unarmed", "ample"}

\* Fault: the row is marked with a state the writer does not know.
InterruptedRow(c) == {"interrupted"}

\* The advance of an ACTIVE row to FAILED that _mark_failed suppresses the
\* errors of: the outcomes it may leave behind.
FailedRow(c) ==
  IF row[c] # "active" THEN {row[c]}
  ELSE IF DiskFaults THEN {"failed", "active"} ELSE {"failed"}

\* _mark_failed: in memory for certain, in the database if it can.
MarkFailed(c) ==
  /\ mem' = [mem EXCEPT ![c] = "failed"]
  /\ \E s \in FailedRow(c) : row' = [row EXCEPT ![c] = s]

\* ProjectRecorder.fail.
RecorderFail(c) ==
  /\ recFailed' = [recFailed EXCEPT ![c] = TRUE]
  /\ recState' = [recState EXCEPT ![c] = "failed"]

\* Fault: nobody creates the cleanup task.
NoCleanup == cleanup

\* _ensure_recorder_cleanup: one cleanup task per capture.
EnsureCleanup == IF cleanup = "none" THEN "join" ELSE cleanup

\* What _handle_recorder_failure publishes: only the first failure counts.
PublishFailure ==
  IF failure # 0 THEN UNCHANGED <<failure, condemned, recFailed, recState>>
  ELSE /\ RecorderFail(current)
       /\ failure' = current
       /\ condemned' = condemned \union {current}

\* _handle_recorder_failure: publish, detach and disable the archive queue,
\* cancel the archive task, make sure the recorder is being cleaned up.
HandleRecorderFailure ==
  /\ PublishFailure
  /\ IF failure # 0 THEN UNCHANGED <<capture, queued, lost, cleanup>>
     ELSE /\ capture' = "degraded"
          /\ queued' = FALSE
          /\ lost' = [lost EXCEPT ![current] = TRUE]
          /\ cleanup' = EnsureCleanup
  /\ archive' = IF archive = "none" THEN "none" ELSE "done"

-----------------------------------------------------------------------------
(* start_capture. *)

\* Past the refusals: no session is owned, and no finalization is outstanding.
MayStart == /\ LoopFree
            /\ call = "none"
            /\ ~closing
            /\ ~pipeline
            /\ ~Outstanding
            /\ current < MaxCaptures

\* A project target: a new ProjectRecorder, whose start awaits a thread.
StartProject ==
  /\ MayStart
  /\ call' = "open"
  /\ current' = current + 1
  /\ pipeline' = TRUE
  /\ queued' = FALSE
  /\ UNCHANGED <<capture, failure, ingress, archive, cleanup, settling, closing,
                 last, recVars, storeVars, condemned>>

\* No target: the recorder is reset and opens nothing; the virtual adapter
\* opens without an await, so the capture runs at once.
StartRealtime ==
  /\ MayStart
  /\ current' = current + 1
  /\ pipeline' = TRUE
  /\ ingress' = TRUE
  /\ archive' = "running"
  /\ queued' = FALSE
  /\ failure' = 0
  /\ capture' = "running"
  /\ UNCHANGED <<call, cleanup, settling, closing, last, recVars, storeVars,
                 condemned>>

\* DataSessionService.start inserted the row; the recorder records.
RecorderOpens ==
  /\ LoopFree
  /\ call = "open"
  /\ call' = "launch"
  /\ last' = current
  /\ recState' = [recState EXCEPT ![current] = "recording"]
  /\ mem' = [mem EXCEPT ![current] = "active"]
  /\ row' = [row EXCEPT ![current] = "active"]
  /\ UNCHANGED <<capture, failure, pipeline, ingress, archive, queued, cleanup,
                 settling, closing, current, recFailed, budget, completed,
                 worker, append, gate, buffer, lost, condemned>>

\* The consumers and the pipeline start.
CaptureStarts ==
  /\ LoopFree
  /\ call = "launch"
  /\ call' = "none"
  /\ archive' = "running"
  /\ ingress' = TRUE
  /\ failure' = 0
  /\ capture' = "running"
  /\ UNCHANGED <<pipeline, queued, cleanup, settling, closing, current, last,
                 recVars, storeVars, condemned>>

\* The except branch: the session could not be opened, or the pipeline failed to
\* start after it was.  _handle_recorder_failure, then everything is released
\* and the recorder's cleanup awaited.
StartAborts ==
  /\ LoopFree
  /\ \/ call = "open" /\ DiskFaults
     \/ call = "launch"
  /\ PublishFailure
  /\ call' = "abort"
  /\ pipeline' = FALSE
  /\ archive' = "none"
  /\ capture' = "failed"
  /\ cleanup' = EnsureCleanup
  /\ UNCHANGED <<ingress, queued, settling, closing, current, last, budget,
                 completed, worker, append, gate, storeVars>>

\* The cleanup task is over; the exception leaves start_capture.
AbortEnds ==
  /\ LoopFree
  /\ call = "abort"
  /\ cleanup = "done"
  /\ call' = "none"
  /\ cleanup' = "none"
  /\ UNCHANGED <<capture, failure, pipeline, ingress, archive, queued, settling,
                 closing, current, last, recVars, storeVars, condemned>>

-----------------------------------------------------------------------------
(* The capture runs. *)

\* The capture loop delivers frames to the archive's queue, unless a failure has
\* detached it.
FramesArrive ==
  /\ LoopFree
  /\ ingress
  /\ archive \in {"running", "writing"}
  /\ ~queued
  /\ queued' = TRUE
  /\ UNCHANGED <<capture, failure, pipeline, ingress, call, archive, cleanup,
                 settling, closing, current, last, recVars, storeVars,
                 condemned>>

\* _consume_subscriber hands a batch to _publish_archive, which appends it only
\* while the recorder records.
ArchiveTakes ==
  /\ LoopFree
  /\ archive = "running"
  /\ queued
  /\ queued' = FALSE
  /\ IF recState[current] = "recording"
     THEN /\ archive' = "writing"
          /\ append' = [append EXCEPT ![current] = "queued"]
     ELSE UNCHANGED <<archive, append>>
  /\ UNCHANGED <<capture, failure, pipeline, ingress, call, cleanup, settling,
                 closing, current, last, recState, recFailed, budget, completed,
                 worker, gate, storeVars, condemned>>

\* The thread's answer reaches the consumer: go on, or record the failure.
ArchiveResumes ==
  /\ LoopFree
  /\ archive = "writing"
  /\ \/ /\ append[current] = "ok"
        /\ archive' = "running"
        /\ UNCHANGED <<capture, failure, queued, cleanup, recState, recFailed,
                       lost, condemned>>
     \/ /\ append[current] = "error"
        /\ HandleRecorderFailure
  /\ UNCHANGED <<pipeline, ingress, call, settling, closing, current, last,
                 budget, completed, worker, append, gate, mem, buffer, row>>

\* The archive's queue stayed full past its publication deadline.
Backpressure ==
  /\ LoopFree
  /\ ingress
  /\ archive \in {"running", "writing"}
  /\ queued
  /\ HandleRecorderFailure
  /\ UNCHANGED <<pipeline, ingress, call, settling, closing, current, last,
                 budget, completed, worker, append, gate, mem, buffer, row>>

-----------------------------------------------------------------------------
(* stop_capture, and aclose. *)

\* The stop begins, on its own or for aclose.
StopBegins ==
  /\ LoopFree
  /\ call = "none"
  /\ pipeline
  /\ call' = "ingress"
  /\ closing' \in {closing, TRUE}
  /\ capture' = IF failure = 0 THEN "finalizing" ELSE capture
  /\ UNCHANGED <<failure, pipeline, ingress, archive, queued, cleanup, settling,
                 current, last, recVars, storeVars, condemned>>

\* pipeline.stop() returned and the stop event is set.
IngressStops ==
  /\ LoopFree
  /\ call = "ingress"
  /\ call' = "drain"
  /\ ingress' = FALSE
  /\ UNCHANGED <<capture, failure, pipeline, archive, queued, cleanup, settling,
                 closing, current, last, recVars, storeVars, condemned>>

\* The archive consumer has emptied its queue after the stop event.
ArchiveEnds ==
  /\ LoopFree
  /\ call = "drain"
  /\ archive = "running"
  /\ ~queued
  /\ archive' = "done"
  /\ UNCHANGED <<capture, failure, pipeline, ingress, call, queued, cleanup,
                 settling, closing, current, last, recVars, storeVars,
                 condemned>>

\* No consumer is left: the recorder's cleanup is started, or the one already
\* running is joined.
DrainEnds ==
  /\ LoopFree
  /\ call = "drain"
  /\ archive = "done"
  /\ call' = "cleanup"
  /\ cleanup' = EnsureCleanup
  /\ UNCHANGED <<capture, failure, pipeline, ingress, archive, queued, settling,
                 closing, current, last, recVars, storeVars, condemned>>

\* The consumers missed the deadline: wait_for cancelled them.
DrainTimesOut ==
  /\ LoopFree
  /\ call = "drain"
  /\ archive \in {"running", "writing"}
  /\ HandleRecorderFailure
  /\ call' = "cleanup"
  /\ UNCHANGED <<pipeline, ingress, settling, closing, current, last, budget,
                 completed, worker, append, gate, mem, buffer, row>>

\* The cleanup task is over: release the session and publish what is known.
StopEnds ==
  /\ LoopFree
  /\ call = "cleanup"
  /\ cleanup = "done"
  /\ call' = "none"
  /\ cleanup' = "none"
  /\ archive' = "none"
  /\ pipeline' = FALSE
  /\ capture' = IF failure # 0 THEN "failed"
                ELSE IF Outstanding THEN "finalizing" ELSE "idle"
  /\ UNCHANGED <<failure, ingress, queued, settling, closing, current, last,
                 recVars, storeVars, condemned>>

\* aclose with no session to stop.
Close ==
  /\ LoopFree
  /\ call = "none"
  /\ ~pipeline
  /\ ~closing
  /\ closing' = TRUE
  /\ UNCHANGED <<capture, failure, pipeline, ingress, call, archive, queued,
                 cleanup, settling, current, last, recVars, storeVars,
                 condemned>>

-----------------------------------------------------------------------------
(* _cleanup_recorder and what follows a missed deadline. *)

\* The archive task is joined: arm the deadline and enter recorder.stop(), which
\* hands _finish_serially to a thread if a session was opened.
CleanupStops ==
  /\ LoopFree
  /\ cleanup = "join"
  /\ archive \in {"none", "done"}
  /\ IF mem[current] = "none"
     THEN /\ cleanup' = "done"
          /\ UNCHANGED <<budget, worker>>
     ELSE /\ cleanup' = "wait"
          /\ budget' = [budget EXCEPT ![current] = "ample"]
          /\ worker' = [worker EXCEPT ![current] = "queued"]
  /\ UNCHANGED <<capture, failure, pipeline, ingress, call, archive, queued,
                 settling, closing, current, last, recState, recFailed,
                 completed, append, gate, storeVars, condemned>>

\* recorder.stop() returned inside its budget.  It raises nothing: a fault of
\* the flush or of the commit was kept in the recorder.
CleanupReturns ==
  /\ LoopFree
  /\ cleanup = "wait"
  /\ worker[current] = "done"
  /\ cleanup' = "done"
  /\ UNCHANGED <<capture, failure, pipeline, ingress, call, archive, queued,
                 settling, closing, current, last, recVars, storeVars,
                 condemned>>

\* What is left of the budget no longer has room for a commit.
BudgetRunsOut ==
  /\ current \in Captures
  /\ budget[current] = "ample"
  /\ worker[current] # "done"
  /\ budget' = [budget EXCEPT ![current] = "spent"]
  /\ UNCHANGED <<loopVars, recState, recFailed, completed, worker, append, gate,
                 storeVars, condemned>>

\* wait_for gives up.  It cancels the await, which a running thread ignores; a
\* call still in the executor's queue is taken out of it.
DeadlineExpires ==
  /\ LoopFree
  /\ cleanup = "wait"
  /\ budget[current] = "spent"
  /\ worker[current] # "done"
  /\ cleanup' = "gate"
  /\ worker' = [worker EXCEPT ![current] = IF @ = "queued" THEN "dropped" ELSE @]
  /\ UNCHANGED <<capture, failure, pipeline, ingress, call, archive, queued,
                 settling, closing, current, last, recState, recFailed, budget,
                 completed, append, gate, storeVars, condemned>>

\* close_finalization_gate has the terminal lock: a completion already taken is
\* reported, otherwise the gate is closed for good and the row is settled.
GateCloses ==
  /\ cleanup = "gate"
  /\ ~TerminalLocked(current)
  /\ IF completed[current]
     THEN /\ cleanup' = "done"
          /\ UNCHANGED <<budget, gate>>
     ELSE /\ cleanup' = "verdict"
          /\ budget' = [budget EXCEPT ![current] = "closed"]
          /\ gate' = [gate EXCEPT ![current] = "claim"]
  /\ UNCHANGED <<capture, failure, pipeline, ingress, call, archive, queued,
                 settling, closing, current, last, recState, recFailed,
                 completed, worker, append, storeVars, condemned>>

\* Fault: no task is left to settle the outcome.
GatePendingUnowned ==
  /\ cleanup = "gate"
  /\ TerminalLocked(current)
  /\ cleanup' = "done"
  /\ capture' = "finalizing"
  /\ UNCHANGED <<failure, pipeline, ingress, call, archive, queued, settling,
                 closing, current, last, recVars, storeVars, condemned>>

\* The lock was not to be had: PENDING, and one settlement task.
GatePending ==
  /\ cleanup = "gate"
  /\ TerminalLocked(current)
  /\ cleanup' = "done"
  /\ capture' = "finalizing"
  /\ settling' = TRUE
  /\ UNCHANGED <<failure, pipeline, ingress, call, archive, queued, closing,
                 current, last, recVars, storeVars, condemned>>

\* The settling thread was joined, or its bound ran out with no answer; only a
\* COMPLETED it has read is not a failure.
GateDecides ==
  /\ cleanup = "verdict"
  /\ IF gate[current] = "sawCompleted"
     THEN UNCHANGED <<capture, failure, queued, lost, recState, recFailed,
                      condemned>>
     ELSE /\ RecorderFail(current)
          /\ IF failure # 0 THEN UNCHANGED <<capture, failure, queued, lost, condemned>>
             ELSE /\ failure' = current
                  /\ condemned' = condemned \union {current}
                  /\ capture' = "degraded"
                  /\ queued' = FALSE
                  /\ lost' = [lost EXCEPT ![current] = TRUE]
  /\ cleanup' = "done"
  /\ UNCHANGED <<pipeline, ingress, call, archive, settling, closing, current,
                 last, budget, completed, worker, append, gate, mem, buffer,
                 row>>

\* _settle_pending_finalization: the worker is gone and has said how it ended.
Settles ==
  /\ LoopFree
  /\ settling
  /\ ~WorkerPending(last)
  /\ settling' = FALSE
  /\ IF completed[last]
     THEN /\ capture' = IF failure = 0 THEN "idle" ELSE capture
          /\ UNCHANGED <<failure, condemned, recState, recFailed>>
     ELSE /\ capture' = "failed"
          /\ IF failure # 0
             THEN UNCHANGED <<failure, condemned, recState, recFailed>>
             ELSE /\ RecorderFail(last)
                  /\ failure' = last
                  /\ condemned' = condemned \union {last}
  /\ UNCHANGED <<pipeline, ingress, call, archive, queued, cleanup, closing,
                 current, last, budget, completed, worker, append, gate,
                 storeVars>>

\* aclose stops waiting for the settlement and cancels it.
SettlementAbandoned ==
  /\ LoopFree
  /\ closing
  /\ call = "none"
  /\ settling
  /\ WorkerPending(last)
  /\ settling' = FALSE
  /\ UNCHANGED <<capture, failure, pipeline, ingress, call, archive, queued,
                 cleanup, closing, current, last, recVars, storeVars, condemned>>

-----------------------------------------------------------------------------
(* The append thread: DataSessionWriter.append under the writer lock. *)

\* The batch joins the buffer; a full segment may be written, and then has to be
\* registered.  A session no longer ACTIVE refuses the batch.
AppendBuffers(c) ==
  /\ append[c] = "queued"
  /\ ~WorkerHoldsWriter(c)
  /\ IF mem[c] = "active"
     THEN /\ buffer' = [buffer EXCEPT ![c] = TRUE]
          /\ append' \in {[append EXCEPT ![c] = "ok"],
                          [append EXCEPT ![c] = "register"]}
          /\ UNCHANGED lost
     ELSE /\ append' = [append EXCEPT ![c] = "error"]
          /\ lost' = [lost EXCEPT ![c] = TRUE]
          /\ UNCHANGED buffer
  /\ UNCHANGED <<loopVars, recState, recFailed, budget, completed, worker, gate,
                 mem, row, condemned>>

\* register_segment: one transaction, which rewrites the whole row from the
\* writer's memory, where the session is ACTIVE.
AppendRegisters(c) ==
  /\ append[c] = "register"
  /\ append' = [append EXCEPT ![c] = "ok"]
  /\ row' = [row EXCEPT ![c] = mem[c]]
  /\ \E b \in BOOLEAN : buffer' = [buffer EXCEPT ![c] = b]
  /\ UNCHANGED <<loopVars, recState, recFailed, budget, completed, worker, gate,
                 mem, lost, condemned>>

\* The segment's file or its registration failed.
AppendFails(c) ==
  /\ DiskFaults
  /\ append[c] = "register"
  /\ append' = [append EXCEPT ![c] = "error"]
  /\ MarkFailed(c)
  /\ lost' = [lost EXCEPT ![c] = TRUE]
  /\ UNCHANGED <<loopVars, recState, recFailed, budget, completed, worker, gate,
                 buffer, condemned>>

-----------------------------------------------------------------------------
(* The finalization worker: _finish_serially. *)

\* Flush the tail, unless a failure is already known; a session that is no
\* longer ACTIVE refuses the flush.
WorkerStarts(c) ==
  /\ worker[c] = "queued"
  /\ IF recFailed[c]
     THEN /\ worker' = [worker EXCEPT ![c] = "decide"]
          /\ UNCHANGED <<recFailed, recState>>
     ELSE /\ ~AppendHoldsWriter(c)
          /\ IF mem[c] # "active"
             THEN /\ RecorderFail(c)
                  /\ worker' = [worker EXCEPT ![c] = "decide"]
             ELSE /\ worker' = [worker EXCEPT
                                  ![c] = IF buffer[c] THEN "flush" ELSE "decide"]
                  /\ UNCHANGED <<recFailed, recState>>
  /\ UNCHANGED <<loopVars, budget, completed, append, gate, storeVars, condemned>>

\* The tail's segment file is written.
WorkerWrites(c) ==
  /\ worker[c] = "flush"
  /\ worker' = [worker EXCEPT ![c] = "register"]
  /\ UNCHANGED <<loopVars, recState, recFailed, budget, completed, append, gate,
                 storeVars, condemned>>

\* register_segment, as in AppendRegisters.
WorkerRegisters(c) ==
  /\ worker[c] = "register"
  /\ worker' = [worker EXCEPT ![c] = "decide"]
  /\ row' = [row EXCEPT ![c] = mem[c]]
  /\ buffer' = [buffer EXCEPT ![c] = FALSE]
  /\ UNCHANGED <<loopVars, recState, recFailed, budget, completed, append, gate,
                 mem, lost, condemned>>

\* The file or its registration failed: the recorder keeps the failure.
FlushFails(c) ==
  /\ DiskFaults
  /\ WorkerHoldsWriter(c)
  /\ worker' = [worker EXCEPT ![c] = "decide"]
  /\ MarkFailed(c)
  /\ RecorderFail(c)
  /\ UNCHANGED <<loopVars, budget, completed, append, gate, buffer, lost,
                 condemned>>

\* _decide_terminally takes the terminal lock and reads the gate.
WorkerReadsGate(c) ==
  /\ worker[c] = "decide"
  /\ IF GateOpen(c)
     THEN /\ worker' = [worker EXCEPT ![c] = "commit"]
          /\ UNCHANGED <<recFailed, recState>>
     ELSE /\ worker' = [worker EXCEPT ![c] = "refuse"]
          /\ RecorderFail(c)
  /\ UNCHANGED <<loopVars, budget, completed, append, gate, storeVars, condemned>>

\* commit_completed: the row advances only while it is ACTIVE.
WorkerCommits(c) ==
  /\ worker[c] = "commit"
  /\ ~AppendHoldsWriter(c)
  /\ mem[c] = "active"
  /\ row[c] = "active"
  /\ worker' = [worker EXCEPT ![c] = "exit"]
  /\ row' = [row EXCEPT ![c] = "completed"]
  /\ mem' = [mem EXCEPT ![c] = "completed"]
  /\ completed' = [completed EXCEPT ![c] = TRUE]
  /\ recState' = [recState EXCEPT ![c] = "stopped"]
  /\ UNCHANGED <<loopVars, recFailed, budget, append, gate, buffer, lost,
                 condemned>>

\* The commit was refused, or could not be written.
CommitFails(c) ==
  /\ worker[c] = "commit"
  /\ ~AppendHoldsWriter(c)
  /\ DiskFaults \/ mem[c] # "active" \/ row[c] # "active"
  /\ worker' = [worker EXCEPT ![c] = "exit"]
  /\ IF mem[c] = "active" THEN MarkFailed(c) ELSE UNCHANGED <<mem, row>>
  /\ RecorderFail(c)
  /\ UNCHANGED <<loopVars, budget, completed, append, gate, buffer, lost,
                 condemned>>

\* writer.fail(): whatever is buffered is dropped and an ACTIVE session fails.
WorkerRefuses(c) ==
  /\ worker[c] = "refuse"
  /\ ~AppendHoldsWriter(c)
  /\ worker' = [worker EXCEPT ![c] = "exit"]
  /\ IF mem[c] = "active"
     THEN /\ MarkFailed(c)
          /\ lost' = [lost EXCEPT ![c] = @ \/ buffer[c]]
          /\ buffer' = [buffer EXCEPT ![c] = FALSE]
     ELSE UNCHANGED <<mem, row, lost, buffer>>
  /\ UNCHANGED <<loopVars, recState, recFailed, budget, completed, append, gate,
                 condemned>>

\* The terminal lock is released; only now is the finalization settled.
WorkerSettles(c) ==
  /\ worker[c] = "exit"
  /\ worker' = [worker EXCEPT ![c] = "done"]
  /\ UNCHANGED <<loopVars, recState, recFailed, budget, completed, append, gate,
                 storeVars, condemned>>

-----------------------------------------------------------------------------
(* The gate's thread: _settle_durable_state. *)

\* fail_active_session: an ACTIVE row becomes FAILED.
GateClaims(c) ==
  /\ gate[c] = "claim"
  /\ gate' = [gate EXCEPT ![c] = "read"]
  /\ row' = [row EXCEPT ![c] = IF @ = "active" THEN "failed" ELSE @]
  /\ UNCHANGED <<loopVars, recState, recFailed, budget, completed, worker,
                 append, mem, buffer, lost, condemned>>

\* get_session reads the row back in a transaction of its own.
GateReads(c) ==
  /\ gate[c] = "read"
  /\ gate' = [gate EXCEPT ![c] = IF row[c] = "completed" THEN "sawCompleted"
                                 ELSE "sawOther"]
  /\ UNCHANGED <<loopVars, recState, recFailed, budget, completed, worker,
                 append, storeVars, condemned>>

\* Either of them failed: nothing is known.
GateFails(c) ==
  /\ DiskFaults
  /\ gate[c] \in {"claim", "read"}
  /\ gate' = [gate EXCEPT ![c] = "sawNothing"]
  /\ UNCHANGED <<loopVars, recState, recFailed, budget, completed, worker,
                 append, storeVars, condemned>>

-----------------------------------------------------------------------------
LoopNext ==
  \/ StartProject \/ StartRealtime \/ RecorderOpens \/ CaptureStarts
  \/ StartAborts \/ AbortEnds
  \/ FramesArrive \/ ArchiveTakes \/ ArchiveResumes \/ Backpressure
  \/ StopBegins \/ IngressStops \/ ArchiveEnds \/ DrainEnds \/ DrainTimesOut
  \/ StopEnds \/ Close
  \/ CleanupStops \/ CleanupReturns \/ BudgetRunsOut \/ DeadlineExpires
  \/ GateCloses \/ GatePending \/ GateDecides \/ Settles \/ SettlementAbandoned

AppendNext(c) == AppendBuffers(c) \/ AppendRegisters(c) \/ AppendFails(c)

WorkerNext(c) ==
  \/ WorkerStarts(c) \/ WorkerWrites(c) \/ WorkerRegisters(c) \/ FlushFails(c)
  \/ WorkerReadsGate(c) \/ WorkerCommits(c) \/ CommitFails(c)
  \/ WorkerRefuses(c) \/ WorkerSettles(c)

GateNext(c) == GateClaims(c) \/ GateReads(c) \/ GateFails(c)

Next ==
  \/ LoopNext
  \/ \E c \in Captures : AppendNext(c) \/ WorkerNext(c) \/ GateNext(c)

Spec == Init /\ [][Next]_vars

\* The tasks of the event loop: the holder of the lifecycle lock, the archive
\* consumer, the cleanup task.
CallProgress == RecorderOpens \/ CaptureStarts \/ AbortEnds \/ IngressStops
                  \/ DrainEnds \/ StopEnds
ArchiveProgress == ArchiveTakes \/ ArchiveResumes \/ ArchiveEnds
CleanupProgress == CleanupStops \/ CleanupReturns \/ DeadlineExpires
                     \/ GateCloses \/ GatePending \/ GateDecides

\* The loop serves every task that can run, threads are scheduled, the clock
\* advances.  Nothing makes anybody start or stop a capture, no fault has to
\* happen, and no disk has to be faster than a deadline.
FairSpec ==
  /\ Spec
  /\ WF_vars(CallProgress)
  /\ WF_vars(ArchiveProgress)
  /\ WF_vars(CleanupProgress)
  /\ WF_vars(Settles)
  /\ WF_vars(BudgetRunsOut)
  /\ \A c \in Captures :
       /\ WF_vars(AppendNext(c))
       /\ WF_vars(WorkerNext(c))
       /\ WF_vars(GateNext(c))

-----------------------------------------------------------------------------
(* What holds. *)

\* A failure the runtime has published for a capture is never contradicted: the
\* session of that capture does not become COMPLETED, then or later, whichever
\* thread outlives the deadline (project_recorder.py, "No verdict without a
\* durable fact").
PublishedFailureStands == \A c \in condemned : row[c] # "completed"

\* A session is COMPLETED only if every frame the archive was handed is in a
\* registered segment: nothing rejected, discarded or left in the buffer.
CompletedIsLossless ==
  \A c \in Captures : row[c] = "completed" => ~lost[c] /\ ~buffer[c]

\* Once close_finalization_gate has closed the gate, the abandoned worker does
\* not complete the session, however late it resumes.
ClosedGateHolds ==
  [][\A c \in Captures :
       budget[c] = "closed" /\ row'[c] = "completed" => row[c] = "completed"]_vars

\* No capture is under way while the finalization of an earlier one may still
\* write: its worker is gone, and no settlement task waits for it.
NoCaptureUnderFinalization ==
  /\ \A c \in Captures : c # current => ~WorkerPending(c)
  /\ settling => last = current

\* A capture left FINALIZING by a stop that has returned is being settled, or was
\* in fact completed: the state never hides a recording that failed.
FinalizingHidesNoFailure ==
  capture = "finalizing" /\ call = "none" /\ ~pipeline /\ ~closing /\ ~settling
    => row[last] = "completed"

\* A finalization that is outstanding is the only one, and what FINALIZING
\* leaves open is never a failure (service.py _start_capture, _stop_capture).
FinalizationIsAccounted == NoCaptureUnderFinalization /\ FinalizingHidesNoFailure

\* A start or a stop always returns, even over a disk that never answers in time.
CallReturns == (call # "none") ~> (call = "none")

\* An outstanding finalization settles, so that the next capture may start,
\* unless the executor never gave the worker a thread.
OutstandingClears ==
  Outstanding ~> ~Outstanding \/ worker[last] = "dropped"

-----------------------------------------------------------------------------
(* What the repository says of the program, and the program does not do. *)

\* repository.py:161-163: a session another writer already completed or failed is
\* never overwritten.
TerminalRowStands ==
  [][\A c \in Captures :
       row[c] \in {"completed", "failed"} => row'[c] = row[c]]_vars

\* service.py:358-359: an aborted startup leaves the data session FAILED, never
\* ACTIVE and never COMPLETED.
AbortedStartIsNotCompleted ==
  call = "abort" /\ cleanup = "done" => row[current] # "completed"

\* project_recorder.py:50-51: the runtime's terminal state never contradicts the
\* database's.  A recording that is over and reported IDLE was completed.
IdleMeansCompleted ==
  capture = "idle" /\ call = "none" /\ current # 0 /\ last = current
    => row[current] = "completed"

\* service.py:640-642: a stop that returned without a verdict left exactly one
\* owned task that will settle it.
FinalizingIsOwned ==
  capture = "finalizing" /\ call = "none" /\ ~pipeline /\ ~closing => settling

\* project_recorder.py:155-157: a finalization is pending until the abandoned
\* worker really exits.
PendingEnds == \A c \in Captures : WorkerPending(c) ~> ~WorkerPending(c)
=============================================================================
