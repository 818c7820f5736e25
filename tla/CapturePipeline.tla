---------------------------- MODULE CapturePipeline ----------------------------
(***************************************************************************)
(* A capture recorded into a file: capture/pipeline.py and subscriber.py   *)
(* (ingress and fan-out), the two consumers, failures and stop of          *)
(* runtime/service.py, and recorder/msgpack_recorder.py.                   *)
(*                                                                         *)
(* The event loop runs what lies between two awaits as one action.  It is  *)
(* shared by the capture loop, the deliveries of the present frame, the    *)
(* archive and the stream consumer, the cleanup task and whoever holds the *)
(* lifecycle lock.  A write to the file runs in a thread, which no         *)
(* cancellation stops.                                                     *)
(*                                                                         *)
(* A frame is the sequence number the normalizer gives it.  Timeouts may   *)
(* come at any time their await lasts.  The broker behind the stream       *)
(* consumer and the project recorder (RecorderFinalization) are left out.  *)
(***************************************************************************)
EXTENDS Integers, Sequences, FiniteSets

CONSTANTS
  MaxCaptures,      \* bound on the number of captures
  MaxFrames,        \* bound on the frames of each capture
  ArchiveCapacity,  \* capacity of the archive subscriber, lossless
  StreamCapacity,   \* capacity of the stream subscriber, lossy
  BatchSize         \* _batch_size

ASSUME PipelineAssumption ==
  /\ MaxCaptures \in Nat
  /\ MaxFrames \in [1..MaxCaptures -> Nat]
  /\ ArchiveCapacity \in Nat \ {0}
  /\ StreamCapacity \in Nat \ {0}
  /\ BatchSize \in Nat \ {0}

Captures == 1..MaxCaptures

VARIABLES
  \* RuntimeService.
  capture,      \* the present capture, or the latest
  session,      \* _pipeline is not None
  recording,    \* it has a file to record into
  failure,      \* _failure is not None
  stop,         \* where the holder of the lifecycle lock is in stop_capture
  stopEvent,    \* _stop_event
  cleanup,      \* _recorder_cleanup_task
  uncommitted,  \* what this capture added to recorder_uncommitted_frames
  \* CapturePipeline.
  loop,         \* _capture_loop
  next,         \* the normalizer's _next_sequence
  captured,     \* _captured_frames
  stopping,     \* _stop_requested
  attached,     \* the archive is one of _subscribers; the stream always is
  toArchive,    \* the delivery of the present frame to the archive
  toStream,     \* and to the stream
  \* FrameSubscriber.
  archiveQueue,
  enabled,      \* the archive's queue is not shut down
  depth,        \* queue_depth in the archive's SubscriberFailure
  streamQueue,
  dropped,      \* the stream's dropped_frames
  \* The consumers.
  archive,      \* _archive_task
  pending,      \* its pending frames; Len(pending) is _archive_pending_frames
  stream,       \* _stream_task
  batch,        \* its pending frames
  last,         \* its last_sequence, -1 for None
  gaps,         \* what it added to sequence_gaps
  \* MsgpackRecorder.
  recState,     \* state
  file,         \* the capture whose file _file is, 0 for None
  write,        \* _write_task
  thread,       \* the frames a thread is writing to the file of a capture
  content,      \* the frames in the file of a capture
  recorded,     \* recorded_frames
  \* History.
  offered,      \* next when the failure was declared
  seen          \* the frames the stream consumer got

serviceVars == <<capture, session, recording, stop, stopEvent, cleanup>>
failureVars == <<failure, uncommitted, offered, attached, enabled, archiveQueue,
                 archive, recState>>
ingressVars == <<loop, next, captured, stopping>>
deliveryVars == <<toArchive, toStream, depth>>
streamVars == <<streamQueue, dropped, stream, batch, last, seen, gaps>>
fileVars == <<file, write, thread, content, recorded>>
vars == <<serviceVars, failureVars, ingressVars, deliveryVars, streamVars,
          fileVars, pending>>

Delivery == {"none", "pending", "blocked", "delivered", "disabled", "failed"}

\* The type of the state.
TypeOK ==
  /\ capture \in 0..MaxCaptures
  /\ session \in BOOLEAN
  /\ recording \in BOOLEAN
  /\ failure \in BOOLEAN
  /\ stop \in {"none", "ingress", "drain", "clean"}
  /\ stopEvent \in BOOLEAN
  /\ cleanup \in {"none", "join", "write", "flush", "done", "cancelled"}
  /\ uncommitted \in Nat
  /\ loop \in {"none", "receive", "fanout", "ended"}
  /\ next \in Nat
  /\ captured \in Nat
  /\ stopping \in BOOLEAN
  /\ attached \in BOOLEAN
  /\ toArchive \in Delivery
  /\ toStream \in {"none", "pending", "delivered"}
  /\ archiveQueue \in Seq(Nat)
  /\ enabled \in BOOLEAN
  /\ depth \in Nat
  /\ streamQueue \in Seq(Nat)
  /\ dropped \in Nat
  /\ archive \in {"none", "get", "append", "ended"}
  /\ pending \in Seq(Nat)
  /\ stream \in {"none", "get", "ended"}
  /\ batch \in Seq(Nat)
  /\ last \in Nat \cup {-1}
  /\ gaps \in Nat
  /\ recState \in {"idle", "recording", "stopped", "failed"}
  /\ file \in 0..MaxCaptures
  /\ write \in {"none", "running", "done", "failed", "cancelled"}
  /\ thread \in [Captures -> Seq(Nat)]
  /\ content \in [Captures -> Seq(Nat)]
  /\ recorded \in Nat
  /\ offered \in Nat
  /\ seen \in SUBSET Nat

Init ==
  /\ capture = 0
  /\ session = FALSE
  /\ recording = FALSE
  /\ failure = FALSE
  /\ stop = "none"
  /\ stopEvent = FALSE
  /\ cleanup = "none"
  /\ uncommitted = 0
  /\ loop = "none"
  /\ next = 0
  /\ captured = 0
  /\ stopping = FALSE
  /\ attached = FALSE
  /\ toArchive = "none"
  /\ toStream = "none"
  /\ archiveQueue = <<>>
  /\ enabled = FALSE
  /\ depth = 0
  /\ streamQueue = <<>>
  /\ dropped = 0
  /\ archive = "none"
  /\ pending = <<>>
  /\ stream = "none"
  /\ batch = <<>>
  /\ last = -1
  /\ gaps = 0
  /\ recState = "idle"
  /\ file = 0
  /\ write = "none"
  /\ thread = [c \in Captures |-> <<>>]
  /\ content = [c \in Captures |-> <<>>]
  /\ recorded = 0
  /\ offered = 0
  /\ seen = {}

--------------------------------------------------------------------------------
(* start_capture. *)

\* With a recording target the recorder opens a new file; without, reset_session
\* forgets the last one, but neither its file nor its write task.
StartCapture(target) ==
  /\ ~session
  /\ stop = "none"
  /\ capture < MaxCaptures
  /\ recState # "recording"
  /\ capture' = capture + 1
  /\ session' = TRUE
  /\ recording' = target
  /\ stopEvent' = FALSE
  /\ failure' = FALSE /\ uncommitted' = 0 /\ offered' = 0
  /\ attached' = TRUE /\ enabled' = TRUE /\ archiveQueue' = <<>>
  /\ archive' = "get" /\ pending' = <<>>
  /\ recState' = IF target THEN "recording" ELSE "idle"
  /\ file' = IF target THEN capture' ELSE file
  /\ recorded' = 0
  /\ loop' = "receive" /\ next' = 0 /\ captured' = 0 /\ stopping' = FALSE
  /\ toArchive' = "none" /\ toStream' = "none" /\ depth' = 0
  /\ streamQueue' = <<>> /\ dropped' = 0
  /\ stream' = "get" /\ batch' = <<>> /\ last' = -1 /\ seen' = {} /\ gaps' = 0
  /\ UNCHANGED <<stop, cleanup, write, thread, content>>

\* The file cannot be opened.  The cleanup has nothing to join, and stops a
\* recorder that has no file, or an old one.
StartFails ==
  /\ ~session
  /\ stop = "none"
  /\ capture < MaxCaptures
  /\ recState # "recording"
  /\ capture' = capture + 1
  /\ recording' = FALSE
  /\ failure' = TRUE
  /\ recState' = "failed"
  /\ next' = 0 /\ captured' = 0 /\ offered' = 0 /\ uncommitted' = 0
  /\ depth' = 0 /\ streamQueue' = <<>> /\ dropped' = 0
  /\ batch' = <<>> /\ last' = -1 /\ seen' = {} /\ gaps' = 0
  /\ cleanup' = IF file # 0 /\ write = "cancelled" THEN "cancelled" ELSE cleanup
  /\ UNCHANGED <<session, stop, stopEvent, attached, enabled, archiveQueue,
                 archive, loop, stopping, toArchive, toStream, stream, fileVars,
                 pending>>

--------------------------------------------------------------------------------
(* The failure of the recording. *)

EnsureCleanup == IF cleanup = "none" THEN "join" ELSE cleanup

\* Fault: the archive stays attached.
FailsAttached(queued, rejected) ==
  IF failure THEN UNCHANGED failureVars
  ELSE /\ failure' = TRUE
       /\ uncommitted' = queued + Len(pending) + rejected
       /\ offered' = next
       /\ attached' = attached
       /\ enabled' = FALSE
       /\ archiveQueue' = <<>>
       /\ archive' = IF archive = "none" THEN "none" ELSE "ended"
       /\ recState' = "failed"

\* Fault: the consumer is not cancelled.
FailsConsuming(queued, rejected) ==
  IF failure THEN UNCHANGED failureVars
  ELSE /\ failure' = TRUE
       /\ uncommitted' = queued + Len(pending) + rejected
       /\ offered' = next
       /\ attached' = FALSE
       /\ enabled' = FALSE
       /\ archiveQueue' = <<>>
       /\ archive' = archive
       /\ recState' = "failed"

\* Fault: frames the consumer holds are not counted.
FailsForgetting(queued, rejected) ==
  IF failure THEN UNCHANGED failureVars
  ELSE /\ failure' = TRUE
       /\ uncommitted' = queued + rejected
       /\ offered' = next
       /\ attached' = FALSE
       /\ enabled' = FALSE
       /\ archiveQueue' = <<>>
       /\ archive' = IF archive = "none" THEN "none" ELSE "ended"
       /\ recState' = "failed"

\* _handle_recorder_failure: the first failure only.  The archive is detached
\* and disabled, its consumer cancelled.  (The cleanup task is the caller's.)
Fails(queued, rejected) ==
  IF failure THEN UNCHANGED failureVars
  ELSE /\ failure' = TRUE
       /\ uncommitted' = queued + Len(pending) + rejected
       /\ offered' = next
       /\ attached' = FALSE
       /\ enabled' = FALSE
       /\ archiveQueue' = <<>>
       /\ archive' = IF archive = "none" THEN "none" ELSE "ended"
       /\ recState' = "failed"

\* An append whose caller is cancelled leaves its write task to stop, unless it
\* has just ended.
WriteAfterCancel ==
  IF archive = "append" /\ write \in {"done", "failed"} THEN "none" ELSE write

--------------------------------------------------------------------------------
(* CapturePipeline. *)

\* A frame arrives, possibly together with the request to stop.
Receive ==
  /\ loop = "receive"
  /\ next < MaxFrames[capture]
  /\ loop' = "fanout"
  /\ next' = next + 1
  /\ toArchive' = IF attached THEN "pending" ELSE "none"
  /\ toStream' = "pending"
  /\ UNCHANGED <<serviceVars, failureVars, captured, stopping, depth,
                 streamVars, fileVars, pending>>

ReceiveStops ==
  /\ loop = "receive"
  /\ stopping
  /\ loop' = "ended"
  /\ UNCHANGED <<serviceVars, failureVars, next, captured, stopping,
                 deliveryVars, streamVars, fileVars, pending>>

Frame == next - 1

\* FrameSubscriber.publish, lossy: the oldest frame makes room.
PublishStream ==
  /\ toStream = "pending"
  /\ toStream' = "delivered"
  /\ IF Len(streamQueue) = StreamCapacity
       THEN /\ streamQueue' = Append(Tail(streamQueue), Frame)
            /\ dropped' = dropped + 1
       ELSE /\ streamQueue' = Append(streamQueue, Frame)
            /\ UNCHANGED dropped
  /\ UNCHANGED <<serviceVars, failureVars, ingressVars, toArchive, depth,
                 stream, batch, last, seen, gaps, fileVars, pending>>

\* Lossless: at the first attempt, or when the consumer has made room.
PublishArchive ==
  /\ toArchive \in {"pending", "blocked"}
  /\ enabled
  /\ Len(archiveQueue) < ArchiveCapacity
  /\ toArchive' = "delivered"
  /\ archiveQueue' = Append(archiveQueue, Frame)
  /\ UNCHANGED <<serviceVars, failure, uncommitted, offered, attached, enabled,
                 archive, recState, ingressVars, toStream, depth, streamVars,
                 fileVars, pending>>

PublishBlocks ==
  /\ toArchive = "pending"
  /\ enabled
  /\ Len(archiveQueue) = ArchiveCapacity
  /\ toArchive' = "blocked"
  /\ UNCHANGED <<serviceVars, failureVars, ingressVars, toStream, depth,
                 streamVars, fileVars, pending>>

PublishDisabled ==
  /\ toArchive \in {"pending", "blocked"}
  /\ ~enabled
  /\ toArchive' = "disabled"
  /\ UNCHANGED <<serviceVars, failureVars, ingressVars, toStream, depth,
                 streamVars, fileVars, pending>>

\* Fault: a lossless subscriber gives up on a frame, and goes on.
PublishGivesUp ==
  /\ toArchive = "blocked"
  /\ enabled
  /\ toArchive' = "delivered"
  /\ UNCHANGED <<serviceVars, failureVars, ingressVars, toStream, depth,
                 streamVars, fileVars, pending>>

\* Fault: no deadline.
PublishWaits == FALSE /\ UNCHANGED vars

\* The deadline of the publication: the queue is shut down with all it holds.
PublishTimesOut ==
  /\ toArchive = "blocked"
  /\ enabled
  /\ toArchive' = "failed"
  /\ depth' = Len(archiveQueue)
  /\ enabled' = FALSE
  /\ archiveQueue' = <<>>
  /\ UNCHANGED <<serviceVars, failure, uncommitted, offered, attached, archive,
                 recState, ingressVars, toStream, streamVars, fileVars, pending>>

\* The fan-out of a frame is over when each delivery is, or when a stop cancels
\* those that still wait.  A subscriber that failed is detached and reported.
FanoutEnds ==
  /\ loop = "fanout"
  /\ toStream = "delivered"
  /\ toArchive # "pending"
  /\ toArchive = "blocked" => stopping
  /\ loop' = IF stopping THEN "ended" ELSE "receive"
  /\ captured' = IF toArchive = "blocked" THEN captured ELSE captured + 1
  /\ toArchive' = "none" /\ toStream' = "none"
  /\ IF toArchive = "failed"
       THEN /\ Fails(depth, 1)
            /\ cleanup' = EnsureCleanup
            /\ write' = WriteAfterCancel
       ELSE UNCHANGED <<failureVars, cleanup, write>>
  /\ UNCHANGED <<capture, session, recording, stop, stopEvent, next, stopping,
                 depth, streamVars, file, thread, content, recorded, pending>>

--------------------------------------------------------------------------------
(* The archive consumer and MsgpackRecorder.append. *)

\* _publish_archive: a batch for the file, or for nobody.
Archives(frames) ==
  IF recState = "recording"
    THEN /\ archive' = "append"
         /\ pending' = frames
         /\ write' = "running"
         /\ thread' = [thread EXCEPT ![file] = frames]
    ELSE /\ pending' = <<>>
         /\ UNCHANGED <<archive, write, thread>>

ArchiveGets ==
  /\ archive = "get"
  /\ enabled
  /\ archiveQueue # <<>>
  /\ archiveQueue' = Tail(archiveQueue)
  /\ LET frames == Append(pending, Head(archiveQueue)) IN
       IF Len(frames) >= BatchSize
         THEN Archives(frames)
         ELSE /\ pending' = frames
              /\ UNCHANGED <<archive, write, thread>>
  /\ UNCHANGED <<serviceVars, failure, uncommitted, offered, attached, enabled,
                 recState, ingressVars, deliveryVars, streamVars, file,
                 content, recorded>>

\* Nothing came for a while, or nothing will: what there is, is published.
ArchiveIdles ==
  /\ archive = "get"
  /\ enabled
  /\ archiveQueue = <<>>
  /\ pending # <<>>
  /\ Archives(pending)
  /\ UNCHANGED <<serviceVars, failure, uncommitted, offered, attached, enabled,
                 archiveQueue, recState, ingressVars, deliveryVars, streamVars,
                 file, content, recorded>>

\* The loop is over, or the queue was shut down.
ArchiveEnds ==
  /\ archive = "get"
  /\ ~enabled \/ (stopEvent /\ archiveQueue = <<>> /\ pending = <<>>)
  /\ archive' = "ended"
  /\ UNCHANGED <<serviceVars, failure, uncommitted, offered, attached, enabled,
                 archiveQueue, recState, ingressVars, deliveryVars, streamVars,
                 fileVars, pending>>

\* The thread of _write_chunk ends, and its task if it still exists.
ThreadEnds(c, ok) ==
  /\ thread[c] # <<>>
  /\ thread' = [thread EXCEPT ![c] = <<>>]
  /\ content' = IF ok THEN [content EXCEPT ![c] = @ \o thread[c]] ELSE content
  /\ IF file = c /\ write = "running"
       THEN /\ write' = IF ok THEN "done" ELSE "failed"
            /\ recState' = IF ok THEN recState ELSE "failed"
       ELSE UNCHANGED <<write, recState>>
  /\ UNCHANGED <<serviceVars, failure, uncommitted, offered, attached, enabled,
                 archiveQueue, archive, ingressVars, deliveryVars, streamVars,
                 file, recorded, pending>>

AppendReturns ==
  /\ archive = "append"
  /\ write = "done"
  /\ write' = "none"
  /\ recorded' = recorded + Len(pending)
  /\ pending' = <<>>
  /\ archive' = "get"
  /\ UNCHANGED <<serviceVars, failure, uncommitted, offered, attached, enabled,
                 archiveQueue, recState, ingressVars, deliveryVars, streamVars,
                 file, thread, content>>

\* The consumer reports the error and ends.
AppendRaises ==
  /\ archive = "append"
  /\ write = "failed"
  /\ write' = "none"
  /\ Fails(Len(archiveQueue), 0)
  /\ cleanup' = EnsureCleanup
  /\ UNCHANGED <<capture, session, recording, stop, stopEvent, ingressVars,
                 deliveryVars, streamVars, file, thread, content, recorded,
                 pending>>

--------------------------------------------------------------------------------
(* The stream consumer. *)

\* Fault: one gap, however wide.
GapOne(frame) == IF last = -1 \/ frame = last + 1 THEN 0 ELSE 1

\* Fault: off by one, without a lower bound.
GapShort(frame) == IF last = -1 THEN 0 ELSE frame - last - 2

\* The frames missing before this one.
Gap(frame) == IF last = -1 THEN 0 ELSE frame - last - 1

\* A batch holds no gap: the frames before one are published first.
StreamGets ==
  /\ stream = "get"
  /\ streamQueue # <<>>
  /\ streamQueue' = Tail(streamQueue)
  /\ LET frame == Head(streamQueue)
         frames == IF Gap(frame) = 0 THEN Append(batch, frame) ELSE <<frame>> IN
       /\ gaps' = gaps + Gap(frame)
       /\ last' = frame
       /\ seen' = seen \cup {frame}
       /\ batch' = IF Len(frames) >= BatchSize THEN <<>> ELSE frames
  /\ UNCHANGED <<serviceVars, failureVars, ingressVars, deliveryVars, dropped,
                 stream, fileVars, pending>>

StreamIdles ==
  /\ stream = "get"
  /\ streamQueue = <<>>
  /\ batch # <<>>
  /\ batch' = <<>>
  /\ UNCHANGED <<serviceVars, failureVars, ingressVars, deliveryVars,
                 streamQueue, dropped, stream, last, seen, gaps, fileVars,
                 pending>>

StreamEnds ==
  /\ stream = "get"
  /\ stopEvent
  /\ streamQueue = <<>>
  /\ batch = <<>>
  /\ stream' = "ended"
  /\ UNCHANGED <<serviceVars, failureVars, ingressVars, deliveryVars,
                 streamQueue, dropped, batch, last, seen, gaps, fileVars,
                 pending>>

--------------------------------------------------------------------------------
(* _cleanup_recorder and MsgpackRecorder.stop. *)

\* The consumer is joined; what stop does depends on the file and on the write
\* task it finds.  A cancelled one raises CancelledError, which nobody catches.
CleanupJoins ==
  /\ cleanup = "join"
  /\ archive \in {"none", "ended"}
  /\ pending' = <<>>
  /\ cleanup' = CASE file = 0 -> "done"
                  [] file # 0 /\ write = "running" -> "write"
                  [] file # 0 /\ write = "cancelled" -> "cancelled"
                  [] OTHER -> "flush"
  /\ write' = IF file # 0 /\ write \in {"done", "failed"} THEN "none" ELSE write
  /\ UNCHANGED <<capture, session, recording, stop, stopEvent, failureVars,
                 ingressVars, deliveryVars, streamVars, file, thread, content,
                 recorded>>

CleanupWritten ==
  /\ cleanup = "write"
  /\ write \in {"done", "failed"}
  /\ write' = "none"
  /\ cleanup' = "flush"
  /\ UNCHANGED <<capture, session, recording, stop, stopEvent, failureVars,
                 ingressVars, deliveryVars, streamVars, file, thread, content,
                 recorded, pending>>

CleanupFlushes ==
  /\ cleanup = "flush"
  /\ cleanup' = "done"
  /\ file' = 0
  /\ recState' = IF recState = "failed" THEN "failed" ELSE "stopped"
  /\ UNCHANGED <<capture, session, recording, stop, stopEvent, failure,
                 uncommitted, offered, attached, enabled, archiveQueue, archive,
                 ingressVars, deliveryVars, streamVars, write, thread, content,
                 recorded, pending>>

\* The flush or the close fails, or the flush misses the deadline and the close
\* is waited for all the same.
CleanupFlushFails ==
  /\ cleanup = "flush"
  /\ cleanup' = "done"
  /\ file' = 0
  /\ Fails(Len(archiveQueue), 0)
  /\ UNCHANGED <<capture, session, recording, stop, stopEvent, ingressVars,
                 deliveryVars, streamVars, write, thread, content, recorded,
                 pending>>

\* The deadline cancels stop while it waits for the write task, and with it the
\* task.  The thread goes on, and the file stays open.
CleanupTimesOut ==
  /\ cleanup = "write"
  /\ cleanup' = "done"
  /\ write' = "cancelled"
  /\ Fails(Len(archiveQueue), 0)
  /\ UNCHANGED <<capture, session, recording, stop, stopEvent, ingressVars,
                 deliveryVars, streamVars, file, thread, content, recorded,
                 pending>>

--------------------------------------------------------------------------------
(* stop_capture. *)

StopBegins ==
  /\ session
  /\ stop = "none"
  /\ stop' = "ingress"
  /\ stopping' = TRUE
  /\ UNCHANGED <<capture, session, recording, stopEvent, cleanup, failureVars,
                 loop, next, captured, deliveryVars, streamVars, fileVars,
                 pending>>

StopDrains ==
  /\ stop = "ingress"
  /\ loop = "ended"
  /\ stop' = "drain"
  /\ stopEvent' = TRUE
  /\ UNCHANGED <<capture, session, recording, cleanup, failureVars, ingressVars,
                 deliveryVars, streamVars, fileVars, pending>>

\* Fault: the consumers are not waited for.
StopHurries ==
  /\ stop = "drain"
  /\ stop' = "clean"
  /\ cleanup' = EnsureCleanup
  /\ archive' = "ended"
  /\ stream' = "ended"
  /\ UNCHANGED <<capture, session, recording, stopEvent, failure, uncommitted,
                 offered, attached, enabled, archiveQueue, recState, ingressVars,
                 deliveryVars, streamQueue, dropped, batch, last, seen, gaps,
                 fileVars, pending>>

StopDrained ==
  /\ stop = "drain"
  /\ archive \in {"none", "ended"}
  /\ stream \in {"none", "ended"}
  /\ stop' = "clean"
  /\ cleanup' = EnsureCleanup
  /\ UNCHANGED <<capture, session, recording, stopEvent, failureVars,
                 ingressVars, deliveryVars, streamVars, fileVars, pending>>

\* Fault: the drain has no deadline.
StopDrainWaits == FALSE /\ UNCHANGED vars

\* The deadline cancels both consumers.
StopDrainTimesOut ==
  /\ stop = "drain"
  /\ archive \in {"get", "append"} \/ stream = "get"
  /\ stop' = "clean"
  /\ cleanup' = EnsureCleanup
  /\ stream' = "ended"
  /\ Fails(Len(archiveQueue), 0)
  /\ write' = WriteAfterCancel
  /\ UNCHANGED <<capture, session, recording, stopEvent, ingressVars,
                 deliveryVars, streamQueue, dropped, batch, last, seen, gaps,
                 file, thread, content, recorded, pending>>

StopEnds ==
  /\ stop = "clean"
  /\ cleanup = "done"
  /\ stop' = "none"
  /\ session' = FALSE
  /\ cleanup' = "none"
  /\ archive' = "none"
  /\ stream' = "none"
  /\ pending' = <<>>
  /\ UNCHANGED <<capture, recording, stopEvent, failure, uncommitted, offered,
                 attached, enabled, archiveQueue, recState, ingressVars,
                 deliveryVars, streamQueue, dropped, batch, last, seen, gaps,
                 fileVars>>

\* Waiting for a cancelled cleanup task raises CancelledError out of
\* stop_capture; neither the session nor the task is given up.
StopRaises ==
  /\ stop = "clean"
  /\ cleanup = "cancelled"
  /\ stop' = "none"
  /\ UNCHANGED <<capture, session, recording, stopEvent, cleanup, failureVars,
                 ingressVars, deliveryVars, streamVars, fileVars, pending>>

--------------------------------------------------------------------------------
Deliver == PublishStream \/ PublishArchive \/ PublishBlocks \/ PublishDisabled

Consume == ArchiveGets \/ ArchiveIdles \/ ArchiveEnds \/ AppendReturns
             \/ AppendRaises \/ StreamGets \/ StreamIdles \/ StreamEnds

Cleanup == CleanupJoins \/ CleanupWritten \/ CleanupFlushes
             \/ CleanupFlushFails \/ CleanupTimesOut

Stop == StopDrains \/ StopDrained \/ StopDrainTimesOut \/ StopEnds \/ StopRaises

Next ==
  \/ \E target \in BOOLEAN : StartCapture(target)
  \/ StartFails
  \/ Receive \/ ReceiveStops \/ Deliver \/ PublishTimesOut \/ FanoutEnds
  \/ Consume
  \/ \E c \in Captures, ok \in BOOLEAN : ThreadEnds(c, ok)
  \/ Cleanup
  \/ StopBegins \/ Stop

Spec == Init /\ [][Next]_vars

\* The event loop serves every task that can run, and every deadline comes.
\* No thread has to end: but one that flushes and closes a file is waited for.
Fairness ==
  /\ WF_vars(ReceiveStops)
  /\ WF_vars(Deliver)
  /\ WF_vars(PublishTimesOut)
  /\ WF_vars(FanoutEnds)
  /\ WF_vars(ArchiveGets \/ ArchiveIdles \/ ArchiveEnds \/ AppendReturns
               \/ AppendRaises)
  /\ WF_vars(StreamGets \/ StreamIdles \/ StreamEnds)
  /\ WF_vars(Cleanup)
  /\ WF_vars(Stop)

FairSpec == Spec /\ Fairness

--------------------------------------------------------------------------------
(* Properties. *)

\* A file, with what a thread is writing to it, holds the frames of its capture
\* from the first on, in order and without a gap: a lossless subscriber gets
\* every frame or fails, and a failed recording ends.
FileIsPrefix ==
  \A c \in Captures :
    LET frames == content[c] \o thread[c] IN
    \A i \in 1..Len(frames) : frames[i] = i - 1

\* A capture that was stopped and has not failed has recorded every frame it
\* counted as captured.
CleanStopIsWhole ==
  capture # 0 /\ ~session /\ ~failure /\ recording =>
    /\ Len(content[capture]) = captured
    /\ recorded = captured

\* A recording is never other than a prefix of its capture, and the whole of one
\* that was stopped without a failure.
RecordingIsWhole == FileIsPrefix /\ CleanStopIsWhole

\* Every frame the stream consumer missed between two frames it got is counted
\* as a gap, and each of them was dropped by its queue.
GapsAreCounted ==
  seen # {} =>
    /\ gaps = Cardinality({f \in 0..next : f \notin seen
                             /\ \E a, b \in seen : a < f /\ f < b})
    /\ gaps <= dropped

\* What a failure counts as uncommitted makes up, with what is recorded, all the
\* frames offered until then: but the one whose delivery is still under way, or
\* all that a publication has just discarded whose report comes too late.
UncommittedAccounts ==
  failure /\ recording => offered - (recorded + uncommitted) \in {0, 1, depth + 1}

\* Whatever was lost on the way to the screen or to the file has been counted.
LossIsCounted == GapsAreCounted /\ UncommittedAccounts

\* A disabled subscriber that is still attached would raise in the capture loop,
\* which would end it with nobody to notice.
CaptureLoopSurvives == toArchive = "disabled" => ~attached

\* Once the recording has failed no write begins, and no frame is counted as
\* recorded: a write under way at that time may still end.
NothingRecordedAfterFailure ==
  [][failure /\ failure' /\ capture' = capture =>
       /\ recorded' = recorded
       /\ \A c \in Captures : thread[c] = <<>> => thread'[c] = <<>>]_vars

\* A stalled recorder does not stall the capture.
IngressNeverStalls == loop = "fanout" ~> loop # "fanout"

\* Stopping a capture takes no longer than its deadlines, whatever hangs.
StopReturns == stop # "none" ~> stop = "none"

\* Stopping a capture releases it.
StopReleases == stop # "none" ~> ~session
================================================================================
