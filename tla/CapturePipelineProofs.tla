------------------------ MODULE CapturePipelineProofs ------------------------
(***************************************************************************)
(* Theorems about CapturePipeline, for every value of its constants.       *)
(*                                                                         *)
(* What the properties rest on: as long as the recording has not failed,   *)
(* the frames recorded, those the consumer holds and those in the queue    *)
(* are, in this order, the frames from the first on (Chain), none is       *)
(* missing (Total), and what is in the file or on the way to it are those  *)
(* recorded and those of the present append (Disk).  The other conjuncts   *)
(* say who may be doing what at which time.                                *)
(***************************************************************************)
EXTENDS CapturePipeline, SequenceTheorems, FiniteSetTheorems, TLAPS

\* The frames from this one on.
Run(frames, first) == \A i \in 1..Len(frames) : frames[i] = first + i - 1

\* Nothing is in the file of a capture that has not begun.
Fresh == \A c \in Captures : c > capture => content[c] = <<>> /\ thread[c] = <<>>

Runs == \A c \in Captures : Run(content[c], 0) /\ Run(thread[c], Len(content[c]))

\* Which tasks exist when.
Tasks ==
  /\ loop # "fanout" => toArchive = "none" /\ toStream = "none"
  /\ loop = "fanout" => next > 0
  /\ session => archive # "none" /\ capture > 0
  /\ ~session => /\ loop \in {"none", "ended"}
                 /\ archive = "none"
                 /\ stop = "none"
                 /\ cleanup \in {"none", "cancelled"}
  /\ stopEvent /\ session => loop = "ended"
  /\ stop \in {"drain", "clean"} => loop = "ended"
  /\ cleanup \in {"write", "flush", "done"} => archive = "ended"

\* When the archive is attached, and its queue not shut down.
Attachment ==
  /\ ~enabled => archiveQueue = <<>>
  /\ failure => recState = "failed" /\ archive \in {"none", "ended"}
  /\ session /\ failure => ~attached /\ ~enabled
  /\ session /\ ~attached => failure
  /\ session /\ ~enabled /\ ~failure => toArchive = "failed"
  /\ toArchive = "failed" => ~enabled
  /\ toArchive = "disabled" => ~attached
  /\ loop = "fanout" /\ toArchive = "none" => ~attached

\* When the consumer ends without a failure.
Ended ==
  /\ archive = "ended" /\ ~failure =>
       toArchive = "failed" \/ (loop = "ended" /\ archiveQueue = <<>> /\ pending = <<>>)
  /\ cleanup \in {"join", "write", "flush", "done"} /\ ~failure =>
       /\ archive = "ended"
       /\ loop = "ended"
  /\ stop = "clean" /\ ~failure => archive = "ended"
  /\ ~session /\ ~failure => archiveQueue = <<>> /\ pending = <<>>

Alive == recording /\ ~failure

\* The recorder of a recording that has not failed.
Recorder ==
  /\ recState = "recording" => Alive
  /\ Alive => capture \in Captures /\ loop # "none"
  /\ Alive /\ archive = "get" => recState = "recording"
  /\ Alive /\ archive \in {"get", "append"} => file = capture
  /\ archive = "append" =>
       /\ Alive
       /\ pending # <<>>
       /\ \/ write \in {"running", "done"} /\ recState = "recording"
          \/ write = "failed"

Disk ==
  Alive =>
    /\ archive # "append" => thread[capture] = <<>> /\ Len(content[capture]) = recorded
    /\ archive = "append" /\ write = "running" =>
         thread[capture] = pending /\ Len(content[capture]) = recorded
    /\ archive = "append" /\ write = "done" =>
         thread[capture] = <<>> /\ Len(content[capture]) = recorded + Len(pending)
    /\ archive = "append" /\ write = "failed" => thread[capture] = <<>>

Chain ==
  Alive =>
    /\ Run(pending, recorded)
    /\ Run(archiveQueue, recorded + Len(pending))

Held == recorded + Len(pending) + Len(archiveQueue)

Total ==
  Alive =>
    /\ toArchive = "failed" => next = Held + depth + 1
    /\ toArchive \in {"pending", "blocked"} => next = Held + 1
    /\ toArchive = "delivered" \/ loop = "receive" => next = Held
    /\ loop = "receive" => captured = Held
    /\ loop = "fanout" => captured = next - 1
    /\ loop = "ended" => captured = Held /\ next - Held \in {0, 1}

\* The frames handed to the stream subscriber.
Published == IF toStream = "pending" THEN next - 1 ELSE next

\* The lossy queue holds the latest of them, behind all the consumer has seen.
Stream ==
  /\ Len(streamQueue) <= Published
  /\ Run(streamQueue, Published - Len(streamQueue))
  /\ last < Published - Len(streamQueue)

\* How many were seen, dropped and missed.
Missing == {f \in 0..last : f \notin seen /\ \E a, b \in seen : a < f /\ f < b}

Counted ==
  /\ IsFiniteSet(seen)
  /\ last = -1 => seen = {} /\ gaps = 0
  /\ last # -1 => last \in seen /\ gaps = Cardinality(Missing)
  /\ \A f \in seen : f <= last
  /\ Cardinality(seen) + gaps <= last + 1
  /\ dropped + Cardinality(seen) + Len(streamQueue) = Published

IInv ==
  /\ TypeOK
  /\ Fresh
  /\ Runs
  /\ Tasks
  /\ Attachment
  /\ Ended
  /\ Recorder
  /\ Disk
  /\ Chain
  /\ Total
  /\ UncommittedAccounts
  /\ Stream
  /\ Counted

--------------------------------------------------------------------------------
(* Runs of frames. *)

\* A run without its head starts one later.
LEMMA RunTail ==
  ASSUME NEW frames \in Seq(Nat), frames # <<>>, NEW first \in Nat, Run(frames, first)
  PROVE  /\ Head(frames) = first
         /\ Tail(frames) \in Seq(Nat)
         /\ Len(Tail(frames)) = Len(frames) - 1
         /\ Run(Tail(frames), first + 1)
<1>1. /\ Len(frames) \in Nat /\ Len(frames) > 0
      /\ Head(frames) = frames[1]
      /\ Tail(frames) \in Seq(Nat)
      /\ Len(Tail(frames)) = Len(frames) - 1
      /\ \A i \in 1..Len(Tail(frames)) : Tail(frames)[i] = frames[i + 1]
  BY HeadTailProperties, EmptySeq, LenProperties
<1>2. Head(frames) = first
  BY <1>1 DEF Run
<1>3. ASSUME NEW i \in 1..Len(Tail(frames))
      PROVE  Tail(frames)[i] = (first + 1) + i - 1
  <2>1. i + 1 \in 1..Len(frames)
    BY <1>1
  <2>2. frames[i + 1] = first + (i + 1) - 1
    BY <2>1 DEF Run
  <2> QED BY <1>1, <2>2
<1> QED BY <1>1, <1>2, <1>3 DEF Run

\* A run goes on with the next frame.
LEMMA RunAppend ==
  ASSUME NEW frames \in Seq(Nat), NEW first \in Nat, Run(frames, first),
         NEW frame \in Nat, frame = first + Len(frames)
  PROVE  /\ Append(frames, frame) \in Seq(Nat)
         /\ Len(Append(frames, frame)) = Len(frames) + 1
         /\ Append(frames, frame) # <<>>
         /\ Run(Append(frames, frame), first)
<1>1. /\ Append(frames, frame) \in Seq(Nat)
      /\ Len(frames) \in Nat
      /\ Len(Append(frames, frame)) = Len(frames) + 1
      /\ \A i \in 1..Len(frames) : Append(frames, frame)[i] = frames[i]
      /\ Append(frames, frame)[Len(frames) + 1] = frame
  BY AppendProperties, LenProperties
<1>2. ASSUME NEW i \in 1..Len(Append(frames, frame))
      PROVE  Append(frames, frame)[i] = first + i - 1
  <2>1. CASE i \in 1..Len(frames)
    BY <1>1, <2>1 DEF Run
  <2>2. CASE i = Len(frames) + 1
    BY <1>1, <2>2
  <2> QED BY <1>1, <2>1, <2>2
<1>3. Append(frames, frame) # <<>>
  BY <1>1, EmptySeq
<1> QED BY <1>1, <1>2, <1>3 DEF Run

\* Two runs, of which one begins where the other ends, make one.
LEMMA RunConcat ==
  ASSUME NEW left \in Seq(Nat), NEW right \in Seq(Nat), NEW first \in Nat,
         Run(left, first), Run(right, first + Len(left))
  PROVE  /\ left \o right \in Seq(Nat)
         /\ Len(left \o right) = Len(left) + Len(right)
         /\ Run(left \o right, first)
<1>1. /\ left \o right \in Seq(Nat)
      /\ Len(left) \in Nat /\ Len(right) \in Nat
      /\ Len(left \o right) = Len(left) + Len(right)
  BY ConcatProperties, LenProperties
<1>2. ASSUME NEW i \in 1..Len(left \o right)
      PROVE  (left \o right)[i] = first + i - 1
  <2>1. CASE i <= Len(left)
    <3>1. i \in 1..Len(left)
      BY <1>1, <2>1
    <3>2. (left \o right)[i] = left[i]
      BY <1>1, <2>1, ConcatProperties
    <3> QED BY <3>1, <3>2 DEF Run
  <2>2. CASE i > Len(left)
    <3>1. i - Len(left) \in 1..Len(right)
      BY <1>1, <2>2
    <3>2. (left \o right)[i] = right[i - Len(left)]
      BY <1>1, <2>2, ConcatProperties
    <3>3. right[i - Len(left)] = (first + Len(left)) + (i - Len(left)) - 1
      BY <3>1 DEF Run
    <3> QED BY <1>1, <3>2, <3>3
  <2> QED BY <1>1, <2>1, <2>2
<1> QED BY <1>1, <1>2 DEF Run

\* No frame at all is a run from anywhere.
LEMMA RunEmpty == ASSUME NEW first PROVE Run(<<>>, first) /\ <<>> \in Seq(Nat)
<1>1. Len(<<>>) = 0
  OBVIOUS
<1> QED BY <1>1 DEF Run

-------------------------------------------------------------------------------
(* Each conjunct of the invariant is preserved by every step. *)

\* _handle_recorder_failure keeps the types of what it assigns.
LEMMA FailsType ==
  ASSUME TypeOK, NEW queued \in Nat, NEW rejected \in Nat,
         Fails(queued, rejected) \/ UNCHANGED failureVars
  PROVE  /\ failure' \in BOOLEAN
         /\ uncommitted' \in Nat
         /\ offered' \in Nat
         /\ attached' \in BOOLEAN
         /\ enabled' \in BOOLEAN
         /\ archiveQueue' \in Seq(Nat)
         /\ archive' \in {"none", "get", "append", "ended"}
         /\ recState' \in {"idle", "recording", "stopped", "failed"}
<1>1. Len(pending) \in Nat
  BY LenProperties DEF TypeOK
<1>2. CASE UNCHANGED failureVars
  BY <1>2 DEF TypeOK, failureVars
<1>3. CASE ~failure /\ Fails(queued, rejected)
  <2>1. archiveQueue' \in Seq(Nat)
    BY <1>3 DEF Fails
  <2>2. uncommitted' \in Nat
    BY <1>1, <1>3 DEF Fails
  <2>3. offered' \in Nat
    BY <1>3 DEF TypeOK, Fails
  <2>4. failure' \in BOOLEAN /\ attached' \in BOOLEAN /\ enabled' \in BOOLEAN
    BY <1>3 DEF Fails
  <2>5. archive' \in {"none", "get", "append", "ended"}
    BY <1>3 DEF TypeOK, Fails
  <2>6. recState' \in {"idle", "recording", "stopped", "failed"}
    BY <1>3 DEF Fails
  <2> QED BY <2>1, <2>2, <2>3, <2>4, <2>5, <2>6
<1> QED BY <1>2, <1>3 DEF Fails

\* So does _publish_archive.
LEMMA ArchivesType ==
  ASSUME TypeOK, NEW frames \in Seq(Nat), Archives(frames), archive = "get",
         recState = "recording" => file \in Captures
  PROVE  /\ archive' \in {"none", "get", "append", "ended"}
         /\ pending' \in Seq(Nat)
         /\ write' \in {"none", "running", "done", "failed", "cancelled"}
         /\ thread' \in [Captures -> Seq(Nat)]
<1>1. CASE recState = "recording"
  BY <1>1 DEF TypeOK, Archives
<1>2. CASE recState # "recording"
  <2>1. pending' \in Seq(Nat)
    BY <1>2 DEF Archives
  <2> QED BY <1>2, <2>1 DEF TypeOK, Archives
<1> QED BY <1>1, <1>2

\* Every step keeps the type of the state.
LEMMA TypeStep == ASSUME IInv, [Next]_vars PROVE TypeOK'
<1> USE PipelineAssumption
<1>1. /\ TypeOK
      /\ toStream = "pending" => Frame \in Nat
      /\ toArchive \in {"pending", "blocked"} => Frame \in Nat
      /\ recState = "recording" /\ archive = "get" => file \in Captures
  BY DEF IInv, TypeOK, Tasks, Recorder, Frame
<1>2. /\ archiveQueue # <<>> =>
            Head(archiveQueue) \in Nat /\ Tail(archiveQueue) \in Seq(Nat)
      /\ streamQueue # <<>> =>
            Head(streamQueue) \in Nat /\ Tail(streamQueue) \in Seq(Nat)
      /\ Len(archiveQueue) \in Nat /\ Len(pending) \in Nat /\ Len(streamQueue) \in Nat
  BY <1>1, HeadTailProperties, LenProperties DEF TypeOK
<1>3. CASE UNCHANGED vars
  BY <1>1, <1>3 DEF TypeOK, vars, serviceVars, failureVars, ingressVars,
     deliveryVars, streamVars, fileVars
<1>4. ASSUME NEW target \in BOOLEAN, StartCapture(target) PROVE TypeOK'
  <2>1. archiveQueue' \in Seq(Nat) /\ pending' \in Seq(Nat)
    BY <1>4 DEF StartCapture
  <2>2. streamQueue' \in Seq(Nat) /\ batch' \in Seq(Nat)
    BY <1>4 DEF StartCapture
  <2>3. capture' \in 0..MaxCaptures /\ file' \in 0..MaxCaptures
    BY <1>1, <1>4 DEF TypeOK, StartCapture
  <2> QED BY <1>1, <1>4, <2>1, <2>2, <2>3 DEF TypeOK, Delivery, StartCapture
<1>5. ASSUME NEW c \in Captures, NEW ok \in BOOLEAN, ThreadEnds(c, ok)
      PROVE  TypeOK'
  BY <1>1, <1>5 DEF TypeOK, Delivery, ThreadEnds, serviceVars, failureVars,
     ingressVars, deliveryVars, streamVars, fileVars
<1>6. CASE StartFails
  <2>1. streamQueue' \in Seq(Nat) /\ batch' \in Seq(Nat)
    BY <1>6 DEF StartFails
  <2>2. /\ capture' \in 0..MaxCaptures
        /\ cleanup' \in {"none", "join", "write", "flush", "done", "cancelled"}
    BY <1>1, <1>6 DEF TypeOK, StartFails
  <2>3. /\ recording' \in BOOLEAN /\ failure' \in BOOLEAN
        /\ recState' = "failed" /\ next' = 0 /\ captured' = 0 /\ offered' = 0
        /\ uncommitted' = 0 /\ depth' = 0 /\ dropped' = 0 /\ last' = -1
        /\ seen' = {} /\ gaps' = 0
    BY <1>6 DEF StartFails
  <2>4. UNCHANGED <<session, stop, stopEvent, attached, enabled, archiveQueue,
                    archive, loop, stopping, toArchive, toStream, stream,
                    fileVars, pending>>
    BY <1>6 DEF StartFails
  <2> QED BY <1>1, <2>1, <2>2, <2>3, <2>4 DEF TypeOK, fileVars
<1>7. CASE Receive
  BY <1>1, <1>2, <1>7 DEF TypeOK, Delivery, Receive,
     serviceVars, failureVars, ingressVars, deliveryVars, streamVars, fileVars
<1>8. CASE ReceiveStops
  BY <1>1, <1>2, <1>8 DEF TypeOK, Delivery, ReceiveStops,
     serviceVars, failureVars, ingressVars, deliveryVars, streamVars, fileVars
<1>9. CASE PublishStream
  <2>1. Append(streamQueue, Frame) \in Seq(Nat)
    BY <1>1, <1>9 DEF TypeOK, PublishStream
  <2>2. streamQueue # <<>> => Append(Tail(streamQueue), Frame) \in Seq(Nat)
    BY <1>1, <1>2, <1>9 DEF TypeOK, PublishStream
  <2>3. Len(streamQueue) = StreamCapacity => streamQueue # <<>>
    BY <1>1, EmptySeq DEF TypeOK
  <2>4. streamQueue' \in Seq(Nat)
    BY <2>1, <2>2, <2>3, <1>9 DEF PublishStream
  <2>5. toStream' = "delivered" /\ dropped' \in Nat
    BY <1>1, <1>9 DEF TypeOK, PublishStream
  <2>6. UNCHANGED <<capture, session, recording, stop, stopEvent, cleanup,
                    failure, uncommitted, offered, attached, enabled,
                    archiveQueue, archive, recState>>
    BY <1>9 DEF PublishStream, serviceVars, failureVars
  <2>7. UNCHANGED <<loop, next, captured, stopping, toArchive, depth, stream,
                    batch, last, seen, gaps, file, write, thread, content,
                    recorded, pending>>
    BY <1>9 DEF PublishStream, ingressVars, fileVars
  <2>8. toStream' \in {"none", "pending", "delivered"}
    BY <2>5
  <2> QED BY <1>1, <2>4, <2>5, <2>6, <2>7, <2>8, SMTT(20) DEF TypeOK
<1>10. CASE PublishArchive
  <2>1. archiveQueue' \in Seq(Nat) /\ toArchive' \in Delivery
    BY <1>1, <1>2, <1>10 DEF TypeOK, Delivery, PublishArchive, Frame
  <2>2. UNCHANGED <<capture, session, recording, stop, stopEvent, cleanup,
                    failure, uncommitted, offered, attached, enabled, archive,
                    recState, loop, next, captured, stopping, toStream, depth>>
    BY <1>10 DEF PublishArchive, serviceVars, ingressVars
  <2>3. UNCHANGED <<streamQueue, dropped, stream, batch, last, seen, gaps, file,
                    write, thread, content, recorded, pending>>
    BY <1>10 DEF PublishArchive, streamVars, fileVars
  <2> QED BY <1>1, <2>1, <2>2, <2>3 DEF TypeOK
<1>11. CASE PublishBlocks
  BY <1>1, <1>2, <1>11 DEF TypeOK, Delivery, PublishBlocks,
     serviceVars, failureVars, ingressVars, deliveryVars, streamVars, fileVars
<1>12. CASE PublishDisabled
  BY <1>1, <1>2, <1>12 DEF TypeOK, Delivery, PublishDisabled,
     serviceVars, failureVars, ingressVars, deliveryVars, streamVars, fileVars
<1>13. CASE PublishTimesOut
  <2>1. archiveQueue' \in Seq(Nat)
    BY <1>13 DEF PublishTimesOut
  <2>2. toArchive' = "failed" /\ depth' \in Nat /\ enabled' \in BOOLEAN
    BY <1>2, <1>13 DEF PublishTimesOut
  <2>3. UNCHANGED <<serviceVars, failure, uncommitted, offered, attached, archive,
                    recState, ingressVars, toStream, streamVars, fileVars, pending>>
    BY <1>13 DEF PublishTimesOut
  <2> QED BY <1>1, <2>1, <2>2, <2>3 DEF TypeOK, Delivery,
            serviceVars, ingressVars, streamVars, fileVars
<1>14. CASE FanoutEnds
  <2>1. Fails(depth, 1) \/ UNCHANGED failureVars
    BY <1>14 DEF FanoutEnds
  <2>2. depth \in Nat
    BY <1>1, <1>2 DEF TypeOK
  <2>3. /\ failure' \in BOOLEAN
        /\ uncommitted' \in Nat
        /\ offered' \in Nat
        /\ attached' \in BOOLEAN
        /\ enabled' \in BOOLEAN
        /\ archiveQueue' \in Seq(Nat)
        /\ archive' \in {"none", "get", "append", "ended"}
        /\ recState' \in {"idle", "recording", "stopped", "failed"}
    BY <1>1, <2>1, <2>2, FailsType
  <2> QED BY <1>1, <1>14, <2>3 DEF TypeOK, Delivery, FanoutEnds, EnsureCleanup,
             WriteAfterCancel, serviceVars, ingressVars, deliveryVars,
             streamVars, fileVars
<1>15. CASE ArchiveGets
  <2> DEFINE frames == Append(pending, Head(archiveQueue))
  <2>1. frames \in Seq(Nat) /\ archive = "get" /\ archiveQueue' \in Seq(Nat)
    BY <1>1, <1>2, <1>15 DEF TypeOK, ArchiveGets
  <2>2. \/ Archives(frames)
        \/ pending' = frames /\ UNCHANGED <<archive, write, thread>>
    BY <1>15 DEF ArchiveGets
  <2>3. /\ archive' \in {"none", "get", "append", "ended"}
        /\ pending' \in Seq(Nat)
        /\ write' \in {"none", "running", "done", "failed", "cancelled"}
        /\ thread' \in [Captures -> Seq(Nat)]
    <3>1. CASE Archives(frames)
      <4> HIDE DEF frames
      <4> QED BY <1>1, <2>1, <3>1, ArchivesType
    <3>2. CASE pending' = frames /\ UNCHANGED <<archive, write, thread>>
      BY <1>1, <2>1, <3>2 DEF TypeOK
    <3> QED BY <2>2, <3>1, <3>2
  <2>4. UNCHANGED <<capture, session, recording, stop, stopEvent, cleanup,
                    failure, uncommitted, offered, attached, enabled, recState,
                    loop, next, captured, stopping>>
    BY <1>15 DEF ArchiveGets, serviceVars, ingressVars
  <2>5. UNCHANGED <<toArchive, toStream, depth, streamQueue, dropped, stream,
                    batch, last, seen, gaps, file, content, recorded>>
    BY <1>15 DEF ArchiveGets, deliveryVars, streamVars
  <2> QED BY <1>1, <2>1, <2>3, <2>4, <2>5 DEF TypeOK
<1>16. CASE ArchiveIdles
  <2>1. pending \in Seq(Nat) /\ Archives(pending) /\ archive = "get"
    BY <1>1, <1>16 DEF TypeOK, ArchiveIdles
  <2>2. /\ archive' \in {"none", "get", "append", "ended"}
        /\ pending' \in Seq(Nat)
        /\ write' \in {"none", "running", "done", "failed", "cancelled"}
        /\ thread' \in [Captures -> Seq(Nat)]
    BY <1>1, <2>1, ArchivesType
  <2> QED BY <1>1, <1>16, <2>2 DEF TypeOK, Delivery, ArchiveIdles,
            serviceVars, ingressVars, deliveryVars, streamVars
<1>17. CASE ArchiveEnds
  BY <1>1, <1>2, <1>17 DEF TypeOK, Delivery, ArchiveEnds,
     serviceVars, failureVars, ingressVars, deliveryVars, streamVars, fileVars
<1>18. CASE AppendReturns
  <2>1. pending' \in Seq(Nat)
    BY <1>18 DEF AppendReturns
  <2> QED BY <1>1, <1>2, <1>18, <2>1 DEF TypeOK, Delivery, AppendReturns,
             serviceVars, failureVars, ingressVars, deliveryVars, streamVars,
             fileVars
<1>19. CASE AppendRaises
  <2>1. Fails(Len(archiveQueue), 0) \/ UNCHANGED failureVars
    BY <1>19 DEF AppendRaises
  <2>2. Len(archiveQueue) \in Nat
    BY <1>1, <1>2 DEF TypeOK
  <2>3. /\ failure' \in BOOLEAN
        /\ uncommitted' \in Nat
        /\ offered' \in Nat
        /\ attached' \in BOOLEAN
        /\ enabled' \in BOOLEAN
        /\ archiveQueue' \in Seq(Nat)
        /\ archive' \in {"none", "get", "append", "ended"}
        /\ recState' \in {"idle", "recording", "stopped", "failed"}
    BY <1>1, <2>1, <2>2, FailsType
  <2> QED BY <1>1, <1>19, <2>3 DEF TypeOK, Delivery, AppendRaises,
             EnsureCleanup, serviceVars, ingressVars, deliveryVars, streamVars,
             fileVars
<1>20. CASE StreamGets
  <2>1. Head(streamQueue) \in Nat /\ streamQueue' \in Seq(Nat)
    BY <1>1, <1>2, <1>20 DEF StreamGets
  <2>2. batch' \in Seq(Nat)
    <3> DEFINE frame == Head(streamQueue)
    <3> DEFINE frames == IF Gap(frame) = 0 THEN Append(batch, frame) ELSE <<frame>>
    <3>1. Append(batch, frame) \in Seq(Nat) /\ <<frame>> \in Seq(Nat)
      BY <1>1, <2>1 DEF TypeOK
    <3>2. frames \in Seq(Nat)
      BY <3>1
    <3>3. batch' = <<>> \/ batch' = frames
      BY <1>20 DEF StreamGets
    <3>4. CASE batch' = <<>>
      BY <3>4
    <3> QED BY <3>2, <3>3, <3>4
  <2>3. Gap(Head(streamQueue)) \in Nat /\ last' \in Nat /\ gaps' \in Nat
    <3>1. /\ streamQueue \in Seq(Nat) /\ streamQueue # <<>>
          /\ Published - Len(streamQueue) \in Nat
          /\ Run(streamQueue, Published - Len(streamQueue))
          /\ last < Published - Len(streamQueue)
      <4>1. Published \in Nat
        BY <1>1 DEF TypeOK, Published, Frame
      <4> QED BY <1>1, <1>2, <4>1, <1>20 DEF IInv, Stream, StreamGets, TypeOK
    <3>2. Head(streamQueue) > last
      <4>1. Head(streamQueue) = Published - Len(streamQueue)
        BY <3>1, RunTail
      <4> QED BY <3>1, <4>1
    <3>3. last' = Head(streamQueue) /\ gaps' = gaps + Gap(Head(streamQueue))
      BY <1>20 DEF StreamGets
    <3>4. Gap(Head(streamQueue)) \in Nat
      BY <1>1, <2>1, <3>2 DEF TypeOK, Gap
    <3> QED BY <1>1, <2>1, <3>3, <3>4 DEF TypeOK
  <2>4. seen' \in SUBSET Nat
    BY <1>1, <2>1, <1>20 DEF TypeOK, StreamGets
  <2>5. UNCHANGED <<serviceVars, failureVars, ingressVars, deliveryVars, dropped,
                    stream, fileVars, pending>>
    BY <1>20 DEF StreamGets
  <2> QED BY <1>1, <2>1, <2>2, <2>3, <2>4, <2>5 DEF TypeOK,
            serviceVars, failureVars, ingressVars, deliveryVars, fileVars
<1>21. CASE StreamIdles
  <2>1. batch' \in Seq(Nat)
    BY <1>21 DEF StreamIdles
  <2> QED BY <1>1, <1>2, <1>21, <2>1 DEF TypeOK, Delivery, StreamIdles,
             serviceVars, failureVars, ingressVars, deliveryVars, streamVars,
             fileVars
<1>22. CASE StreamEnds
  BY <1>1, <1>2, <1>22 DEF TypeOK, Delivery, StreamEnds,
     serviceVars, failureVars, ingressVars, deliveryVars, streamVars, fileVars
<1>23. CASE CleanupJoins
  <2>1. pending' \in Seq(Nat)
    BY <1>23 DEF CleanupJoins
  <2>2. /\ cleanup' \in {"none", "join", "write", "flush", "done", "cancelled"}
        /\ write' \in {"none", "running", "done", "failed", "cancelled"}
    BY <1>1, <1>23 DEF TypeOK, CleanupJoins
  <2>3. UNCHANGED <<capture, session, recording, stop, stopEvent, failure,
                    uncommitted, offered, attached, enabled, archiveQueue,
                    archive, recState, loop, next, captured, stopping>>
    BY <1>23 DEF CleanupJoins, failureVars, ingressVars
  <2>4. UNCHANGED <<toArchive, toStream, depth, streamQueue, dropped, stream,
                    batch, last, seen, gaps, file, thread, content, recorded>>
    BY <1>23 DEF CleanupJoins, deliveryVars, streamVars
  <2> QED BY <1>1, <2>1, <2>2, <2>3, <2>4 DEF TypeOK
<1>24. CASE CleanupWritten
  BY <1>1, <1>2, <1>24 DEF TypeOK, Delivery, CleanupWritten,
     serviceVars, failureVars, ingressVars, deliveryVars, streamVars, fileVars
<1>25. CASE CleanupFlushes
  BY <1>1, <1>2, <1>25 DEF TypeOK, Delivery, CleanupFlushes,
     serviceVars, failureVars, ingressVars, deliveryVars, streamVars, fileVars
<1>26. CASE CleanupFlushFails
  <2>1. Fails(Len(archiveQueue), 0) \/ UNCHANGED failureVars
    BY <1>26 DEF CleanupFlushFails
  <2>2. Len(archiveQueue) \in Nat
    BY <1>1, <1>2 DEF TypeOK
  <2>3. /\ failure' \in BOOLEAN
        /\ uncommitted' \in Nat
        /\ offered' \in Nat
        /\ attached' \in BOOLEAN
        /\ enabled' \in BOOLEAN
        /\ archiveQueue' \in Seq(Nat)
        /\ archive' \in {"none", "get", "append", "ended"}
        /\ recState' \in {"idle", "recording", "stopped", "failed"}
    BY <1>1, <2>1, <2>2, FailsType
  <2> QED BY <1>1, <1>26, <2>3 DEF TypeOK, Delivery, CleanupFlushFails,
            serviceVars, ingressVars, deliveryVars, streamVars, fileVars
<1>27. CASE CleanupTimesOut
  <2>1. Fails(Len(archiveQueue), 0) \/ UNCHANGED failureVars
    BY <1>27 DEF CleanupTimesOut
  <2>2. Len(archiveQueue) \in Nat
    BY <1>1, <1>2 DEF TypeOK
  <2>3. /\ failure' \in BOOLEAN
        /\ uncommitted' \in Nat
        /\ offered' \in Nat
        /\ attached' \in BOOLEAN
        /\ enabled' \in BOOLEAN
        /\ archiveQueue' \in Seq(Nat)
        /\ archive' \in {"none", "get", "append", "ended"}
        /\ recState' \in {"idle", "recording", "stopped", "failed"}
    BY <1>1, <2>1, <2>2, FailsType
  <2> QED BY <1>1, <1>27, <2>3 DEF TypeOK, Delivery, CleanupTimesOut,
            serviceVars, ingressVars, deliveryVars, streamVars, fileVars
<1>28. CASE StopBegins
  BY <1>1, <1>2, <1>28 DEF TypeOK, Delivery, StopBegins,
     serviceVars, failureVars, ingressVars, deliveryVars, streamVars, fileVars
<1>29. CASE StopDrains
  BY <1>1, <1>2, <1>29 DEF TypeOK, Delivery, StopDrains,
     serviceVars, failureVars, ingressVars, deliveryVars, streamVars, fileVars
<1>30. CASE StopDrained
  BY <1>1, <1>2, <1>30 DEF TypeOK, Delivery, StopDrained, EnsureCleanup,
     serviceVars, failureVars, ingressVars, deliveryVars, streamVars, fileVars
<1>31. CASE StopDrainTimesOut
  <2>1. Fails(Len(archiveQueue), 0) \/ UNCHANGED failureVars
    BY <1>31 DEF StopDrainTimesOut
  <2>2. Len(archiveQueue) \in Nat
    BY <1>1, <1>2 DEF TypeOK
  <2>3. /\ failure' \in BOOLEAN
        /\ uncommitted' \in Nat
        /\ offered' \in Nat
        /\ attached' \in BOOLEAN
        /\ enabled' \in BOOLEAN
        /\ archiveQueue' \in Seq(Nat)
        /\ archive' \in {"none", "get", "append", "ended"}
        /\ recState' \in {"idle", "recording", "stopped", "failed"}
    BY <1>1, <2>1, <2>2, FailsType
  <2> QED BY <1>1, <1>31, <2>3 DEF TypeOK, Delivery, StopDrainTimesOut,
             EnsureCleanup, WriteAfterCancel, serviceVars, ingressVars,
             deliveryVars, streamVars, fileVars
<1>32. CASE StopEnds
  <2>1. pending' \in Seq(Nat)
    BY <1>32 DEF StopEnds
  <2>2. /\ stop' = "none" /\ session' \in BOOLEAN /\ cleanup' = "none"
        /\ archive' = "none" /\ stream' = "none"
    BY <1>32 DEF StopEnds
  <2>3. UNCHANGED <<capture, recording, stopEvent, failure, uncommitted, offered,
                    attached, enabled, archiveQueue, recState, ingressVars,
                    deliveryVars, streamQueue, dropped, batch, last, seen, gaps,
                    fileVars>>
    BY <1>32 DEF StopEnds
  <2> QED BY <1>1, <2>1, <2>2, <2>3 DEF TypeOK, ingressVars, deliveryVars,
             fileVars
<1>33. CASE StopRaises
  BY <1>1, <1>2, <1>33 DEF TypeOK, Delivery, StopRaises,
     serviceVars, failureVars, ingressVars, deliveryVars, streamVars, fileVars
<1> QED BY <1>3, <1>4, <1>5, <1>6, <1>7, <1>8, <1>9, <1>10, <1>11, <1>12, <1>13,
           <1>14, <1>15, <1>16, <1>17, <1>18, <1>19, <1>20, <1>21, <1>22, <1>23,
           <1>24, <1>25, <1>26, <1>27, <1>28, <1>29, <1>30, <1>31, <1>32, <1>33
           DEF Next, Deliver, Consume, Cleanup, Stop

\* Every step keeps what tasks exist when.
LEMMA TasksStep == ASSUME IInv, [Next]_vars PROVE Tasks'
<1> USE PipelineAssumption
<1>1. TypeOK /\ Tasks
  BY DEF IInv
<1>2. CASE UNCHANGED vars
  BY <1>1, <1>2 DEF TypeOK, Tasks, vars, serviceVars, failureVars, ingressVars,
     deliveryVars, streamVars, fileVars
<1>3. ASSUME NEW target \in BOOLEAN, StartCapture(target) PROVE Tasks'
  BY <1>1, <1>3 DEF TypeOK, Tasks, StartCapture
<1>4. ASSUME NEW c \in Captures, NEW ok \in BOOLEAN, ThreadEnds(c, ok)
      PROVE  Tasks'
  BY <1>1, <1>4 DEF TypeOK, Tasks, ThreadEnds, serviceVars, failureVars,
     ingressVars, deliveryVars, streamVars, fileVars
<1>5. CASE StartFails
  BY <1>1, <1>5 DEF TypeOK, Tasks, StartFails, serviceVars, failureVars,
     ingressVars, deliveryVars, streamVars, fileVars
<1>6. CASE Receive
  BY <1>1, <1>6 DEF TypeOK, Tasks, Receive, serviceVars, failureVars,
     ingressVars, deliveryVars, streamVars, fileVars
<1>7. CASE ReceiveStops
  BY <1>1, <1>7 DEF TypeOK, Tasks, ReceiveStops, serviceVars, failureVars,
     ingressVars, deliveryVars, streamVars, fileVars
<1>8. CASE PublishStream
  BY <1>1, <1>8 DEF TypeOK, Tasks, PublishStream, Frame, serviceVars,
     failureVars, ingressVars, deliveryVars, streamVars, fileVars
<1>9. CASE PublishArchive
  BY <1>1, <1>9 DEF TypeOK, Tasks, PublishArchive, Frame, serviceVars,
     failureVars, ingressVars, deliveryVars, streamVars, fileVars
<1>10. CASE PublishBlocks
  BY <1>1, <1>10 DEF TypeOK, Tasks, PublishBlocks, serviceVars, failureVars,
     ingressVars, deliveryVars, streamVars, fileVars
<1>11. CASE PublishDisabled
  BY <1>1, <1>11 DEF TypeOK, Tasks, PublishDisabled, serviceVars, failureVars,
     ingressVars, deliveryVars, streamVars, fileVars
<1>12. CASE PublishTimesOut
  BY <1>1, <1>12 DEF TypeOK, Tasks, PublishTimesOut, serviceVars, failureVars,
     ingressVars, deliveryVars, streamVars, fileVars
<1>13. CASE FanoutEnds
  BY <1>1, <1>13 DEF TypeOK, Tasks, FanoutEnds, Fails, EnsureCleanup,
     WriteAfterCancel, serviceVars, failureVars, ingressVars, deliveryVars,
     streamVars, fileVars
<1>14. CASE ArchiveGets
  BY <1>1, <1>14 DEF TypeOK, Tasks, ArchiveGets, Archives, serviceVars,
     failureVars, ingressVars, deliveryVars, streamVars, fileVars
<1>15. CASE ArchiveIdles
  BY <1>1, <1>15 DEF TypeOK, Tasks, ArchiveIdles, Archives, serviceVars,
     failureVars, ingressVars, deliveryVars, streamVars, fileVars
<1>16. CASE ArchiveEnds
  BY <1>1, <1>16 DEF TypeOK, Tasks, ArchiveEnds, serviceVars, failureVars,
     ingressVars, deliveryVars, streamVars, fileVars
<1>17. CASE AppendReturns
  BY <1>1, <1>17 DEF TypeOK, Tasks, AppendReturns, serviceVars, failureVars,
     ingressVars, deliveryVars, streamVars, fileVars
<1>18. CASE AppendRaises
  BY <1>1, <1>18 DEF TypeOK, Tasks, AppendRaises, Fails, EnsureCleanup,
     serviceVars, failureVars, ingressVars, deliveryVars, streamVars, fileVars
<1>19. CASE StreamGets
  BY <1>1, <1>19 DEF TypeOK, Tasks, StreamGets, Gap, serviceVars, failureVars,
     ingressVars, deliveryVars, streamVars, fileVars
<1>20. CASE StreamIdles
  BY <1>1, <1>20 DEF TypeOK, Tasks, StreamIdles, serviceVars, failureVars,
     ingressVars, deliveryVars, streamVars, fileVars
<1>21. CASE StreamEnds
  BY <1>1, <1>21 DEF TypeOK, Tasks, StreamEnds, serviceVars, failureVars,
     ingressVars, deliveryVars, streamVars, fileVars
<1>22. CASE CleanupJoins
  BY <1>1, <1>22 DEF TypeOK, Tasks, CleanupJoins, serviceVars, failureVars,
     ingressVars, deliveryVars, streamVars, fileVars
<1>23. CASE CleanupWritten
  BY <1>1, <1>23 DEF TypeOK, Tasks, CleanupWritten, serviceVars, failureVars,
     ingressVars, deliveryVars, streamVars, fileVars
<1>24. CASE CleanupFlushes
  BY <1>1, <1>24 DEF TypeOK, Tasks, CleanupFlushes, serviceVars, failureVars,
     ingressVars, deliveryVars, streamVars, fileVars
<1>25. CASE CleanupFlushFails
  BY <1>1, <1>25 DEF TypeOK, Tasks, CleanupFlushFails, Fails, serviceVars,
     failureVars, ingressVars, deliveryVars, streamVars, fileVars
<1>26. CASE CleanupTimesOut
  BY <1>1, <1>26 DEF TypeOK, Tasks, CleanupTimesOut, Fails, serviceVars,
     failureVars, ingressVars, deliveryVars, streamVars, fileVars
<1>27. CASE StopBegins
  BY <1>1, <1>27 DEF TypeOK, Tasks, StopBegins, serviceVars, failureVars,
     ingressVars, deliveryVars, streamVars, fileVars
<1>28. CASE StopDrains
  BY <1>1, <1>28 DEF TypeOK, Tasks, StopDrains, serviceVars, failureVars,
     ingressVars, deliveryVars, streamVars, fileVars
<1>29. CASE StopDrained
  BY <1>1, <1>29 DEF TypeOK, Tasks, StopDrained, EnsureCleanup, serviceVars,
     failureVars, ingressVars, deliveryVars, streamVars, fileVars
<1>30. CASE StopDrainTimesOut
  BY <1>1, <1>30 DEF TypeOK, Tasks, StopDrainTimesOut, Fails, EnsureCleanup,
     WriteAfterCancel, serviceVars, failureVars, ingressVars, deliveryVars,
     streamVars, fileVars
<1>31. CASE StopEnds
  BY <1>1, <1>31 DEF TypeOK, Tasks, StopEnds, serviceVars, failureVars,
     ingressVars, deliveryVars, streamVars, fileVars
<1>32. CASE StopRaises
  BY <1>1, <1>32 DEF TypeOK, Tasks, StopRaises, serviceVars, failureVars,
     ingressVars, deliveryVars, streamVars, fileVars
<1> QED BY <1>2, <1>3, <1>4, <1>5, <1>6, <1>7, <1>8, <1>9, <1>10, <1>11,
          <1>12, <1>13, <1>14, <1>15, <1>16, <1>17, <1>18, <1>19, <1>20,
          <1>21, <1>22, <1>23, <1>24, <1>25, <1>26, <1>27, <1>28, <1>29,
          <1>30, <1>31, <1>32
         DEF Next, Deliver, Consume, Cleanup, Stop

\* No step writes to the file of a capture that has not begun.
LEMMA FreshStep == ASSUME IInv, [Next]_vars PROVE Fresh'
<1> USE PipelineAssumption
<1>1. TypeOK /\ Fresh /\ Recorder
  BY DEF IInv
<1>2. CASE UNCHANGED vars
  BY <1>1, <1>2 DEF TypeOK, Fresh, Recorder, vars, serviceVars, failureVars,
     ingressVars, deliveryVars, streamVars, fileVars
<1>3. ASSUME NEW target \in BOOLEAN, StartCapture(target) PROVE Fresh'
  <2>1. capture' = capture + 1 /\ content' = content /\ thread' = thread
    BY <1>3 DEF StartCapture
  <2>2. ASSUME NEW c \in Captures, c > capture + 1
        PROVE  content[c] = <<>> /\ thread[c] = <<>>
    <3>1. c \in Nat /\ capture \in Nat
      BY <1>1 DEF TypeOK, Captures
    <3>2. c > capture
      BY <2>2, <3>1
    <3> QED BY <1>1, <3>2 DEF Fresh
  <2> QED BY <2>1, <2>2 DEF Fresh
<1>4. ASSUME NEW c \in Captures, NEW ok \in BOOLEAN, ThreadEnds(c, ok)
      PROVE  Fresh'
  BY <1>1, <1>4 DEF TypeOK, Fresh, Recorder, ThreadEnds, serviceVars,
     failureVars, ingressVars, deliveryVars, streamVars, fileVars
<1>5. CASE StartFails
  <2>1. capture' = capture + 1 /\ content' = content /\ thread' = thread
    BY <1>5 DEF StartFails, fileVars
  <2>2. ASSUME NEW c \in Captures, c > capture + 1
        PROVE  content[c] = <<>> /\ thread[c] = <<>>
    <3>1. c \in Nat /\ capture \in Nat
      BY <1>1 DEF TypeOK, Captures
    <3>2. c > capture
      BY <2>2, <3>1
    <3> QED BY <1>1, <3>2 DEF Fresh
  <2> QED BY <2>1, <2>2 DEF Fresh
<1>6. CASE Receive \/ ReceiveStops \/ PublishStream \/ PublishArchive
           \/ PublishBlocks \/ PublishDisabled \/ PublishTimesOut \/ FanoutEnds
  BY <1>1, <1>6 DEF TypeOK, Fresh, Recorder, Receive, ReceiveStops,
     PublishStream, PublishArchive, PublishBlocks, PublishDisabled,
     PublishTimesOut, FanoutEnds, Frame, Fails, EnsureCleanup, WriteAfterCancel,
     serviceVars, failureVars, ingressVars, deliveryVars, streamVars, fileVars
<1>7. CASE ArchiveGets
  BY <1>1, <1>7 DEF TypeOK, Fresh, Recorder, ArchiveGets, Archives, serviceVars,
     failureVars, ingressVars, deliveryVars, streamVars, fileVars
<1>8. CASE ArchiveIdles
  BY <1>1, <1>8 DEF TypeOK, Fresh, Recorder, ArchiveIdles, Archives,
     serviceVars, failureVars, ingressVars, deliveryVars, streamVars, fileVars
<1>9. CASE ArchiveEnds \/ AppendReturns \/ AppendRaises
  BY <1>1, <1>9 DEF TypeOK, Fresh, Recorder, ArchiveEnds, AppendReturns,
     AppendRaises, Fails, EnsureCleanup, serviceVars, failureVars, ingressVars,
     deliveryVars, streamVars, fileVars
<1>10. CASE StreamGets \/ StreamIdles \/ StreamEnds
  BY <1>1, <1>10 DEF TypeOK, Fresh, Recorder, StreamGets, StreamIdles,
     StreamEnds, Gap, serviceVars, failureVars, ingressVars, deliveryVars,
     streamVars, fileVars
<1>11. CASE CleanupJoins \/ CleanupWritten \/ CleanupFlushes
            \/ CleanupFlushFails \/ CleanupTimesOut
  BY <1>1, <1>11 DEF TypeOK, Fresh, Recorder, CleanupJoins, CleanupWritten,
     CleanupFlushes, CleanupFlushFails, CleanupTimesOut, Fails, serviceVars,
     failureVars, ingressVars, deliveryVars, streamVars, fileVars
<1>12. CASE StopBegins \/ StopDrains \/ StopDrained \/ StopDrainTimesOut
            \/ StopEnds \/ StopRaises
  BY <1>1, <1>12 DEF TypeOK, Fresh, Recorder, StopBegins, StopDrains,
     StopDrained, StopDrainTimesOut, StopEnds, StopRaises, EnsureCleanup, Fails,
     WriteAfterCancel, serviceVars, failureVars, ingressVars, deliveryVars,
     streamVars, fileVars
<1> QED BY <1>2, <1>3, <1>4, <1>5, <1>6, <1>7, <1>8, <1>9, <1>10, <1>11,
          <1>12
         DEF Next, Deliver, Consume, Cleanup, Stop

\* Every step keeps the archive attached as long as it is usable.
LEMMA AttachmentStep == ASSUME IInv, [Next]_vars PROVE Attachment'
<1> USE PipelineAssumption
<1>1. TypeOK /\ Tasks /\ Attachment /\ Recorder
  BY DEF IInv
<1>2. CASE UNCHANGED vars
  BY <1>1, <1>2 DEF Tasks, Attachment, Recorder, vars, serviceVars, failureVars,
     ingressVars, deliveryVars, streamVars, fileVars
<1>3. ASSUME NEW target \in BOOLEAN, StartCapture(target) PROVE Attachment'
  BY <1>1, <1>3 DEF Tasks, Attachment, Recorder, StartCapture
<1>4. ASSUME NEW c \in Captures, NEW ok \in BOOLEAN, ThreadEnds(c, ok)
      PROVE  Attachment'
  BY <1>1, <1>4 DEF Tasks, Attachment, Recorder, ThreadEnds, serviceVars,
     failureVars, ingressVars, deliveryVars, streamVars, fileVars
<1>5. CASE StartFails
  BY <1>1, <1>5 DEF Tasks, Attachment, Recorder, StartFails, serviceVars,
     failureVars, ingressVars, deliveryVars, streamVars, fileVars
<1>6. CASE Receive \/ ReceiveStops \/ PublishStream \/ PublishArchive
           \/ PublishBlocks \/ PublishDisabled \/ PublishTimesOut \/ FanoutEnds
  BY <1>1, <1>6 DEF Tasks, Attachment, Recorder, Receive, ReceiveStops,
     PublishStream, PublishArchive, PublishBlocks, PublishDisabled,
     PublishTimesOut, FanoutEnds, Frame, Fails, EnsureCleanup, WriteAfterCancel,
     serviceVars, failureVars, ingressVars, deliveryVars, streamVars, fileVars
<1>7. CASE ArchiveGets \/ ArchiveIdles \/ ArchiveEnds \/ AppendReturns
           \/ AppendRaises
  BY <1>1, <1>7 DEF Tasks, Attachment, Recorder, ArchiveGets, ArchiveIdles,
     ArchiveEnds, AppendReturns, AppendRaises, Archives, Fails, EnsureCleanup,
     serviceVars, failureVars, ingressVars, deliveryVars, streamVars, fileVars
<1>8. CASE StreamGets \/ StreamIdles \/ StreamEnds
  BY <1>1, <1>8 DEF Tasks, Attachment, Recorder, StreamGets, StreamIdles,
     StreamEnds, Gap, serviceVars, failureVars, ingressVars, deliveryVars,
     streamVars, fileVars
<1>9. CASE CleanupJoins \/ CleanupWritten \/ CleanupFlushes \/ CleanupFlushFails
           \/ CleanupTimesOut
  BY <1>1, <1>9 DEF Tasks, Attachment, Recorder, CleanupJoins, CleanupWritten,
     CleanupFlushes, CleanupFlushFails, CleanupTimesOut, Fails, serviceVars,
     failureVars, ingressVars, deliveryVars, streamVars, fileVars
<1>10. CASE StopBegins \/ StopDrains \/ StopDrained \/ StopDrainTimesOut
            \/ StopEnds \/ StopRaises
  BY <1>1, <1>10 DEF Tasks, Attachment, Recorder, StopBegins, StopDrains,
     StopDrained, StopDrainTimesOut, StopEnds, StopRaises, EnsureCleanup, Fails,
     WriteAfterCancel, serviceVars, failureVars, ingressVars, deliveryVars,
     streamVars, fileVars
<1> QED BY <1>2, <1>3, <1>4, <1>5, <1>6, <1>7, <1>8, <1>9, <1>10
         DEF Next, Deliver, Consume, Cleanup, Stop

\* Every step lets the consumer end on a failure, or with nothing left.
LEMMA EndedStep == ASSUME IInv, [Next]_vars PROVE Ended'
<1> USE PipelineAssumption
<1>1. TypeOK /\ Tasks /\ Attachment /\ Ended /\ Recorder
  BY DEF IInv
<1>2. CASE UNCHANGED vars
  BY <1>1, <1>2 DEF Tasks, Attachment, Ended, Recorder, Alive, vars,
     serviceVars, failureVars, ingressVars, deliveryVars, streamVars, fileVars
<1>3. ASSUME NEW target \in BOOLEAN, StartCapture(target) PROVE Ended'
  BY <1>1, <1>3 DEF Tasks, Attachment, Ended, Recorder, Alive, StartCapture
<1>4. ASSUME NEW c \in Captures, NEW ok \in BOOLEAN, ThreadEnds(c, ok)
      PROVE  Ended'
  BY <1>1, <1>4 DEF Tasks, Attachment, Ended, Recorder, Alive, ThreadEnds,
     serviceVars, failureVars, ingressVars, deliveryVars, streamVars, fileVars
<1>5. CASE StartFails
  BY <1>1, <1>5 DEF Tasks, Attachment, Ended, Recorder, Alive, StartFails,
     serviceVars, failureVars, ingressVars, deliveryVars, streamVars, fileVars
<1>6. CASE Receive \/ ReceiveStops \/ PublishStream \/ PublishArchive
           \/ PublishBlocks \/ PublishDisabled \/ PublishTimesOut \/ FanoutEnds
  BY <1>1, <1>6 DEF Tasks, Attachment, Ended, Recorder, Alive, Receive,
     ReceiveStops, PublishStream, PublishArchive, PublishBlocks,
     PublishDisabled, PublishTimesOut, FanoutEnds, Frame, Fails, EnsureCleanup,
     WriteAfterCancel, serviceVars, failureVars, ingressVars, deliveryVars,
     streamVars, fileVars
<1>7. CASE ArchiveGets \/ ArchiveIdles \/ ArchiveEnds \/ AppendReturns
           \/ AppendRaises
  BY <1>1, <1>7 DEF Tasks, Attachment, Ended, Recorder, Alive, ArchiveGets,
     ArchiveIdles, ArchiveEnds, AppendReturns, AppendRaises, Archives, Fails,
     EnsureCleanup, serviceVars, failureVars, ingressVars, deliveryVars,
     streamVars, fileVars
<1>8. CASE StreamGets \/ StreamIdles \/ StreamEnds
  BY <1>1, <1>8 DEF Tasks, Attachment, Ended, Recorder, Alive, StreamGets,
     StreamIdles, StreamEnds, Gap, serviceVars, failureVars, ingressVars,
     deliveryVars, streamVars, fileVars
<1>9. CASE CleanupJoins \/ CleanupWritten \/ CleanupFlushes \/ CleanupFlushFails
           \/ CleanupTimesOut
  BY <1>1, <1>9 DEF Tasks, Attachment, Ended, Recorder, Alive, CleanupJoins,
     CleanupWritten, CleanupFlushes, CleanupFlushFails, CleanupTimesOut, Fails,
     serviceVars, failureVars, ingressVars, deliveryVars, streamVars, fileVars
<1>10. CASE StopBegins \/ StopDrains \/ StopDrained \/ StopDrainTimesOut
            \/ StopEnds \/ StopRaises
  BY <1>1, <1>10 DEF Tasks, Attachment, Ended, Recorder, Alive, StopBegins,
     StopDrains, StopDrained, StopDrainTimesOut, StopEnds, StopRaises,
     EnsureCleanup, Fails, WriteAfterCancel, serviceVars, failureVars,
     ingressVars, deliveryVars, streamVars, fileVars
<1> QED BY <1>2, <1>3, <1>4, <1>5, <1>6, <1>7, <1>8, <1>9, <1>10
         DEF Next, Deliver, Consume, Cleanup, Stop

\* Every step keeps the recorder open for a recording that has not failed.
LEMMA RecorderStep == ASSUME IInv, [Next]_vars PROVE Recorder'
<1> USE PipelineAssumption
<1>1. TypeOK /\ Tasks /\ Attachment /\ Ended /\ Recorder /\ Disk
  BY DEF IInv
<1>2. CASE UNCHANGED vars
  BY <1>1, <1>2 DEF TypeOK, Tasks, Attachment, Ended, Recorder, Alive, Captures,
     vars, serviceVars, failureVars, ingressVars, deliveryVars, streamVars,
     fileVars
<1>3. ASSUME NEW target \in BOOLEAN, StartCapture(target) PROVE Recorder'
  BY <1>1, <1>3 DEF TypeOK, Tasks, Attachment, Ended, Recorder, Alive, Captures,
     StartCapture
<1>4. ASSUME NEW c \in Captures, NEW ok \in BOOLEAN, ThreadEnds(c, ok)
      PROVE  Recorder'
  <2>1. UNCHANGED <<capture, recording, failure, archive, file, pending, loop>>
    BY <1>4 DEF ThreadEnds, serviceVars, ingressVars
  <2>2. CASE file = c /\ write = "running"
    <3>1. /\ write' = IF ok THEN "done" ELSE "failed"
          /\ recState' = IF ok THEN recState ELSE "failed"
      BY <2>2, <1>4 DEF ThreadEnds
    <3>2. Alive => archive \notin {"get", "ended"} \/ file # capture
      BY <1>1, <2>2, <1>4 DEF Disk, ThreadEnds
    <3>3. recState' = "recording" => recState = "recording"
      BY <3>1
    <3> QED BY <1>1, <2>1, <2>2, <3>1, <3>2 DEF Recorder, Alive
  <2>3. CASE ~(file = c /\ write = "running")
    <3>1. write' = write /\ recState' = recState
      BY <2>3, <1>4 DEF ThreadEnds
    <3> QED BY <1>1, <2>1, <3>1 DEF Recorder, Alive
  <2> QED BY <2>2, <2>3
<1>5. CASE StartFails
  BY <1>1, <1>5 DEF TypeOK, Tasks, Attachment, Ended, Recorder, Alive, Captures,
     StartFails, serviceVars, failureVars, ingressVars, deliveryVars,
     streamVars, fileVars
<1>6. CASE Receive
  BY <1>1, <1>6 DEF TypeOK, Tasks, Attachment, Ended, Recorder, Alive, Captures,
     Receive, serviceVars, failureVars, ingressVars, deliveryVars, streamVars,
     fileVars
<1>7. CASE ReceiveStops
  BY <1>1, <1>7 DEF TypeOK, Tasks, Attachment, Ended, Recorder, Alive, Captures,
     ReceiveStops, serviceVars, failureVars, ingressVars, deliveryVars,
     streamVars, fileVars
<1>8. CASE PublishStream
  BY <1>1, <1>8 DEF TypeOK, Tasks, Attachment, Ended, Recorder, Alive, Captures,
     PublishStream, Frame, serviceVars, failureVars, ingressVars,
     deliveryVars, streamVars, fileVars
<1>9. CASE PublishArchive
  BY <1>1, <1>9 DEF TypeOK, Tasks, Attachment, Ended, Recorder, Alive, Captures,
     PublishArchive, Frame, serviceVars, failureVars, ingressVars,
     deliveryVars, streamVars, fileVars
<1>10. CASE PublishBlocks
  BY <1>1, <1>10 DEF TypeOK, Tasks, Attachment, Ended, Recorder, Alive,
     Captures, PublishBlocks, serviceVars, failureVars, ingressVars,
     deliveryVars, streamVars, fileVars
<1>11. CASE PublishDisabled
  BY <1>1, <1>11 DEF TypeOK, Tasks, Attachment, Ended, Recorder, Alive,
     Captures, PublishDisabled, serviceVars, failureVars, ingressVars,
     deliveryVars, streamVars, fileVars
<1>12. CASE PublishTimesOut
  BY <1>1, <1>12 DEF TypeOK, Tasks, Attachment, Ended, Recorder, Alive,
     Captures, PublishTimesOut, serviceVars, failureVars, ingressVars,
     deliveryVars, streamVars, fileVars
<1>13. CASE FanoutEnds
  BY <1>1, <1>13 DEF TypeOK, Tasks, Attachment, Ended, Recorder, Alive,
     Captures, FanoutEnds, Fails, EnsureCleanup, WriteAfterCancel, serviceVars,
     failureVars, ingressVars, deliveryVars, streamVars, fileVars
<1>14. CASE ArchiveGets
  <2>1. UNCHANGED <<capture, session, recording, stop, stopEvent, cleanup, failure,
                    attached, enabled, recState, loop, next, toArchive, toStream,
                    file>>
    BY <1>14 DEF ArchiveGets, serviceVars, ingressVars, deliveryVars
  <2>2. archive = "get" /\ enabled
    BY <1>14 DEF ArchiveGets
  <2>3. \/ archive' = "get" /\ write' = write
        \/ /\ recState = "recording" /\ archive' = "append" /\ write' = "running"
           /\ pending' # <<>>
    BY <1>14 DEF ArchiveGets, Archives, TypeOK
  <2> QED BY <1>1, <2>1, <2>2, <2>3 DEF Tasks, Attachment, Ended, Recorder, Alive
<1>15. CASE ArchiveIdles
  BY <1>1, <1>15 DEF TypeOK, Tasks, Attachment, Ended, Recorder, Alive,
     Captures, ArchiveIdles, Archives, serviceVars, failureVars, ingressVars,
     deliveryVars, streamVars, fileVars
<1>16. CASE ArchiveEnds
  BY <1>1, <1>16 DEF TypeOK, Tasks, Attachment, Ended, Recorder, Alive,
     Captures, ArchiveEnds, serviceVars, failureVars, ingressVars, deliveryVars,
     streamVars, fileVars
<1>17. CASE AppendReturns
  BY <1>1, <1>17 DEF TypeOK, Tasks, Attachment, Ended, Recorder, Alive,
     Captures, AppendReturns, serviceVars, failureVars, ingressVars,
     deliveryVars, streamVars, fileVars
<1>18. CASE AppendRaises
  BY <1>1, <1>18 DEF TypeOK, Tasks, Attachment, Ended, Recorder, Alive,
     Captures, AppendRaises, Fails, EnsureCleanup, serviceVars, failureVars,
     ingressVars, deliveryVars, streamVars, fileVars
<1>19. CASE StreamGets
  BY <1>1, <1>19 DEF TypeOK, Tasks, Attachment, Ended, Recorder, Alive,
     Captures, StreamGets, Gap, serviceVars, failureVars, ingressVars,
     deliveryVars, streamVars, fileVars
<1>20. CASE StreamIdles
  BY <1>1, <1>20 DEF TypeOK, Tasks, Attachment, Ended, Recorder, Alive,
     Captures, StreamIdles, serviceVars, failureVars, ingressVars, deliveryVars,
     streamVars, fileVars
<1>21. CASE StreamEnds
  BY <1>1, <1>21 DEF TypeOK, Tasks, Attachment, Ended, Recorder, Alive,
     Captures, StreamEnds, serviceVars, failureVars, ingressVars, deliveryVars,
     streamVars, fileVars
<1>22. CASE CleanupJoins
  BY <1>1, <1>22 DEF TypeOK, Tasks, Attachment, Ended, Recorder, Alive,
     Captures, CleanupJoins, serviceVars, failureVars, ingressVars,
     deliveryVars, streamVars, fileVars
<1>23. CASE CleanupWritten
  BY <1>1, <1>23 DEF TypeOK, Tasks, Attachment, Ended, Recorder, Alive,
     Captures, CleanupWritten, serviceVars, failureVars, ingressVars,
     deliveryVars, streamVars, fileVars
<1>24. CASE CleanupFlushes
  BY <1>1, <1>24 DEF TypeOK, Tasks, Attachment, Ended, Recorder, Alive,
     Captures, CleanupFlushes, serviceVars, failureVars, ingressVars,
     deliveryVars, streamVars, fileVars
<1>25. CASE CleanupFlushFails
  BY <1>1, <1>25 DEF TypeOK, Tasks, Attachment, Ended, Recorder, Alive,
     Captures, CleanupFlushFails, Fails, serviceVars, failureVars, ingressVars,
     deliveryVars, streamVars, fileVars
<1>26. CASE CleanupTimesOut
  BY <1>1, <1>26 DEF TypeOK, Tasks, Attachment, Ended, Recorder, Alive,
     Captures, CleanupTimesOut, Fails, serviceVars, failureVars, ingressVars,
     deliveryVars, streamVars, fileVars
<1>27. CASE StopBegins
  BY <1>1, <1>27 DEF TypeOK, Tasks, Attachment, Ended, Recorder, Alive,
     Captures, StopBegins, serviceVars, failureVars, ingressVars, deliveryVars,
     streamVars, fileVars
<1>28. CASE StopDrains
  BY <1>1, <1>28 DEF TypeOK, Tasks, Attachment, Ended, Recorder, Alive,
     Captures, StopDrains, serviceVars, failureVars, ingressVars, deliveryVars,
     streamVars, fileVars
<1>29. CASE StopDrained
  BY <1>1, <1>29 DEF TypeOK, Tasks, Attachment, Ended, Recorder, Alive,
     Captures, StopDrained, EnsureCleanup, serviceVars, failureVars,
     ingressVars, deliveryVars, streamVars, fileVars
<1>30. CASE StopDrainTimesOut
  BY <1>1, <1>30 DEF TypeOK, Tasks, Attachment, Ended, Recorder, Alive,
     Captures, StopDrainTimesOut, Fails, EnsureCleanup, WriteAfterCancel,
     serviceVars, failureVars, ingressVars, deliveryVars, streamVars, fileVars
<1>31. CASE StopEnds
  BY <1>1, <1>31 DEF TypeOK, Tasks, Attachment, Ended, Recorder, Alive,
     Captures, StopEnds, serviceVars, failureVars, ingressVars, deliveryVars,
     streamVars, fileVars
<1>32. CASE StopRaises
  BY <1>1, <1>32 DEF TypeOK, Tasks, Attachment, Ended, Recorder, Alive,
     Captures, StopRaises, serviceVars, failureVars, ingressVars, deliveryVars,
     streamVars, fileVars
<1> QED BY <1>2, <1>3, <1>4, <1>5, <1>6, <1>7, <1>8, <1>9, <1>10, <1>11,
          <1>12, <1>13, <1>14, <1>15, <1>16, <1>17, <1>18, <1>19, <1>20,
          <1>21, <1>22, <1>23, <1>24, <1>25, <1>26, <1>27, <1>28, <1>29,
          <1>30, <1>31, <1>32
         DEF Next, Deliver, Consume, Cleanup, Stop

\* _publish_archive hands to the thread the frames it holds as pending.
LEMMA ArchivesDisk ==
  ASSUME TypeOK, Recorder, Disk, NEW frames, Archives(frames), archive = "get",
         UNCHANGED <<capture, recording, failure, content, recorded>>
  PROVE  Disk'
<1>1. CASE recState = "recording"
  <2>1. file = capture /\ Alive /\ capture \in Captures
    BY <1>1 DEF Recorder
  <2>2. /\ archive' = "append" /\ pending' = frames /\ write' = "running"
        /\ thread' = [thread EXCEPT ![file] = frames]
    BY <1>1 DEF Archives
  <2>3. thread'[capture] = frames
    BY <2>1, <2>2 DEF TypeOK
  <2> QED BY <2>1, <2>2, <2>3 DEF Disk, Alive
<1>2. CASE recState # "recording"
  BY <1>2 DEF Recorder, Alive, Disk
<1> QED BY <1>1, <1>2

\* Every step keeps what is in the file and what is counted together.
LEMMA DiskStep == ASSUME IInv, [Next]_vars PROVE Disk'
<1> USE PipelineAssumption
<1>1. TypeOK /\ Fresh /\ Tasks /\ Attachment /\ Ended /\ Recorder /\ Disk
  BY DEF IInv
<1>2. CASE UNCHANGED vars
  BY <1>1, <1>2 DEF Disk, Alive, Recorder, Ended, Attachment, vars, serviceVars,
     failureVars, ingressVars, deliveryVars, streamVars, fileVars
<1>3. ASSUME NEW target \in BOOLEAN, StartCapture(target) PROVE Disk'
  <2>1. /\ capture' = capture + 1 /\ content' = content /\ thread' = thread
        /\ recorded' = 0 /\ archive' = "get"
    BY <1>3 DEF StartCapture
  <2>2. capture + 1 \in Captures /\ capture + 1 > capture
    BY <1>1, <1>3 DEF TypeOK, Captures, StartCapture
  <2>3. content[capture + 1] = <<>> /\ thread[capture + 1] = <<>>
    BY <1>1, <2>2 DEF Fresh
  <2> QED BY <2>1, <2>3 DEF Disk
<1>4. ASSUME NEW c \in Captures, NEW ok \in BOOLEAN, ThreadEnds(c, ok)
      PROVE  Disk'
  <2>1. /\ UNCHANGED <<capture, recording, failure, archive, file, pending, recorded>>
        /\ thread' = [thread EXCEPT ![c] = <<>>]
        /\ content' = IF ok THEN [content EXCEPT ![c] = content[c] \o thread[c]]
                      ELSE content
        /\ thread[c] # <<>>
    BY <1>4 DEF ThreadEnds, serviceVars
  <2>2. CASE c # capture
    <3>1. Alive => thread'[capture] = thread[capture] /\ content'[capture] = content[capture]
      BY <1>1, <2>1, <2>2 DEF TypeOK, Recorder
    <3>2. archive = "append" => write' = write
      BY <1>1, <2>2, <1>4 DEF ThreadEnds, Recorder
    <3> QED BY <1>1, <2>1, <3>1, <3>2 DEF Disk, Alive
  <2>3. CASE c = capture
    <3>1. Alive => archive = "append" /\ write = "running" /\ file = capture
      BY <1>1, <2>1, <2>3 DEF Disk, Recorder
    <3>2. thread'[capture] = <<>>
      BY <1>1, <2>1, <2>3 DEF TypeOK
    <3>3. CASE ok
      <4>1. Alive => write' = "done"
        BY <2>3, <3>1, <3>3, <1>4 DEF ThreadEnds
      <4>2. content'[capture] = content[capture] \o thread[capture]
        BY <1>1, <2>1, <2>3, <3>3 DEF TypeOK
      <4>3. Alive => Len(content'[capture]) = recorded + Len(pending)
        <5>1. Alive => thread[capture] = pending /\ Len(content[capture]) = recorded
          BY <1>1, <3>1 DEF Disk
        <5>2. content[capture] \in Seq(Nat) /\ thread[capture] \in Seq(Nat)
          BY <1>1, <2>3 DEF TypeOK
        <5>3. Len(content'[capture]) = Len(content[capture]) + Len(thread[capture])
          BY <4>2, <5>2, ConcatProperties
        <5> QED BY <5>1, <5>3
      <4> QED BY <2>1, <3>1, <3>2, <4>1, <4>3 DEF Disk, Alive
    <3>4. CASE ~ok
      <4>1. Alive => write' = "failed"
        BY <2>3, <3>1, <3>4, <1>4 DEF ThreadEnds
      <4> QED BY <2>1, <3>1, <3>2, <4>1 DEF Disk, Alive
    <3> QED BY <3>3, <3>4
  <2> QED BY <2>2, <2>3
<1>5. CASE StartFails
  BY <1>1, <1>5 DEF Disk, Alive, Recorder, Ended, Attachment, StartFails,
     serviceVars, failureVars, ingressVars, deliveryVars, streamVars, fileVars
<1>6. CASE Receive \/ ReceiveStops \/ PublishStream \/ PublishArchive
           \/ PublishBlocks \/ PublishDisabled \/ PublishTimesOut \/ FanoutEnds
  BY <1>1, <1>6 DEF Disk, Alive, Recorder, Ended, Attachment, Receive,
     ReceiveStops, PublishStream, PublishArchive, PublishBlocks,
     PublishDisabled, PublishTimesOut, FanoutEnds, Frame, Fails, EnsureCleanup,
     WriteAfterCancel, serviceVars, failureVars, ingressVars, deliveryVars,
     streamVars, fileVars
<1>7. CASE ArchiveGets
  <2> DEFINE frames == Append(pending, Head(archiveQueue))
  <2>1. /\ archive = "get"
        /\ UNCHANGED <<capture, recording, failure, content, recorded>>
        /\ \/ Archives(frames)
           \/ pending' = frames /\ UNCHANGED <<archive, write, thread>>
    BY <1>7 DEF ArchiveGets, serviceVars
  <2> HIDE DEF frames
  <2>2. CASE Archives(frames)
    BY <1>1, <2>1, <2>2, ArchivesDisk
  <2>3. CASE pending' = frames /\ UNCHANGED <<archive, write, thread>>
    BY <1>1, <2>1, <2>3 DEF Disk, Alive
  <2> QED BY <2>1, <2>2, <2>3
<1>8. CASE ArchiveIdles
  <2>1. archive = "get" /\ Archives(pending)
        /\ UNCHANGED <<capture, recording, failure, content, recorded>>
    BY <1>8 DEF ArchiveIdles, serviceVars
  <2> QED BY <1>1, <2>1, ArchivesDisk DEF Alive
<1>9. CASE AppendReturns
  <2>1. /\ archive = "append" /\ write = "done" /\ archive' = "get"
        /\ recorded' = recorded + Len(pending)
        /\ UNCHANGED <<capture, recording, failure, thread, content>>
    BY <1>9 DEF AppendReturns, serviceVars
  <2> QED BY <1>1, <2>1 DEF Disk, Alive
<1>10. CASE ArchiveEnds \/ AppendRaises
  BY <1>1, <1>10 DEF Disk, Alive, Recorder, Ended, Attachment, ArchiveEnds,
     AppendRaises, Fails, EnsureCleanup, serviceVars, failureVars, ingressVars,
     deliveryVars, streamVars, fileVars
<1>11. CASE StreamGets \/ StreamIdles \/ StreamEnds
  BY <1>1, <1>11 DEF Disk, Alive, Recorder, Ended, Attachment, StreamGets,
     StreamIdles, StreamEnds, Gap, serviceVars, failureVars, ingressVars,
     deliveryVars, streamVars, fileVars
<1>12. CASE CleanupJoins \/ CleanupWritten \/ CleanupFlushes
            \/ CleanupFlushFails \/ CleanupTimesOut
  BY <1>1, <1>12 DEF Disk, Alive, Recorder, Ended, Attachment, CleanupJoins,
     CleanupWritten, CleanupFlushes, CleanupFlushFails, CleanupTimesOut, Fails,
     serviceVars, failureVars, ingressVars, deliveryVars, streamVars, fileVars
<1>13. CASE StopBegins \/ StopDrains \/ StopDrained \/ StopDrainTimesOut
            \/ StopEnds \/ StopRaises
  BY <1>1, <1>13 DEF Disk, Alive, Recorder, Ended, Attachment, StopBegins,
     StopDrains, StopDrained, StopDrainTimesOut, StopEnds, StopRaises,
     EnsureCleanup, Fails, WriteAfterCancel, serviceVars, failureVars,
     ingressVars, deliveryVars, streamVars, fileVars
<1> QED BY <1>2, <1>3, <1>4, <1>5, <1>6, <1>7, <1>8, <1>9, <1>10, <1>11,
          <1>12, <1>13
         DEF Next, Deliver, Consume, Cleanup, Stop

\* The consumer takes the frame its pending ones wait for.
LEMMA ChainGets ==
  ASSUME TypeOK, Chain, Alive, archiveQueue # <<>>
  PROVE  /\ Append(pending, Head(archiveQueue)) \in Seq(Nat)
         /\ Len(Append(pending, Head(archiveQueue))) = Len(pending) + 1
         /\ Run(Append(pending, Head(archiveQueue)), recorded)
         /\ Tail(archiveQueue) \in Seq(Nat)
         /\ Len(Tail(archiveQueue)) = Len(archiveQueue) - 1
         /\ Run(Tail(archiveQueue), recorded + Len(pending) + 1)
<1>1. /\ pending \in Seq(Nat) /\ archiveQueue \in Seq(Nat) /\ recorded \in Nat
      /\ Len(pending) \in Nat
      /\ Run(pending, recorded)
      /\ Run(archiveQueue, recorded + Len(pending))
  BY LenProperties DEF TypeOK, Chain
<1>2. recorded + Len(pending) \in Nat
  BY <1>1
<1>3. /\ Head(archiveQueue) = recorded + Len(pending)
      /\ Tail(archiveQueue) \in Seq(Nat)
      /\ Len(Tail(archiveQueue)) = Len(archiveQueue) - 1
      /\ Run(Tail(archiveQueue), recorded + Len(pending) + 1)
  BY <1>1, <1>2, RunTail
<1>4. Head(archiveQueue) \in Nat
  BY <1>2, <1>3
<1> QED BY <1>1, <1>3, <1>4, RunAppend

\* What _publish_archive writes continues the file.
LEMMA ArchivesRuns ==
  ASSUME TypeOK, Recorder, Disk, Runs, NEW frames, Archives(frames), archive = "get",
         Alive => Run(frames, recorded),
         content' = content
  PROVE  Runs'
<1>1. CASE recState = "recording"
  <2>1. /\ file = capture /\ Alive /\ capture \in Captures
        /\ Len(content[capture]) = recorded
    BY <1>1 DEF Recorder, Disk
  <2>2. thread' = [thread EXCEPT ![capture] = frames]
    BY <1>1, <2>1 DEF Archives
  <2>3. ASSUME NEW d \in Captures
        PROVE  Run(content'[d], 0) /\ Run(thread'[d], Len(content'[d]))
    <3>1. CASE d = capture
      <4>1. thread'[d] = frames
        BY <2>2, <3>1 DEF TypeOK
      <4> QED BY <2>1, <3>1, <4>1 DEF Runs
    <3>2. CASE d # capture
      <4>1. thread'[d] = thread[d]
        BY <2>2, <3>2 DEF TypeOK
      <4> QED BY <4>1 DEF Runs
    <3> QED BY <3>1, <3>2
  <2> QED BY <2>3 DEF Runs
<1>2. CASE recState # "recording"
  BY <1>2 DEF Archives, Runs
<1> QED BY <1>1, <1>2

\* Every step keeps the files gapless.
LEMMA RunsStep == ASSUME IInv, [Next]_vars PROVE Runs'
<1> USE PipelineAssumption
<1>1. TypeOK /\ Recorder /\ Disk /\ Chain /\ Runs
  BY DEF IInv
<1>2. CASE UNCHANGED vars
  BY <1>1, <1>2 DEF Runs, vars, serviceVars, failureVars, ingressVars,
     deliveryVars, streamVars, fileVars
<1>3. ASSUME NEW target \in BOOLEAN, StartCapture(target) PROVE Runs'
  BY <1>1, <1>3 DEF Runs, StartCapture
<1>4. ASSUME NEW c \in Captures, NEW ok \in BOOLEAN, ThreadEnds(c, ok)
      PROVE  Runs'
  <2>1. /\ thread' = [thread EXCEPT ![c] = <<>>]
        /\ content' = IF ok THEN [content EXCEPT ![c] = content[c] \o thread[c]]
                      ELSE content
    BY <1>4 DEF ThreadEnds
  <2>2. /\ content \in [Captures -> Seq(Nat)] /\ thread \in [Captures -> Seq(Nat)]
        /\ Run(content[c], 0) /\ Run(thread[c], Len(content[c]))
    BY <1>1 DEF TypeOK, Runs
  <2>3. Run(content[c] \o thread[c], 0)
    <3>1. Run(thread[c], 0 + Len(content[c]))
      <4>1. content[c] \in Seq(Nat)
        BY <2>2
      <4>2. Len(content[c]) = 0 + Len(content[c])
        BY <4>1, LenProperties
      <4> QED BY <2>2, <4>2
    <3> QED BY <2>2, <3>1, RunConcat
  <2>4. ASSUME NEW d \in Captures
        PROVE  Run(content'[d], 0) /\ Run(thread'[d], Len(content'[d]))
    <3>1. CASE d = c
      <4>1. thread'[c] = <<>> /\ content'[c] \in {content[c], content[c] \o thread[c]}
        BY <2>1, <2>2
      <4> QED BY <2>2, <2>3, <3>1, <4>1, RunEmpty
    <3>2. CASE d # c
      <4>1. thread'[d] = thread[d] /\ content'[d] = content[d]
        BY <2>1, <2>2, <3>2
      <4> QED BY <1>1, <4>1 DEF Runs
    <3> QED BY <3>1, <3>2
  <2> QED BY <2>4 DEF Runs
<1>5. CASE StartFails
  BY <1>1, <1>5 DEF Runs, StartFails, serviceVars, failureVars, ingressVars,
     deliveryVars, streamVars, fileVars
<1>6. CASE Receive \/ ReceiveStops \/ PublishStream \/ PublishArchive
           \/ PublishBlocks \/ PublishDisabled \/ PublishTimesOut \/ FanoutEnds
  BY <1>1, <1>6 DEF Runs, Receive, ReceiveStops, PublishStream, PublishArchive,
     PublishBlocks, PublishDisabled, PublishTimesOut, FanoutEnds, Frame,
     EnsureCleanup, WriteAfterCancel, serviceVars, failureVars, ingressVars,
     deliveryVars, streamVars, fileVars
<1>7. CASE ArchiveGets
  <2> DEFINE frames == Append(pending, Head(archiveQueue))
  <2>1. /\ archive = "get" /\ content' = content
        /\ Archives(frames) \/ thread' = thread
    BY <1>7 DEF ArchiveGets
  <2>2. Alive => Run(frames, recorded)
    BY <1>1, <1>7, ChainGets DEF ArchiveGets
  <2> HIDE DEF frames
  <2>3. CASE Archives(frames)
    BY <1>1, <2>1, <2>2, <2>3, ArchivesRuns
  <2>4. CASE thread' = thread
    BY <1>1, <2>1, <2>4 DEF Runs
  <2> QED BY <2>1, <2>3, <2>4
<1>8. CASE ArchiveIdles
  <2>1. Archives(pending) /\ archive = "get" /\ content' = content
    BY <1>8 DEF ArchiveIdles
  <2>2. Alive => Run(pending, recorded)
    BY <1>1 DEF Chain
  <2> QED BY <1>1, <2>1, <2>2, ArchivesRuns
<1>9. CASE ArchiveEnds \/ AppendReturns \/ AppendRaises
  BY <1>1, <1>9 DEF Runs, ArchiveEnds, AppendReturns, AppendRaises,
     EnsureCleanup, serviceVars, failureVars, ingressVars, deliveryVars,
     streamVars, fileVars
<1>10. CASE StreamGets \/ StreamIdles \/ StreamEnds
  BY <1>1, <1>10 DEF Runs, StreamGets, StreamIdles, StreamEnds, serviceVars,
     failureVars, ingressVars, deliveryVars, streamVars, fileVars
<1>11. CASE CleanupJoins \/ CleanupWritten \/ CleanupFlushes
            \/ CleanupFlushFails \/ CleanupTimesOut
  BY <1>1, <1>11 DEF Runs, CleanupJoins, CleanupWritten, CleanupFlushes,
     CleanupFlushFails, CleanupTimesOut, serviceVars, failureVars, ingressVars,
     deliveryVars, streamVars, fileVars
<1>12. CASE StopBegins \/ StopDrains \/ StopDrained \/ StopDrainTimesOut
            \/ StopEnds \/ StopRaises
  BY <1>1, <1>12 DEF Runs, StopBegins, StopDrains, StopDrained,
     StopDrainTimesOut, StopEnds, StopRaises, EnsureCleanup, WriteAfterCancel,
     serviceVars, failureVars, ingressVars, deliveryVars, streamVars, fileVars
<1> QED BY <1>2, <1>3, <1>4, <1>5, <1>6, <1>7, <1>8, <1>9, <1>10, <1>11,
          <1>12
         DEF Next, Deliver, Consume, Cleanup, Stop

\* The counters and lengths.
Numbers ==
  /\ next \in Nat /\ captured \in Nat /\ recorded \in Nat /\ depth \in Nat
  /\ Len(pending) \in Nat /\ Len(archiveQueue) \in Nat
  /\ uncommitted \in Nat /\ offered \in Nat

\* The counters are numbers.
LEMMA NumbersHold == TypeOK => Numbers
BY LenProperties DEF TypeOK, Numbers

\* Every step keeps recorded, pending and queued frames in one run.
LEMMA ChainStep == ASSUME IInv, [Next]_vars PROVE Chain'
<1> USE PipelineAssumption
<1>1. TypeOK /\ Tasks /\ Attachment /\ Ended /\ Recorder /\ Disk /\ Chain /\ Total
  BY DEF IInv
<1>2. CASE UNCHANGED vars
  BY <1>1, <1>2 DEF Chain, Alive, Recorder, Ended, Attachment, Tasks, vars,
     serviceVars, failureVars, ingressVars, deliveryVars, streamVars, fileVars
<1>3. ASSUME NEW target \in BOOLEAN, StartCapture(target) PROVE Chain'
  <2>1. pending' = <<>> /\ archiveQueue' = <<>>
    BY <1>3 DEF StartCapture
  <2> QED BY <2>1, RunEmpty DEF Chain
<1>4. ASSUME NEW c \in Captures, NEW ok \in BOOLEAN, ThreadEnds(c, ok)
      PROVE  Chain'
  BY <1>1, <1>4 DEF Chain, Alive, Recorder, Ended, Attachment, Tasks,
     ThreadEnds, serviceVars, failureVars, ingressVars, deliveryVars,
     streamVars, fileVars
<1>5. CASE StartFails
  BY <1>1, <1>5 DEF Chain, Alive, Recorder, Ended, Attachment, Tasks,
     StartFails, serviceVars, failureVars, ingressVars, deliveryVars,
     streamVars, fileVars
<1>6. CASE PublishArchive
  <2>1. /\ archiveQueue' = Append(archiveQueue, Frame)
        /\ UNCHANGED <<recording, failure, recorded, pending>>
    BY <1>6 DEF PublishArchive, serviceVars, fileVars
  <2>2. ASSUME Alive
        PROVE  Run(Append(archiveQueue, Frame), recorded + Len(pending))
    <3>1. /\ archiveQueue \in Seq(Nat) /\ Numbers
          /\ Run(archiveQueue, recorded + Len(pending))
      BY <1>1, <2>2, NumbersHold DEF TypeOK, Chain
    <3>2. next = recorded + Len(pending) + Len(archiveQueue) + 1
      BY <1>1, <2>2, <1>6 DEF Total, Held, PublishArchive
    <3>3. /\ Frame = (recorded + Len(pending)) + Len(archiveQueue)
          /\ recorded + Len(pending) \in Nat /\ Frame \in Nat
      BY <3>1, <3>2 DEF Frame, Numbers
    <3> QED BY <3>1, <3>3, RunAppend
  <2> QED BY <1>1, <2>1, <2>2 DEF Chain, Alive
<1>7. CASE PublishTimesOut
  <2>1. /\ archiveQueue' = <<>>
        /\ UNCHANGED <<recording, failure, recorded, pending>>
    BY <1>7 DEF PublishTimesOut, serviceVars, fileVars
  <2> QED BY <1>1, <2>1, RunEmpty DEF Chain, Alive
<1>8. CASE Receive \/ ReceiveStops \/ PublishStream \/ PublishBlocks
           \/ PublishDisabled \/ FanoutEnds
  BY <1>1, <1>8 DEF Chain, Alive, Recorder, Ended, Attachment, Tasks, Receive,
     ReceiveStops, PublishStream, PublishBlocks, PublishDisabled, FanoutEnds,
     Frame, Fails, EnsureCleanup, WriteAfterCancel, serviceVars, failureVars,
     ingressVars, deliveryVars, streamVars, fileVars
<1>9. CASE ArchiveGets
  <2> DEFINE frames == Append(pending, Head(archiveQueue))
  <2>1. /\ archive = "get" /\ archiveQueue # <<>>
        /\ archiveQueue' = Tail(archiveQueue)
        /\ UNCHANGED <<recording, failure, recorded>>
        /\ Archives(frames) \/ pending' = frames
    BY <1>9 DEF ArchiveGets, serviceVars
  <2>2. ASSUME Alive
        PROVE  /\ Run(frames, recorded) /\ Len(frames) = Len(pending) + 1
               /\ Run(Tail(archiveQueue), recorded + Len(frames))
               /\ pending' = frames
    <3>1. /\ Run(frames, recorded) /\ Len(frames) = Len(pending) + 1
          /\ Run(Tail(archiveQueue), recorded + Len(pending) + 1)
      BY <1>1, <2>1, <2>2, ChainGets
    <3>2. pending' = frames
      BY <1>1, <2>1, <2>2 DEF Recorder, Archives
    <3>3. recorded + Len(pending) + 1 = recorded + (Len(pending) + 1)
      BY <1>1, NumbersHold DEF Numbers
    <3> QED BY <3>1, <3>2, <3>3
  <2> HIDE DEF frames
  <2> QED BY <2>1, <2>2 DEF Chain, Alive
<1>10. CASE AppendReturns
  <2>1. /\ recorded' = recorded + Len(pending) /\ pending' = <<>>
        /\ UNCHANGED <<recording, failure, archiveQueue>>
    BY <1>10 DEF AppendReturns, serviceVars
  <2>2. recorded' + Len(pending') = recorded + Len(pending)
    BY <1>1, <2>1, NumbersHold DEF Numbers
  <2> QED BY <1>1, <2>1, <2>2, RunEmpty DEF Chain, Alive
<1>11. CASE ArchiveIdles \/ ArchiveEnds \/ AppendRaises
  BY <1>1, <1>11 DEF Chain, Alive, Recorder, Ended, Attachment, Tasks,
     ArchiveIdles, ArchiveEnds, AppendRaises, Archives, Fails, EnsureCleanup,
     serviceVars, failureVars, ingressVars, deliveryVars, streamVars, fileVars
<1>12. CASE StreamGets \/ StreamIdles \/ StreamEnds
  BY <1>1, <1>12 DEF Chain, Alive, Recorder, Ended, Attachment, Tasks,
     StreamGets, StreamIdles, StreamEnds, Gap, serviceVars, failureVars,
     ingressVars, deliveryVars, streamVars, fileVars
<1>13. CASE CleanupJoins \/ CleanupWritten \/ CleanupFlushes
            \/ CleanupFlushFails \/ CleanupTimesOut
  BY <1>1, <1>13 DEF Chain, Alive, Recorder, Ended, Attachment, Tasks,
     CleanupJoins, CleanupWritten, CleanupFlushes, CleanupFlushFails,
     CleanupTimesOut, Fails, serviceVars, failureVars, ingressVars,
     deliveryVars, streamVars, fileVars
<1>14. CASE StopBegins \/ StopDrains \/ StopDrained \/ StopDrainTimesOut
            \/ StopEnds \/ StopRaises
  BY <1>1, <1>14 DEF Chain, Alive, Recorder, Ended, Attachment, Tasks,
     StopBegins, StopDrains, StopDrained, StopDrainTimesOut, StopEnds,
     StopRaises, EnsureCleanup, Fails, WriteAfterCancel, serviceVars,
     failureVars, ingressVars, deliveryVars, streamVars, fileVars
<1> QED BY <1>2, <1>3, <1>4, <1>5, <1>6, <1>7, <1>8, <1>9, <1>10, <1>11,
          <1>12, <1>13, <1>14
         DEF Next, Deliver, Consume, Cleanup, Stop

\* Every step keeps count of the frames of a recording that has not failed.
LEMMA TotalStep == ASSUME IInv, [Next]_vars PROVE Total'
<1> USE PipelineAssumption
<1>1. TypeOK /\ Tasks /\ Attachment /\ Ended /\ Recorder /\ Disk /\ Chain /\ Total /\ Numbers
  BY NumbersHold DEF IInv
<1>2. CASE UNCHANGED vars
  BY <1>1, <1>2 DEF Numbers, Total, Held, Alive, Recorder, Ended, Attachment,
     Tasks, vars, serviceVars, failureVars, ingressVars, deliveryVars,
     streamVars, fileVars
<1>3. ASSUME NEW target \in BOOLEAN, StartCapture(target) PROVE Total'
  BY <1>1, <1>3 DEF Numbers, Total, Held, Alive, Recorder, Ended, Attachment,
     Tasks, StartCapture
<1>4. ASSUME NEW c \in Captures, NEW ok \in BOOLEAN, ThreadEnds(c, ok)
      PROVE  Total'
  BY <1>1, <1>4 DEF Numbers, Total, Held, Alive, Recorder, Ended, Attachment,
     Tasks, ThreadEnds, serviceVars, failureVars, ingressVars, deliveryVars,
     streamVars, fileVars
<1>5. CASE StartFails
  BY <1>1, <1>5 DEF Numbers, Total, Held, Alive, Recorder, Ended, Attachment,
     Tasks, StartFails, serviceVars, failureVars, ingressVars, deliveryVars,
     streamVars, fileVars
<1>6. CASE Receive
  BY <1>1, <1>6 DEF Numbers, Total, Held, Alive, Recorder, Ended, Attachment,
     Tasks, Receive, serviceVars, failureVars, ingressVars, deliveryVars,
     streamVars, fileVars
<1>7. CASE ReceiveStops
  BY <1>1, <1>7 DEF Numbers, Total, Held, Alive, Recorder, Ended, Attachment,
     Tasks, ReceiveStops, serviceVars, failureVars, ingressVars, deliveryVars,
     streamVars, fileVars
<1>8. CASE PublishStream
  BY <1>1, <1>8 DEF Numbers, Total, Held, Alive, Recorder, Ended, Attachment,
     Tasks, PublishStream, Frame, serviceVars, failureVars, ingressVars,
     deliveryVars, streamVars, fileVars
<1>9. CASE PublishArchive
  <2>1. Len(archiveQueue') = Len(archiveQueue) + 1
    BY <1>1, <1>9 DEF TypeOK, PublishArchive
  <2> QED BY <1>1, <2>1, <1>9 DEF Numbers, Total, Held, Alive, PublishArchive,
             Tasks, serviceVars, ingressVars, fileVars
<1>10. CASE PublishBlocks
  BY <1>1, <1>10 DEF Numbers, Total, Held, Alive, Recorder, Ended, Attachment,
     Tasks, PublishBlocks, serviceVars, failureVars, ingressVars, deliveryVars,
     streamVars, fileVars
<1>11. CASE PublishDisabled
  BY <1>1, <1>11 DEF Numbers, Total, Held, Alive, Recorder, Ended, Attachment,
     Tasks, PublishDisabled, serviceVars, failureVars, ingressVars,
     deliveryVars, streamVars, fileVars
<1>12. CASE PublishTimesOut
  <2>1. Len(archiveQueue') = 0
    BY <1>12 DEF PublishTimesOut
  <2> QED BY <1>1, <2>1, <1>12 DEF Numbers, Total, Held, Alive, PublishTimesOut,
             Tasks, serviceVars, ingressVars, fileVars
<1>13. CASE FanoutEnds
  <2>1. /\ loop = "fanout" /\ toArchive # "pending"
        /\ loop' = IF stopping THEN "ended" ELSE "receive"
        /\ captured' = IF toArchive = "blocked" THEN captured ELSE captured + 1
        /\ toArchive' = "none"
        /\ toArchive = "blocked" => stopping
        /\ UNCHANGED <<next, recorded, recording, pending>>
    BY <1>13 DEF FanoutEnds
  <2>2. CASE toArchive = "failed"
    <3>1. failure'
      BY <2>2, <1>13 DEF FanoutEnds, Fails, failureVars
    <3> QED BY <3>1 DEF Total, Alive
  <2>3. CASE toArchive # "failed"
    <3>1. UNCHANGED <<failure, archiveQueue>>
      BY <2>3, <1>13 DEF FanoutEnds, failureVars
    <3>2. Held' = Held
      BY <2>1, <3>1 DEF Held
    <3>3. Alive => toArchive \in {"blocked", "delivered"}
      BY <1>1, <2>1, <2>3 DEF TypeOK, Delivery, Tasks, Attachment, Alive
    <3>4. Alive => /\ captured' = Held
                   /\ next - Held \in {0, 1}
                   /\ ~stopping => next = Held
      BY <1>1, <2>1, <3>3 DEF Numbers, Total, Held
    <3> QED BY <2>1, <3>1, <3>2, <3>4 DEF Total, Alive
  <2> QED BY <2>2, <2>3
<1>14. CASE ArchiveGets
  <2>1. Alive => Len(pending') = Len(pending) + 1
    BY <1>1, <1>14, ChainGets DEF ArchiveGets, Archives, Recorder
  <2>2. Alive => Len(archiveQueue') = Len(archiveQueue) - 1
    BY <1>1, <1>14, ChainGets DEF ArchiveGets
  <2>3. Alive => Held' = Held
    <3>1. recorded' = recorded
      BY <1>14 DEF ArchiveGets
    <3> QED BY <1>1, <2>1, <2>2, <3>1 DEF Numbers, Held
  <2>4. UNCHANGED <<recording, failure, toArchive, depth, next, loop, captured>>
    BY <1>14 DEF ArchiveGets, serviceVars, deliveryVars, ingressVars
  <2> QED BY <1>1, <2>3, <2>4 DEF Total, Alive
<1>15. CASE ArchiveIdles
  BY <1>1, <1>15 DEF Numbers, Total, Held, Alive, Recorder, Ended, Attachment,
     Tasks, ArchiveIdles, Archives, serviceVars, failureVars, ingressVars,
     deliveryVars, streamVars, fileVars
<1>16. CASE ArchiveEnds
  BY <1>1, <1>16 DEF Numbers, Total, Held, Alive, Recorder, Ended, Attachment,
     Tasks, ArchiveEnds, serviceVars, failureVars, ingressVars, deliveryVars,
     streamVars, fileVars
<1>17. CASE AppendReturns
  BY <1>1, <1>17 DEF Numbers, Total, Held, Alive, Recorder, Ended, Attachment,
     Tasks, AppendReturns, serviceVars, failureVars, ingressVars, deliveryVars,
     streamVars, fileVars
<1>18. CASE AppendRaises
  BY <1>1, <1>18 DEF Numbers, Total, Held, Alive, Recorder, Ended, Attachment,
     Tasks, AppendRaises, Fails, EnsureCleanup, serviceVars, failureVars,
     ingressVars, deliveryVars, streamVars, fileVars
<1>19. CASE StreamGets
  BY <1>1, <1>19 DEF Numbers, Total, Held, Alive, Recorder, Ended, Attachment,
     Tasks, StreamGets, Gap, serviceVars, failureVars, ingressVars,
     deliveryVars, streamVars, fileVars
<1>20. CASE StreamIdles
  BY <1>1, <1>20 DEF Numbers, Total, Held, Alive, Recorder, Ended, Attachment,
     Tasks, StreamIdles, serviceVars, failureVars, ingressVars, deliveryVars,
     streamVars, fileVars
<1>21. CASE StreamEnds
  BY <1>1, <1>21 DEF Numbers, Total, Held, Alive, Recorder, Ended, Attachment,
     Tasks, StreamEnds, serviceVars, failureVars, ingressVars, deliveryVars,
     streamVars, fileVars
<1>22. CASE CleanupJoins
  BY <1>1, <1>22 DEF Numbers, Total, Held, Alive, Recorder, Ended, Attachment,
     Tasks, CleanupJoins, serviceVars, failureVars, ingressVars, deliveryVars,
     streamVars, fileVars
<1>23. CASE CleanupWritten
  BY <1>1, <1>23 DEF Numbers, Total, Held, Alive, Recorder, Ended, Attachment,
     Tasks, CleanupWritten, serviceVars, failureVars, ingressVars, deliveryVars,
     streamVars, fileVars
<1>24. CASE CleanupFlushes
  BY <1>1, <1>24 DEF Numbers, Total, Held, Alive, Recorder, Ended, Attachment,
     Tasks, CleanupFlushes, serviceVars, failureVars, ingressVars, deliveryVars,
     streamVars, fileVars
<1>25. CASE CleanupFlushFails
  BY <1>1, <1>25 DEF Numbers, Total, Held, Alive, Recorder, Ended, Attachment,
     Tasks, CleanupFlushFails, Fails, serviceVars, failureVars, ingressVars,
     deliveryVars, streamVars, fileVars
<1>26. CASE CleanupTimesOut
  BY <1>1, <1>26 DEF Numbers, Total, Held, Alive, Recorder, Ended, Attachment,
     Tasks, CleanupTimesOut, Fails, serviceVars, failureVars, ingressVars,
     deliveryVars, streamVars, fileVars
<1>27. CASE StopBegins
  BY <1>1, <1>27 DEF Numbers, Total, Held, Alive, Recorder, Ended, Attachment,
     Tasks, StopBegins, serviceVars, failureVars, ingressVars, deliveryVars,
     streamVars, fileVars
<1>28. CASE StopDrains
  BY <1>1, <1>28 DEF Numbers, Total, Held, Alive, Recorder, Ended, Attachment,
     Tasks, StopDrains, serviceVars, failureVars, ingressVars, deliveryVars,
     streamVars, fileVars
<1>29. CASE StopDrained
  BY <1>1, <1>29 DEF Numbers, Total, Held, Alive, Recorder, Ended, Attachment,
     Tasks, StopDrained, EnsureCleanup, serviceVars, failureVars, ingressVars,
     deliveryVars, streamVars, fileVars
<1>30. CASE StopDrainTimesOut
  BY <1>1, <1>30 DEF Numbers, Total, Held, Alive, Recorder, Ended, Attachment,
     Tasks, StopDrainTimesOut, Fails, EnsureCleanup, WriteAfterCancel,
     serviceVars, failureVars, ingressVars, deliveryVars, streamVars, fileVars
<1>31. CASE StopEnds
  BY <1>1, <1>31 DEF Numbers, Total, Held, Alive, Recorder, Ended, Attachment,
     Tasks, StopEnds, serviceVars, failureVars, ingressVars, deliveryVars,
     streamVars, fileVars
<1>32. CASE StopRaises
  BY <1>1, <1>32 DEF Numbers, Total, Held, Alive, Recorder, Ended, Attachment,
     Tasks, StopRaises, serviceVars, failureVars, ingressVars, deliveryVars,
     streamVars, fileVars
<1> QED BY <1>2, <1>3, <1>4, <1>5, <1>6, <1>7, <1>8, <1>9, <1>10, <1>11,
          <1>12, <1>13, <1>14, <1>15, <1>16, <1>17, <1>18, <1>19, <1>20,
          <1>21, <1>22, <1>23, <1>24, <1>25, <1>26, <1>27, <1>28, <1>29,
          <1>30, <1>31, <1>32
         DEF Next, Deliver, Consume, Cleanup, Stop

\* A failure that counts what is on its way accounts for it.
LEMMA FailsAccounts ==
  ASSUME Numbers, UncommittedAccounts,
         NEW queued \in Nat, NEW rejected \in Nat, Fails(queued, rejected),
         UNCHANGED <<recording, recorded, depth>>,
         Alive => next - (recorded + queued + Len(pending) + rejected)
                    \in {0, 1, depth + 1}
  PROVE  UncommittedAccounts'
<1>1. CASE failure
  BY <1>1 DEF Fails, failureVars, UncommittedAccounts
<1>2. CASE ~failure
  <2>1. offered' = next /\ uncommitted' = queued + Len(pending) + rejected
    BY <1>2 DEF Fails
  <2>2. recorded' + uncommitted' = recorded + queued + Len(pending) + rejected
    BY <2>1 DEF Numbers
  <2>3. recording' => offered' - (recorded' + uncommitted') \in {0, 1, depth' + 1}
    BY <1>2, <2>1, <2>2 DEF Alive
  <2> QED BY <2>3 DEF UncommittedAccounts
<1> QED BY <1>1, <1>2

\* What is on its way, but for the frame under delivery, is queued or pending.
LEMMA TotalGap ==
  ASSUME TypeOK, Tasks, Attachment, Recorder, Total, Alive
  PROVE  next - (recorded + Len(archiveQueue) + Len(pending) + 0) \in {0, 1, depth + 1}
<1>1. Numbers /\ loop \in {"receive", "fanout", "ended"}
  BY NumbersHold DEF TypeOK, Recorder
<1>2. loop # "fanout" => next - Held \in {0, 1}
  BY <1>1 DEF Numbers, Total, Held
<1>3. loop = "fanout" => toArchive \in {"pending", "blocked", "delivered", "failed"}
  BY DEF TypeOK, Delivery, Tasks, Attachment, Alive
<1>4. loop = "fanout" => next - Held \in {0, 1, depth + 1}
  BY <1>1, <1>3 DEF Numbers, Total, Held
<1>5. Held = recorded + Len(archiveQueue) + Len(pending) + 0
  BY <1>1 DEF Numbers, Held
<1> QED BY <1>2, <1>4, <1>5

\* Every failure accounts for the frames it found.
LEMMA UncommittedStep == ASSUME IInv, [Next]_vars PROVE UncommittedAccounts'
<1> USE PipelineAssumption
<1>1. TypeOK /\ Tasks /\ Attachment /\ Ended /\ Recorder /\ Total /\ UncommittedAccounts /\ Numbers
  BY NumbersHold DEF IInv
<1>2. CASE UNCHANGED vars
  BY <1>1, <1>2 DEF Total, Held, Alive, Attachment, Tasks, UncommittedAccounts,
     vars, serviceVars, failureVars, ingressVars, deliveryVars, streamVars,
     fileVars
<1>3. ASSUME NEW target \in BOOLEAN, StartCapture(target) PROVE UncommittedAccounts'
  BY <1>1, <1>3 DEF Total, Held, Alive, Attachment, Tasks, UncommittedAccounts,
     StartCapture
<1>4. ASSUME NEW c \in Captures, NEW ok \in BOOLEAN, ThreadEnds(c, ok)
      PROVE  UncommittedAccounts'
  BY <1>1, <1>4 DEF Total, Held, Alive, Attachment, Tasks, UncommittedAccounts,
     ThreadEnds, serviceVars, failureVars, ingressVars, deliveryVars,
     streamVars, fileVars
<1>5. CASE StartFails
  BY <1>1, <1>5 DEF Total, Held, Alive, Attachment, Tasks, UncommittedAccounts,
     StartFails, serviceVars, failureVars, ingressVars, deliveryVars,
     streamVars, fileVars
<1>6. CASE FanoutEnds
  <2>1. CASE toArchive = "failed"
    <3>1. Fails(depth, 1) /\ UNCHANGED <<recording, recorded, depth>>
      BY <2>1, <1>6 DEF FanoutEnds
    <3>2. archiveQueue = <<>>
      BY <1>1, <2>1 DEF Attachment
    <3>3. Alive => next - (recorded + depth + Len(pending) + 1) = 0
      <4>1. Len(archiveQueue) = 0
        BY <3>2
      <4> QED BY <1>1, <2>1, <4>1 DEF Numbers, Total, Held
    <3> QED BY <1>1, <3>1, <3>3, FailsAccounts DEF Numbers
  <2>2. CASE toArchive # "failed"
    BY <1>1, <2>2, <1>6 DEF FanoutEnds, failureVars, UncommittedAccounts
  <2> QED BY <2>1, <2>2
<1>7. CASE Receive \/ ReceiveStops \/ PublishStream \/ PublishArchive
           \/ PublishBlocks \/ PublishDisabled \/ PublishTimesOut
  BY <1>1, <1>7 DEF Total, Held, Alive, Attachment, Tasks, UncommittedAccounts,
     Receive, ReceiveStops, PublishStream, PublishArchive, PublishBlocks,
     PublishDisabled, PublishTimesOut, Frame, serviceVars, failureVars,
     ingressVars, deliveryVars, streamVars, fileVars
<1>8. CASE AppendRaises
  <2>1. Fails(Len(archiveQueue), 0) /\ UNCHANGED <<recording, recorded, depth>>
    BY <1>8 DEF AppendRaises, deliveryVars, serviceVars
  <2>2. Len(archiveQueue) \in Nat
    BY <1>1 DEF Numbers
  <2>3. Alive => next - (recorded + Len(archiveQueue) + Len(pending) + 0)
                   \in {0, 1, depth + 1}
    BY <1>1, TotalGap
  <2> QED BY <1>1, <2>1, <2>2, <2>3, FailsAccounts
<1>9. CASE ArchiveGets \/ ArchiveIdles \/ ArchiveEnds \/ AppendReturns
  BY <1>1, <1>9 DEF Total, Held, Alive, Attachment, Tasks, UncommittedAccounts,
     ArchiveGets, ArchiveIdles, ArchiveEnds, AppendReturns, Archives,
     serviceVars, failureVars, ingressVars, deliveryVars, streamVars, fileVars
<1>10. CASE StreamGets \/ StreamIdles \/ StreamEnds
  BY <1>1, <1>10 DEF Total, Held, Alive, Attachment, Tasks, UncommittedAccounts,
     StreamGets, StreamIdles, StreamEnds, Gap, serviceVars, failureVars,
     ingressVars, deliveryVars, streamVars, fileVars
<1>11. CASE CleanupFlushFails
  <2>1. Fails(Len(archiveQueue), 0) /\ UNCHANGED <<recording, recorded, depth>>
    BY <1>11 DEF CleanupFlushFails, deliveryVars, serviceVars
  <2>2. Len(archiveQueue) \in Nat
    BY <1>1 DEF Numbers
  <2>3. Alive => next - (recorded + Len(archiveQueue) + Len(pending) + 0)
                   \in {0, 1, depth + 1}
    BY <1>1, TotalGap
  <2> QED BY <1>1, <2>1, <2>2, <2>3, FailsAccounts
<1>12. CASE CleanupTimesOut
  <2>1. Fails(Len(archiveQueue), 0) /\ UNCHANGED <<recording, recorded, depth>>
    BY <1>12 DEF CleanupTimesOut, deliveryVars, serviceVars
  <2>2. Len(archiveQueue) \in Nat
    BY <1>1 DEF Numbers
  <2>3. Alive => next - (recorded + Len(archiveQueue) + Len(pending) + 0)
                   \in {0, 1, depth + 1}
    BY <1>1, TotalGap
  <2> QED BY <1>1, <2>1, <2>2, <2>3, FailsAccounts
<1>13. CASE CleanupJoins \/ CleanupWritten \/ CleanupFlushes
  BY <1>1, <1>13 DEF Total, Held, Alive, Attachment, Tasks, UncommittedAccounts,
     CleanupJoins, CleanupWritten, CleanupFlushes, serviceVars, failureVars,
     ingressVars, deliveryVars, streamVars, fileVars
<1>14. CASE StopDrainTimesOut
  <2>1. Fails(Len(archiveQueue), 0) /\ UNCHANGED <<recording, recorded, depth>>
    BY <1>14 DEF StopDrainTimesOut, deliveryVars, serviceVars
  <2>2. Len(archiveQueue) \in Nat
    BY <1>1 DEF Numbers
  <2>3. Alive => next - (recorded + Len(archiveQueue) + Len(pending) + 0)
                   \in {0, 1, depth + 1}
    BY <1>1, TotalGap
  <2> QED BY <1>1, <2>1, <2>2, <2>3, FailsAccounts
<1>15. CASE StopBegins \/ StopDrains \/ StopDrained \/ StopEnds \/ StopRaises
  BY <1>1, <1>15 DEF Total, Held, Alive, Attachment, Tasks, UncommittedAccounts,
     StopBegins, StopDrains, StopDrained, StopEnds, StopRaises, EnsureCleanup,
     serviceVars, failureVars, ingressVars, deliveryVars, streamVars, fileVars
<1> QED BY <1>2, <1>3, <1>4, <1>5, <1>6, <1>7, <1>8, <1>9, <1>10, <1>11,
          <1>12, <1>13, <1>14, <1>15
         DEF Next, Deliver, Consume, Cleanup, Stop

\* It leaves it as it is,
StreamStands ==
  /\ UNCHANGED <<streamQueue, dropped, last, seen, gaps>>
  /\ Published' = Published

\* starts it anew,
StreamResets ==
  /\ streamQueue' = <<>>
  /\ dropped' = 0
  /\ last' = -1
  /\ seen' = {}
  /\ gaps' = 0
  /\ Published' = 0

\* or is one of two actions.
StreamChange == StreamStands \/ StreamResets \/ PublishStream \/ StreamGets

\* Every step leaves the stream alone, starts it anew, or is one of two.
LEMMA StreamMoves == ASSUME IInv, [Next]_vars PROVE StreamChange
<1> USE PipelineAssumption
<1>1. Tasks /\ next \in Nat
  BY DEF IInv, TypeOK
<1>2. CASE UNCHANGED vars
  BY <1>1, <1>2 DEF StreamChange, StreamStands, Tasks, Published, vars,
     serviceVars, failureVars, ingressVars, deliveryVars, streamVars, fileVars
<1>3. ASSUME NEW target \in BOOLEAN, StartCapture(target) PROVE StreamChange
  BY <1>3 DEF StreamChange, StreamResets, Published, StartCapture
<1>4. ASSUME NEW c \in Captures, NEW ok \in BOOLEAN, ThreadEnds(c, ok)
      PROVE  StreamChange
  BY <1>1, <1>4 DEF StreamChange, StreamStands, Tasks, Published, ThreadEnds,
     serviceVars, failureVars, ingressVars, deliveryVars, streamVars, fileVars
<1>5. CASE StartFails
  BY <1>1, <1>5 DEF StreamChange, StreamResets, Published, StartFails, Tasks
<1>6. CASE PublishStream
  BY <1>6 DEF StreamChange
<1>7. CASE Receive \/ ReceiveStops \/ PublishArchive \/ PublishBlocks
           \/ PublishDisabled \/ PublishTimesOut \/ FanoutEnds
  BY <1>1, <1>7 DEF StreamChange, StreamStands, Tasks, Published, Receive,
     ReceiveStops, PublishArchive, PublishBlocks, PublishDisabled,
     PublishTimesOut, FanoutEnds, Frame, serviceVars, failureVars, ingressVars,
     deliveryVars, streamVars, fileVars
<1>8. CASE ArchiveGets \/ ArchiveIdles \/ ArchiveEnds \/ AppendReturns
           \/ AppendRaises
  BY <1>1, <1>8 DEF StreamChange, StreamStands, Tasks, Published, ArchiveGets,
     ArchiveIdles, ArchiveEnds, AppendReturns, AppendRaises, serviceVars,
     failureVars, ingressVars, deliveryVars, streamVars, fileVars
<1>9. CASE StreamGets
  BY <1>9 DEF StreamChange
<1>10. CASE StreamIdles \/ StreamEnds
  BY <1>1, <1>10 DEF StreamChange, StreamStands, Tasks, Published, StreamIdles,
     StreamEnds, serviceVars, failureVars, ingressVars, deliveryVars,
     streamVars, fileVars
<1>11. CASE CleanupJoins \/ CleanupWritten \/ CleanupFlushes
            \/ CleanupFlushFails \/ CleanupTimesOut
  BY <1>1, <1>11 DEF StreamChange, StreamStands, Tasks, Published, CleanupJoins,
     CleanupWritten, CleanupFlushes, CleanupFlushFails, CleanupTimesOut,
     serviceVars, failureVars, ingressVars, deliveryVars, streamVars,
     fileVars
<1>12. CASE StopBegins \/ StopDrains \/ StopDrained \/ StopDrainTimesOut
            \/ StopEnds \/ StopRaises
  BY <1>1, <1>12 DEF StreamChange, StreamStands, Tasks, Published, StopBegins,
     StopDrains, StopDrained, StopDrainTimesOut, StopEnds, StopRaises,
     serviceVars, failureVars, ingressVars, deliveryVars, streamVars, fileVars
<1> QED BY <1>2, <1>3, <1>4, <1>5, <1>6, <1>7, <1>8, <1>9, <1>10, <1>11,
          <1>12
         DEF Next, Deliver, Consume, Cleanup, Stop

\* A frame is appended, or takes the place of the oldest, which is counted.
LEMMA StreamPublished ==
  ASSUME TypeOK, Stream, Counted, PublishStream
  PROVE  Stream' /\ Counted'
<1> DEFINE first == Published - Len(streamQueue)
<1>1. /\ streamQueue \in Seq(Nat) /\ Len(streamQueue) \in Nat
      /\ next \in Nat /\ dropped \in Nat /\ last \in Int
      /\ StreamCapacity \in Nat \ {0}
  BY PipelineAssumption, LenProperties DEF TypeOK
<1>2. /\ Published = next - 1 /\ Published' = Published + 1 /\ Frame = Published
      /\ UNCHANGED <<last, seen, gaps>>
  BY <1>1 DEF PublishStream, Published, Frame, ingressVars
<1>3. /\ first \in Nat /\ last < first /\ Run(streamQueue, first)
      /\ dropped + Cardinality(seen) + Len(streamQueue) = Published
      /\ Frame \in Nat
  BY <1>1, <1>2 DEF Stream, Counted
<1>4. Cardinality(seen) \in Nat
  BY FS_CardinalityType DEF Counted
<1>5. UNCHANGED <<Missing, Cardinality(seen)>>
  BY <1>2 DEF Missing
<1>6. CASE Len(streamQueue) = StreamCapacity
  <2>1. streamQueue' = Append(Tail(streamQueue), Frame) /\ dropped' = dropped + 1
    BY <1>6 DEF PublishStream
  <2>2. streamQueue # <<>>
    <3>1. Len(streamQueue) # 0
      BY <1>1, <1>6
    <3> QED BY <3>1
  <2>3. /\ Tail(streamQueue) \in Seq(Nat)
        /\ Len(Tail(streamQueue)) = Len(streamQueue) - 1
        /\ Run(Tail(streamQueue), first + 1)
    <3> HIDE DEF first
    <3> QED BY <1>1, <1>3, <2>2, RunTail
  <2>4. first + 1 \in Nat /\ Frame = (first + 1) + Len(Tail(streamQueue))
    BY <1>1, <1>2, <1>3, <2>3
  <2>5. /\ Len(streamQueue') = Len(Tail(streamQueue)) + 1
        /\ Run(streamQueue', first + 1)
    <3> HIDE DEF first
    <3> QED BY <1>3, <2>1, <2>3, <2>4, RunAppend
  <2>6. /\ Len(streamQueue') = Len(streamQueue)
        /\ Published' - Len(streamQueue') = first + 1
    BY <1>1, <1>2, <2>3, <2>5
  <2>7. Stream'
    <3>1. Len(streamQueue') <= Published' /\ last' < Published' - Len(streamQueue')
      BY <1>1, <1>2, <1>3, <2>6
    <3>2. Run(streamQueue', Published' - Len(streamQueue'))
      BY <2>5, <2>6
    <3> QED BY <3>1, <3>2 DEF Stream, Run
  <2>8. dropped' + Cardinality(seen) + Len(streamQueue') = Published'
    <3>1. dropped' = dropped + 1 /\ Len(streamQueue') = Len(streamQueue)
      BY <2>1, <2>6
    <3>2. /\ dropped \in Nat /\ Cardinality(seen) \in Nat /\ Len(streamQueue) \in Nat
          /\ dropped + Cardinality(seen) + Len(streamQueue) = Published
          /\ Published' = Published + 1
      BY <1>1, <1>2, <1>3, <1>4
    <3> HIDE DEF first
    <3> QED BY <3>1, <3>2
  <2> QED BY <1>2, <1>5, <2>7, <2>8 DEF Counted
<1>7. CASE Len(streamQueue) # StreamCapacity
  <2>1. streamQueue' = Append(streamQueue, Frame) /\ dropped' = dropped
    BY <1>7 DEF PublishStream
  <2>2. Frame = first + Len(streamQueue)
    BY <1>1, <1>2
  <2>3. /\ Len(streamQueue') = Len(streamQueue) + 1
        /\ Run(streamQueue', first)
    <3> HIDE DEF first
    <3> QED BY <1>1, <1>3, <2>1, <2>2, RunAppend
  <2>4. Published' - Len(streamQueue') = first
    BY <1>1, <1>2, <2>3
  <2>5. Stream'
    <3>1. Len(streamQueue') <= Published' /\ last' < Published' - Len(streamQueue')
      BY <1>1, <1>2, <1>3, <2>3, <2>4
    <3>2. Run(streamQueue', Published' - Len(streamQueue'))
      BY <2>3, <2>4
    <3> QED BY <3>1, <3>2 DEF Stream, Run
  <2>6. dropped' + Cardinality(seen) + Len(streamQueue') = Published'
    <3>1. dropped' = dropped /\ Len(streamQueue') = Len(streamQueue) + 1
      BY <2>1, <2>3
    <3>2. /\ dropped \in Nat /\ Cardinality(seen) \in Nat /\ Len(streamQueue) \in Nat
          /\ dropped + Cardinality(seen) + Len(streamQueue) = Published
          /\ Published' = Published + 1
      BY <1>1, <1>2, <1>3, <1>4
    <3> HIDE DEF first
    <3> QED BY <3>1, <3>2
  <2> QED BY <1>2, <1>5, <2>5, <2>6 DEF Counted
<1> QED BY <1>6, <1>7

\* A frame that comes after all others adds those between to the missing.
LEMMA MissingGrows ==
  ASSUME seen \in SUBSET Nat, last \in Nat, last \in seen,
         \A f \in seen : f <= last,
         NEW frame \in Nat, last < frame,
         seen' = seen \cup {frame}, last' = frame
  PROVE  /\ IsFiniteSet(Missing)
         /\ Cardinality(Missing') = Cardinality(Missing) + (frame - last - 1)
<1> DEFINE Between == (last + 1) .. (frame - 1)
<1>1. Missing' = Missing \cup Between
  <2>1. ASSUME NEW f \in Missing'
        PROVE  f \in Missing \cup Between
    <3>1. f \in 0..frame /\ f \notin seen /\ f # frame
      BY <2>1 DEF Missing
    <3>2. PICK a \in seen \cup {frame}, b \in seen \cup {frame} : a < f /\ f < b
      BY <2>1 DEF Missing
    <3>3. CASE f < last
      <4>1. a \in seen
        BY <3>1, <3>2, <3>3
      <4> QED BY <3>1, <3>2, <3>3, <4>1 DEF Missing
    <3>4. CASE f > last
      BY <3>1, <3>4
    <3>5. f # last
      BY <3>1
    <3> QED BY <3>1, <3>3, <3>4, <3>5
  <2>2. ASSUME NEW f \in Missing
        PROVE  f \in Missing'
    <3>1. f \in 0..last /\ f \notin seen
      BY <2>2 DEF Missing
    <3>2. PICK a \in seen, b \in seen : a < f /\ f < b
      BY <2>2 DEF Missing
    <3>3. f \in 0..frame /\ f \notin seen \cup {frame}
      BY <3>1
    <3> QED BY <3>2, <3>3 DEF Missing
  <2>3. ASSUME NEW f \in Between
        PROVE  f \in Missing'
    <3>1. f \in 0..frame /\ f > last /\ f < frame
      BY <2>3
    <3>2. f \notin seen \cup {frame}
      BY <3>1
    <3> QED BY <3>1, <3>2 DEF Missing
  <2> QED BY <2>1, <2>2, <2>3
<1>2. IsFiniteSet(Missing)
  <2>1. IsFiniteSet(0..last)
    BY FS_Interval
  <2>2. Missing \in SUBSET (0..last)
    BY DEF Missing
  <2> QED BY <2>1, <2>2, FS_Subset
<1>3. IsFiniteSet(Between) /\ Cardinality(Between) = frame - last - 1
  <2>1. last + 1 \in Int /\ frame - 1 \in Int
    OBVIOUS
  <2>2. /\ IsFiniteSet(Between)
        /\ Cardinality(Between) =
             IF last + 1 > frame - 1 THEN 0 ELSE frame - 1 - (last + 1) + 1
    BY <2>1, FS_Interval
  <2> QED BY <2>2
<1>4. Missing \cap Between = {}
  BY DEF Missing
<1>5. Cardinality(Missing \cap Between) = 0
  BY <1>4, FS_EmptySet
<1>6. Cardinality(Missing) \in Nat
  BY <1>2, FS_CardinalityType
<1>7. Cardinality(Missing') =
        Cardinality(Missing) + Cardinality(Between) - Cardinality(Missing \cap Between)
  <2> HIDE DEF Between
  <2> QED BY <1>1, <1>2, <1>3, FS_Union
<1> HIDE DEF Between
<1> QED BY <1>2, <1>3, <1>5, <1>6, <1>7

\* A frame the consumer gets comes after all others it got.
LEMMA StreamGot ==
  ASSUME TypeOK, Stream, Counted, StreamGets, Published \in Nat
  PROVE  Stream' /\ Counted'
<1> DEFINE frame == Head(streamQueue)
<1>1. /\ streamQueue # <<>> /\ streamQueue' = Tail(streamQueue)
      /\ gaps' = gaps + Gap(frame)
      /\ last' = frame
      /\ seen' = seen \cup {frame}
      /\ dropped' = dropped
    BY DEF StreamGets
<1>2. Published' = Published
  BY DEF StreamGets, Published, ingressVars, deliveryVars
<1>3. /\ streamQueue \in Seq(Nat) /\ Len(streamQueue) \in Nat
      /\ gaps \in Nat /\ dropped \in Nat /\ last \in Nat \cup {-1}
      /\ seen \in SUBSET Nat
  BY LenProperties DEF TypeOK
<1>4. /\ Published - Len(streamQueue) \in Nat
      /\ Run(streamQueue, Published - Len(streamQueue))
      /\ last < Published - Len(streamQueue)
  BY <1>3 DEF Stream
<1>5. /\ frame = Published - Len(streamQueue)
      /\ Tail(streamQueue) \in Seq(Nat)
      /\ Len(Tail(streamQueue)) = Len(streamQueue) - 1
      /\ Run(Tail(streamQueue), Published - Len(streamQueue) + 1)
  BY <1>1, <1>3, <1>4, RunTail
<1> HIDE DEF frame
<1>6. frame \in Nat /\ last < frame /\ Len(streamQueue') = Len(streamQueue) - 1
  BY <1>1, <1>4, <1>5
<1>7. Stream'
  <2>1. Published' - Len(streamQueue') = Published - Len(streamQueue) + 1
    BY <1>2, <1>3, <1>6
  <2>2. Run(streamQueue', Published' - Len(streamQueue'))
    BY <1>1, <1>5, <2>1
  <2>3. Len(streamQueue') <= Published' /\ last' < Published' - Len(streamQueue')
    BY <1>1, <1>2, <1>3, <1>4, <1>5, <1>6
  <2> QED BY <2>2, <2>3 DEF Stream, Run
<1>8. /\ IsFiniteSet(seen) /\ Cardinality(seen) \in Nat
      /\ \A f \in seen : f <= last
      /\ Cardinality(seen) + gaps <= last + 1
      /\ dropped + Cardinality(seen) + Len(streamQueue) = Published
  BY FS_CardinalityType DEF Counted
<1>9. frame \notin seen
  BY <1>3, <1>6, <1>8
<1>10. IsFiniteSet(seen') /\ Cardinality(seen') = Cardinality(seen) + 1
  BY <1>1, <1>8, <1>9, FS_AddElement
<1>11. \A f \in seen' : f <= last'
  BY <1>1, <1>3, <1>6, <1>8
<1>12. dropped' + Cardinality(seen') + Len(streamQueue') = Published'
  BY <1>1, <1>2, <1>3, <1>6, <1>8, <1>10
<1>13. last' # -1 /\ last' \in seen'
  BY <1>1, <1>6
<1>14. CASE last = -1
  <2>1. seen = {} /\ gaps = 0 /\ gaps' = 0
    BY <1>1, <1>14 DEF Counted, Gap
  <2>2. Missing' = {}
    BY <1>1, <2>1, <1>6 DEF Missing
  <2>3. Cardinality(Missing') = 0
    BY <2>2, FS_EmptySet
  <2>4. Cardinality(seen') + gaps' <= last' + 1
    <3>1. Cardinality(seen) = 0
      BY <2>1, FS_EmptySet
    <3> QED BY <1>1, <1>6, <1>10, <2>1, <3>1
  <2> QED BY <1>7, <1>10, <1>11, <1>12, <1>13, <2>1, <2>3, <2>4 DEF Counted
<1>15. CASE last # -1
  <2>1. last \in Nat /\ last \in seen /\ gaps = Cardinality(Missing)
    BY <1>3, <1>15 DEF Counted
  <2>2. gaps' = gaps + (frame - last - 1)
    BY <1>1, <1>15 DEF Gap
  <2>3. Cardinality(Missing') = Cardinality(Missing) + (frame - last - 1)
    BY <1>1, <1>3, <1>6, <1>8, <2>1, MissingGrows
  <2>4. gaps' = Cardinality(Missing')
    BY <2>1, <2>2, <2>3
  <2>5. Cardinality(seen') + gaps' <= last' + 1
    <3>1. Cardinality(seen') = Cardinality(seen) + 1 /\ last' = frame
      BY <1>1, <1>10
    <3>2. /\ Cardinality(seen) \in Nat /\ gaps \in Nat /\ frame \in Nat
          /\ Cardinality(seen) + gaps <= last + 1
      BY <1>3, <1>6, <1>8
    <3> QED BY <2>1, <2>2, <3>1, <3>2
  <2> QED BY <1>7, <1>10, <1>11, <1>12, <1>13, <2>4, <2>5 DEF Counted
<1> QED BY <1>14, <1>15

\* Every step keeps the frames of the stream accounted for.
LEMMA StreamStep == ASSUME IInv, [Next]_vars PROVE Stream' /\ Counted'
<1>1. TypeOK /\ Tasks /\ Stream /\ Counted /\ StreamChange
  BY StreamMoves DEF IInv
<1>2. CASE StreamStands
  BY <1>1, <1>2 DEF StreamStands, Stream, Counted, Missing, Run
<1>3. CASE StreamResets
  <2>1. /\ streamQueue' = <<>> /\ Len(streamQueue') = 0 /\ Published' = 0
        /\ dropped' = 0 /\ last' = -1 /\ seen' = {} /\ gaps' = 0
    BY <1>3 DEF StreamResets
  <2>2. Stream'
    BY <2>1 DEF Stream, Run
  <2>3. IsFiniteSet(seen') /\ Cardinality(seen') = 0
    BY <2>1, FS_EmptySet
  <2> QED BY <2>1, <2>2, <2>3 DEF Counted
<1>4. CASE PublishStream
  BY <1>1, <1>4, StreamPublished
<1>5. CASE StreamGets
  <2>1. Published \in Nat
    BY <1>1 DEF TypeOK, Tasks, Published
  <2> QED BY <1>1, <1>5, <2>1, StreamGot
<1> QED BY <1>1, <1>2, <1>3, <1>4, <1>5 DEF StreamChange

--------------------------------------------------------------------------------
(* The invariant. *)

\* The invariant holds initially.
LEMMA InitInv == Init => IInv
<1> SUFFICES ASSUME Init PROVE IInv
  OBVIOUS
<1>1. TypeOK
  <2>1. <<>> \in Seq(Nat)
    BY RunEmpty
  <2>2. /\ thread \in [Captures -> Seq(Nat)]
        /\ content \in [Captures -> Seq(Nat)]
    BY <2>1 DEF Init
  <2>3. /\ archiveQueue \in Seq(Nat) /\ streamQueue \in Seq(Nat)
        /\ pending \in Seq(Nat) /\ batch \in Seq(Nat)
    BY <2>1 DEF Init
  <2>4. capture \in 0..MaxCaptures /\ file \in 0..MaxCaptures
    BY PipelineAssumption DEF Init
  <2> QED BY <2>2, <2>3, <2>4 DEF Init, TypeOK, Delivery
<1>2. Fresh
  BY DEF Init, Fresh
<1>3. Runs
  <2> SUFFICES ASSUME NEW c \in Captures
               PROVE  Run(content[c], 0) /\ Run(thread[c], Len(content[c]))
    BY DEF Runs
  <2>1. content[c] = <<>> /\ thread[c] = <<>>
    BY DEF Init
  <2> QED BY <2>1, RunEmpty
<1>4. Tasks
  BY DEF Init, Tasks
<1>5. Attachment
  BY DEF Init, Attachment
<1>6. Ended
  BY DEF Init, Ended
<1>7. ~Alive /\ recState # "recording" /\ archive # "append" /\ ~failure
  BY DEF Init, Alive
<1>8. Recorder /\ Disk /\ Chain /\ Total /\ UncommittedAccounts
  BY <1>7 DEF Recorder, Disk, Chain, Total, UncommittedAccounts
<1>9. streamQueue = <<>> /\ Len(streamQueue) = 0 /\ Published = 0
  BY DEF Init, Published
<1>10. /\ dropped = 0 /\ last = -1 /\ seen = {} /\ gaps = 0
  BY DEF Init
<1>11. Stream
  BY <1>9, <1>10 DEF Stream, Run
<1>12. Counted
  <2>1. IsFiniteSet(seen) /\ Cardinality(seen) = 0
    BY <1>10, FS_EmptySet
  <2> QED BY <1>9, <1>10, <2>1 DEF Counted
<1> QED BY <1>1, <1>2, <1>3, <1>4, <1>5, <1>6, <1>8, <1>11, <1>12 DEF IInv

\* The invariant holds always.
LEMMA IInvariant == Spec => []IInv
<1>1. IInv /\ [Next]_vars => IInv'
  BY TypeStep, FreshStep, RunsStep, TasksStep, AttachmentStep, EndedStep,
     RecorderStep, DiskStep, ChainStep, TotalStep, UncommittedStep, StreamStep
     DEF IInv
<1> QED BY InitInv, <1>1, PTL DEF Spec

--------------------------------------------------------------------------------
(* The properties, for every value of the constants. *)

\* The state keeps its type.
THEOREM TypeCorrect == Spec => []TypeOK
<1>1. IInv => TypeOK
  BY DEF IInv
<1> QED BY <1>1, IInvariant, PTL

\* A file holds the frames of its capture from the first on, in order and
\* without a gap, whatever a thread abandoned by stop still writes to it.
THEOREM FilesArePrefixes == Spec => []FileIsPrefix
<1>1. IInv => FileIsPrefix
  <2> SUFFICES ASSUME IInv, NEW c \in Captures,
                      NEW i \in 1..Len(content[c] \o thread[c])
               PROVE  (content[c] \o thread[c])[i] = i - 1
    BY DEF FileIsPrefix
  <2>1. /\ content[c] \in Seq(Nat) /\ thread[c] \in Seq(Nat)
        /\ Run(content[c], 0) /\ Run(thread[c], Len(content[c]))
    BY DEF IInv, TypeOK, Runs
  <2>2. Run(thread[c], 0 + Len(content[c]))
    <3>1. Len(content[c]) = 0 + Len(content[c])
      BY <2>1, LenProperties
    <3> QED BY <2>1, <3>1
  <2>3. Run(content[c] \o thread[c], 0) /\ content[c] \o thread[c] \in Seq(Nat)
    BY <2>1, <2>2, RunConcat
  <2>4. (content[c] \o thread[c])[i] = 0 + i - 1
    BY <2>3 DEF Run
  <2> QED BY <2>4
<1> QED BY <1>1, IInvariant, PTL

\* stop_capture returns only once every frame that was counted is recorded,
\* or the recording has failed.
THEOREM CleanStops == Spec => []CleanStopIsWhole
<1>1. IInv => CleanStopIsWhole
  <2> SUFFICES ASSUME IInv, capture # 0, ~session, Alive
               PROVE  Len(content[capture]) = captured /\ recorded = captured
    BY DEF CleanStopIsWhole, Alive
  <2>1. archive # "append" /\ loop = "ended"
    BY DEF IInv, Tasks, Recorder
  <2>2. archiveQueue = <<>> /\ pending = <<>>
    BY DEF IInv, Ended, Alive
  <2>3. recorded \in Nat /\ Held = recorded
    <3>1. recorded \in Nat
      BY DEF IInv, TypeOK
    <3>2. Len(archiveQueue) = 0 /\ Len(pending) = 0
      BY <2>2
    <3> QED BY <3>1, <3>2 DEF Held
  <2>4. captured = Held
    BY <2>1 DEF IInv, Total
  <2>5. Len(content[capture]) = recorded
    BY <2>1 DEF IInv, Disk
  <2> QED BY <2>3, <2>4, <2>5
<1> QED BY <1>1, IInvariant, PTL

\* What the failure of a recording reports as uncommitted is what was offered
\* and not recorded, up to the frame that was being offered.
THEOREM FailuresAccount == Spec => []UncommittedAccounts
<1>1. IInv => UncommittedAccounts
  BY DEF IInv
<1> QED BY <1>1, IInvariant, PTL

\* No delivery finds an attached subscriber disabled: the capture loop has no
\* handler for it.
THEOREM LoopSurvives == Spec => []CaptureLoopSurvives
<1>1. IInv => CaptureLoopSurvives
  BY DEF IInv, Attachment, CaptureLoopSurvives
<1> QED BY <1>1, IInvariant, PTL

\* The stream consumer counts exactly the frames it missed, and missed no
\* frame its queue did not drop.
THEOREM GapsCount == Spec => []GapsAreCounted
<1>1. IInv => GapsAreCounted
  <2> SUFFICES ASSUME IInv, seen # {}
               PROVE  /\ gaps = Cardinality({f \in 0..next : f \notin seen
                                   /\ \E a, b \in seen : a < f /\ f < b})
                      /\ gaps <= dropped
    BY DEF GapsAreCounted
  <2>1. /\ next \in Nat /\ dropped \in Nat /\ gaps \in Nat
        /\ last \in Nat \cup {-1} /\ seen \in SUBSET Nat
        /\ Len(streamQueue) \in Nat /\ Published \in {next, next - 1}
    BY LenProperties DEF IInv, TypeOK, Published
  <2>2. /\ IsFiniteSet(seen) /\ last # -1 /\ gaps = Cardinality(Missing)
        /\ \A f \in seen : f <= last
        /\ Cardinality(seen) + gaps <= last + 1
        /\ dropped + Cardinality(seen) + Len(streamQueue) = Published
        /\ last < Published - Len(streamQueue)
    BY DEF IInv, Counted, Stream
  <2>3. Cardinality(seen) \in Nat
    BY <2>2, FS_CardinalityType
  <2>4. gaps <= dropped
    BY <2>1, <2>2, <2>3
  <2>5. last \in Nat /\ last <= next
    BY <2>1, <2>2
  <2>6. {f \in 0..next : f \notin seen /\ \E a, b \in seen : a < f /\ f < b} = Missing
    <3>1. ASSUME NEW f \in 0..next, NEW b \in seen, f < b
          PROVE  f \in 0..last
      BY <2>1, <2>2, <2>5, <3>1
    <3>2. ASSUME NEW f \in 0..last
          PROVE  f \in 0..next
      BY <2>1, <2>5
    <3> QED BY <3>1, <3>2 DEF Missing
  <2> QED BY <2>2, <2>4, <2>6
<1> QED BY <1>1, IInvariant, PTL

\* What a step may not do once the recording has failed.
Untouched ==
  failure /\ failure' /\ capture' = capture =>
    /\ recorded' = recorded
    /\ \A c \in Captures : thread[c] = <<>> => thread'[c] = <<>>

\* Once the recording has failed, no step begins a write or counts one.
LEMMA UntouchedStep == ASSUME IInv, [Next]_vars PROVE Untouched
<1> USE PipelineAssumption
<1>1. TypeOK /\ Attachment
  BY DEF IInv
<1>2. CASE UNCHANGED vars
  BY <1>1, <1>2 DEF Untouched, vars, serviceVars, failureVars, ingressVars,
     deliveryVars, streamVars, fileVars
<1>3. ASSUME NEW target \in BOOLEAN, StartCapture(target) PROVE Untouched
  BY <1>1, <1>3 DEF TypeOK, Untouched, StartCapture
<1>4. ASSUME NEW c \in Captures, NEW ok \in BOOLEAN, ThreadEnds(c, ok)
      PROVE  Untouched
  <2>1. recorded' = recorded /\ thread' = [thread EXCEPT ![c] = <<>>]
    BY <1>4 DEF ThreadEnds
  <2>2. ASSUME NEW d \in Captures, thread[d] = <<>>
        PROVE  thread'[d] = <<>>
    BY <1>1, <2>1, <2>2 DEF TypeOK
  <2> QED BY <2>1, <2>2 DEF Untouched
<1>5. CASE StartFails
  BY <1>1, <1>5 DEF TypeOK, Untouched, StartFails
<1>6. CASE Receive \/ ReceiveStops \/ PublishStream \/ PublishArchive
           \/ PublishBlocks \/ PublishDisabled \/ PublishTimesOut \/ FanoutEnds
  BY <1>1, <1>6 DEF Untouched, Receive, ReceiveStops, PublishStream,
     PublishArchive, PublishBlocks, PublishDisabled, PublishTimesOut,
     FanoutEnds, serviceVars, failureVars, ingressVars, deliveryVars,
     streamVars, fileVars
<1>7. CASE ArchiveGets
  <2>1. archive = "get"
    BY <1>7 DEF ArchiveGets
  <2> QED BY <1>1, <2>1 DEF Attachment, Untouched
<1>8. CASE ArchiveIdles
  <2>1. archive = "get"
    BY <1>8 DEF ArchiveIdles
  <2> QED BY <1>1, <2>1 DEF Attachment, Untouched
<1>9. CASE AppendReturns
  <2>1. archive = "append"
    BY <1>9 DEF AppendReturns
  <2> QED BY <1>1, <2>1 DEF Attachment, Untouched
<1>10. CASE ArchiveEnds \/ AppendRaises
  BY <1>1, <1>10 DEF Untouched, ArchiveEnds, AppendRaises, serviceVars,
     failureVars, ingressVars, deliveryVars, streamVars, fileVars
<1>11. CASE StreamGets \/ StreamIdles \/ StreamEnds
  BY <1>1, <1>11 DEF Untouched, StreamGets, StreamIdles, StreamEnds,
     serviceVars, failureVars, ingressVars, deliveryVars, streamVars, fileVars
<1>12. CASE CleanupJoins \/ CleanupWritten \/ CleanupFlushes
            \/ CleanupFlushFails \/ CleanupTimesOut
  BY <1>1, <1>12 DEF Untouched, CleanupJoins, CleanupWritten, CleanupFlushes,
     CleanupFlushFails, CleanupTimesOut, serviceVars, failureVars,
     ingressVars, deliveryVars, streamVars, fileVars
<1>13. CASE StopBegins \/ StopDrains \/ StopDrained \/ StopDrainTimesOut
            \/ StopEnds \/ StopRaises
  BY <1>1, <1>13 DEF Untouched, StopBegins, StopDrains, StopDrained,
     StopDrainTimesOut, StopEnds, StopRaises, serviceVars, failureVars,
     ingressVars, deliveryVars, streamVars, fileVars
<1> QED BY <1>2, <1>3, <1>4, <1>5, <1>6, <1>7, <1>8, <1>9, <1>10, <1>11,
          <1>12, <1>13
         DEF Next, Deliver, Consume, Cleanup, Stop

\* Once the recording has failed no further batch goes to the file, and none
\* that was under way is counted.
THEOREM RecordingIsOver == Spec => NothingRecordedAfterFailure
<1>1. IInv /\ [Next]_vars => [failure /\ failure' /\ capture' = capture =>
         /\ recorded' = recorded
         /\ \A c \in Captures : thread[c] = <<>> => thread'[c] = <<>>]_vars
  BY UntouchedStep DEF Untouched
<1> QED BY <1>1, IInvariant, PTL DEF Spec, NothingRecordedAfterFailure


\* A recording is a prefix of its capture, and all of it after a clean stop.
THEOREM WholeRecordings == Spec => []RecordingIsWhole
BY FilesArePrefixes, CleanStops, PTL DEF RecordingIsWhole

\* Every loss is counted.
THEOREM LossCounts == Spec => []LossIsCounted
BY GapsCount, FailuresAccount, PTL DEF LossIsCounted
================================================================================
