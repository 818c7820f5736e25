------------------------------ MODULE DesktopProofs ------------------------------
(***************************************************************************)
(* Theorems about the desktop's two stores of live data, for every value   *)
(* of the constants: RealtimeStream in the first part, and WorkspaceDecode *)
(* in the second.                                                          *)
(***************************************************************************)
EXTENDS RealtimeStream, WorkspaceDecode, FiniteSetTheorems, SequenceTheorems,
        WellFoundedInduction, TLAPS

Connections == {"idle", "connecting", "open", "retrying", "closed", "unsupported"}
Events == {"open", "error", "close"}

\* The types of the store and of the pairs; those of batches and of views are
\* in ChannelOK and ViewsOK below.
PipelineType ==
  /\ supported \in BOOLEAN
  /\ listeners \in 0..MaxListeners /\ subscribes \in 0..MaxSubscribes
  /\ connection \in Connections
  /\ heard \in Pairs \cup {NoPair} /\ current \in Pairs \cup {NoPair}
  /\ attempts \in 0..Retries /\ timer \in BOOLEAN
  /\ socket \in [Pairs -> {"none", "connecting", "open", "closed"}]
  /\ events \in [Pairs -> SUBSET Events]
  /\ worker \in [Pairs -> BOOLEAN]
  /\ flush \in [Pairs -> BOOLEAN]
-----------------------------------------------------------------------------
(***************************************************************************)
(* The pipeline.                                                           *)
(***************************************************************************)
\* Closing leaves no live socket and no running worker.
LEMMA Closed ==
  ASSUME PipelineType, OnePipeline, NEW left \in [Pairs -> SUBSET Events],
         ClosePair(left)
  PROVE  /\ socket' \in [Pairs -> {"none", "connecting", "open", "closed"}]
         /\ events' \in [Pairs -> SUBSET Events]
         /\ worker' \in [Pairs -> BOOLEAN] /\ flush' \in [Pairs -> BOOLEAN]
         /\ current' = NoPair /\ heard' = NoPair
         /\ \A p \in Pairs : ~worker'[p] /\ socket'[p] \notin {"connecting", "open"}
<1>1. CASE current = NoPair
  BY <1>1, StreamAssumption, ViewAssumption DEF ClosePair, PipelineType, OnePipeline, workerVars
<1>2. CASE current # NoPair
  <2>1. current \in Pairs
    BY <1>2 DEF PipelineType
  <2>2. /\ socket' = [socket EXCEPT ![current] = "closed"]
        /\ worker' = [worker EXCEPT ![current] = FALSE]
        /\ flush' = [flush EXCEPT ![current] = FALSE]
        /\ current' = NoPair /\ heard' = NoPair
    BY <1>2 DEF ClosePair
  <2>3. events' \in [Pairs -> SUBSET Events]
    <3>1. \/ events' = left
          \/ events' = [left EXCEPT ![current] = left[current] \cup {"close"}]
      BY <1>2 DEF ClosePair
    <3>2. left[current] \cup {"close"} \in SUBSET Events
      BY <2>1 DEF Events
    <3>3. QED
      BY <2>1, <3>1, <3>2
  <2>4. QED
    BY <2>1, <2>2, <2>3 DEF PipelineType, OnePipeline
<1>3. QED
  BY <1>1, <1>2

\* A store without a pair opens one, or finds the environment unsupported.
LEMMA Opened ==
  ASSUME PipelineType, OnePipeline, current = NoPair, Open
  PROVE  /\ socket' \in [Pairs -> {"none", "connecting", "open", "closed"}]
         /\ events' = events
         /\ worker' \in [Pairs -> BOOLEAN] /\ flush' = flush
         /\ current' \in Pairs \cup {NoPair} /\ heard' = current'
         /\ connection' = IF current' = NoPair THEN "unsupported" ELSE "connecting"
         /\ current' # NoPair => worker'[current']
         /\ \A p \in Pairs :
              worker'[p] \/ socket'[p] \in {"connecting", "open"} => p = current'
<1>1. CASE ~supported
  BY <1>1 DEF Open, PipelineType, OnePipeline, workerVars
<1>2. CASE supported
  <2>1. PICK p \in Pairs :
          /\ connection' = "connecting" /\ current' = p /\ heard' = p
          /\ socket' = [socket EXCEPT ![p] = "connecting"]
          /\ worker' = [worker EXCEPT ![p] = TRUE]
          /\ flush' = flush /\ events' = events
    BY <1>2 DEF Open
  <2>2. p # NoPair
    BY StreamAssumption, ViewAssumption
  <2>3. QED
    BY <2>1, <2>2, StreamAssumption, ViewAssumption DEF PipelineType, OnePipeline
<1>3. QED
  BY <1>1, <1>2

\* The bookkeeping of a failure keeps the pipeline one, whoever reports it.
LEMMA FailKeeps ==
  ASSUME PipelineType, OnePipeline, NEW p \in Pairs,
         NEW left \in [Pairs -> SUBSET Events], Fail(p, left),
         UNCHANGED <<supported, listeners, subscribes, shown>>
  PROVE  PipelineType' /\ OnePipeline'
<1>1. CASE IsCurrent(p) /\ listeners > 0
  <2>1. ClosePair(left) /\ Retry
    BY <1>1 DEF Fail
  <2>2. /\ socket' \in [Pairs -> {"none", "connecting", "open", "closed"}]
        /\ events' \in [Pairs -> SUBSET Events]
        /\ worker' \in [Pairs -> BOOLEAN] /\ flush' \in [Pairs -> BOOLEAN]
        /\ current' = NoPair /\ heard' = NoPair
        /\ \A q \in Pairs : ~worker'[q] /\ socket'[q] \notin {"connecting", "open"}
    BY <2>1, Closed
  <2>3. timer = FALSE
    BY <1>1, StreamAssumption, ViewAssumption DEF IsCurrent, OnePipeline, PipelineType
  <2>4. /\ attempts' \in 0..Retries /\ timer' \in BOOLEAN
        /\ connection' \in {"retrying", "closed"}
        /\ timer' <=> connection' = "retrying"
    <3>1. attempts \in 0..Retries /\ Retries \in Nat
      BY StreamAssumption, ViewAssumption DEF PipelineType
    <3>2. CASE attempts < Retries
      BY <2>1, <3>1, <3>2 DEF Retry
    <3>3. CASE ~(attempts < Retries)
      BY <2>1, <2>3, <3>1, <3>3 DEF Retry
    <3>4. QED
      BY <3>2, <3>3
  <2>5. listeners' # 0
    BY <1>1 DEF PipelineType
  <2>6. PipelineType'
    BY <2>2, <2>4 DEF PipelineType, Connections
  <2>7. QED
    BY <2>2, <2>4, <2>5, <2>6 DEF OnePipeline
<1>2. CASE ~(IsCurrent(p) /\ listeners > 0)
  BY <1>2 DEF Fail, PipelineType, OnePipeline, workerVars
<1>3. QED
  BY <1>1, <1>2

\* A step that has nothing to do with the pipeline.
LEMMA SamePipeline ==
  ASSUME PipelineType, OnePipeline, UNCHANGED storeVars, UNCHANGED worker,
         socket' \in [Pairs -> {"none", "connecting", "open", "closed"}],
         \A p \in Pairs : socket'[p] \in {"connecting", "open"}
                            => socket[p] \in {"connecting", "open"},
         events' \in [Pairs -> SUBSET Events], flush' \in [Pairs -> BOOLEAN]
  PROVE  PipelineType' /\ OnePipeline'
BY DEF PipelineType, OnePipeline, storeVars

LEMMA StoreKeeps ==
  ASSUME PipelineType, OnePipeline, Subscribe \/ Leave \/ RetryFires
  PROVE  PipelineType' /\ OnePipeline'
<1>1. CASE Subscribe
  <2>1. /\ listeners' \in 0..MaxListeners /\ subscribes' \in 0..MaxSubscribes
        /\ listeners' # 0 /\ UNCHANGED <<supported, timer, shown>>
    BY <1>1, StreamAssumption, ViewAssumption DEF Subscribe, PipelineType
  <2>2. CASE connection = "idle"
    <3>1. Open /\ attempts' = 0 /\ current = NoPair /\ timer = FALSE
      BY <1>1, <2>2 DEF Subscribe, OnePipeline, PipelineType
    <3>2. QED
      BY <2>1, <3>1, Opened, StreamAssumption, ViewAssumption
      DEF PipelineType, OnePipeline, Connections
  <2>3. CASE connection # "idle"
    <3>1. UNCHANGED <<connection, heard, current, attempts, socket, events, worker, flush>>
      BY <1>1, <2>3 DEF Subscribe, workerVars
    <3>2. QED
      BY <2>1, <2>3, <3>1 DEF PipelineType, OnePipeline
  <2>4. QED
    BY <2>2, <2>3
<1>2. CASE Leave
  <2>1. listeners' \in 0..MaxListeners /\ UNCHANGED <<supported, subscribes>>
    BY <1>2, StreamAssumption, ViewAssumption DEF Leave, PipelineType
  <2>2. CASE listeners = 1
    <3>1. /\ ClosePair(events) /\ timer' = FALSE /\ attempts' = 0
          /\ connection' = "idle" /\ shown' = NoView
      BY <1>2, <2>2 DEF Leave
    <3>2. events \in [Pairs -> SUBSET Events]
      BY DEF PipelineType
    <3>3. /\ socket' \in [Pairs -> {"none", "connecting", "open", "closed"}]
          /\ events' \in [Pairs -> SUBSET Events]
          /\ worker' \in [Pairs -> BOOLEAN] /\ flush' \in [Pairs -> BOOLEAN]
          /\ current' = NoPair /\ heard' = NoPair
          /\ \A p \in Pairs : ~worker'[p] /\ socket'[p] \notin {"connecting", "open"}
      BY <3>1, <3>2, Closed
    <3>4. PipelineType'
      <4>a. timer' \in BOOLEAN
        BY <3>1
      <4>b. attempts' \in 0..Retries
        BY <3>1, StreamAssumption, ViewAssumption
      <4>1. timer' \in BOOLEAN /\ attempts' \in 0..Retries /\ connection' \in Connections
        BY <3>1, <4>a, <4>b DEF Connections
      <4>2. supported' \in BOOLEAN /\ subscribes' \in 0..MaxSubscribes
        BY <2>1 DEF PipelineType
      <4>3. heard' \in Pairs \cup {NoPair} /\ current' \in Pairs \cup {NoPair}
        BY <3>3
      <4>4. QED
        BY <2>1, <3>3, <4>1, <4>2, <4>3 DEF PipelineType
    <3>5. QED
      BY <3>1, <3>3, <3>4 DEF OnePipeline
  <2>3. CASE listeners # 1
    <3>1. UNCHANGED <<timer, attempts, heard, current, connection, shown, socket,
                      events, worker, flush>> /\ listeners' # 0
      BY <1>2, <2>3 DEF Leave, workerVars, PipelineType
    <3>2. QED
      BY <2>1, <3>1 DEF PipelineType, OnePipeline
  <2>4. QED
    BY <2>2, <2>3
<1>3. CASE RetryFires
  <2>1. connection = "retrying" /\ current = NoPair /\ listeners # 0
    BY <1>3 DEF RetryFires, OnePipeline
  <2>2. Open /\ timer' = FALSE
        /\ UNCHANGED <<supported, listeners, subscribes, shown, attempts>>
    BY <1>3, <2>1 DEF RetryFires, PipelineType
  <2>3. QED
    BY <2>1, <2>2, Opened DEF PipelineType, OnePipeline, Connections
<1>4. QED
  BY <1>1, <1>2, <1>3

LEMMA HandlersKeep ==
  ASSUME PipelineType, OnePipeline, NEW p \in Pairs,
         OnOpen(p) \/ OnLost(p) \/ OnPosted(p) \/ WorkerError(p)
  PROVE  PipelineType' /\ OnePipeline'
<1>1. CASE OnOpen(p)
  <2>1. events' \in [Pairs -> SUBSET Events]
    BY <1>1 DEF OnOpen, PipelineType
  <2>2. CASE IsCurrent(p)
    <3>1. current # NoPair /\ connection \in {"connecting", "open"} /\ timer = FALSE
      BY <2>2, StreamAssumption, ViewAssumption DEF IsCurrent, OnePipeline, PipelineType
    <3>2. /\ attempts' = 0 /\ connection' = "open"
          /\ UNCHANGED <<supported, listeners, subscribes, shown, heard, timer,
                         current, socket, worker, flush>>
      BY <1>1, <2>2 DEF OnOpen, workerVars
    <3>3. QED
      BY <2>1, <3>1, <3>2, StreamAssumption, ViewAssumption DEF PipelineType, OnePipeline, Connections
  <2>3. CASE ~IsCurrent(p)
    BY <1>1, <2>1, <2>3, SamePipeline DEF OnOpen, storeVars, workerVars, PipelineType
  <2>4. QED
    BY <2>2, <2>3
<1>2. CASE OnLost(p)
  <2>1. PICK e \in events[p] : Fail(p, [events EXCEPT ![p] = @ \ {e}])
    BY <1>2 DEF OnLost
  <2>2. [events EXCEPT ![p] = @ \ {e}] \in [Pairs -> SUBSET Events]
    BY DEF PipelineType
  <2>3. QED
    BY <1>2, <2>1, <2>2, FailKeeps DEF OnLost
<1>3. CASE WorkerError(p)
  BY <1>3, FailKeeps DEF WorkerError, PipelineType
<1>4. CASE OnPosted(p)
  <2>1. CASE Head(outbox[p]) = Failure
    BY <1>4, <2>1, FailKeeps DEF OnPosted, PipelineType
  <2>2. CASE Head(outbox[p]) # Failure
    <3>1. /\ UNCHANGED <<supported, listeners, subscribes, connection, heard, current,
                         attempts, timer, socket, events, worker, flush>>
          /\ shown' = IF IsCurrent(p) THEN Head(outbox[p]) ELSE shown
      BY <1>4, <2>2 DEF OnPosted, workerVars
    <3>2. IsCurrent(p) => listeners # 0
      BY StreamAssumption, ViewAssumption DEF IsCurrent, OnePipeline
    <3>3. QED
      BY <3>1, <3>2 DEF PipelineType, OnePipeline
  <2>3. QED
    BY <2>1, <2>2
<1>5. QED
  BY <1>1, <1>2, <1>3, <1>4

LEMMA ChannelsKeep ==
  ASSUME PipelineType, OnePipeline, NEW p \in Pairs,
         \/ Accept(p) \/ Disconnect(p) \/ Send(p) \/ Unsubscribe(p)
         \/ Ingest(p) \/ IngestFails(p) \/ Flush(p)
  PROVE  PipelineType' /\ OnePipeline'
<1>1. CASE Accept(p)
  <2>1. /\ socket' = [socket EXCEPT ![p] = "open"] /\ socket[p] = "connecting"
        /\ events' = [events EXCEPT ![p] = events[p] \cup {"open"}]
        /\ UNCHANGED storeVars /\ UNCHANGED <<worker, flush>>
    BY <1>1 DEF Accept, storeVars, workerVars
  <2>2. events' \in [Pairs -> SUBSET Events]
    BY <2>1 DEF PipelineType, Events
  <2>3. QED
    BY <2>1, <2>2, SamePipeline DEF PipelineType
<1>2. CASE Disconnect(p)
  <2>1. /\ socket' = [socket EXCEPT ![p] = "closed"]
        /\ \E new \in SUBSET Events : events' = [events EXCEPT ![p] = events[p] \cup new]
        /\ UNCHANGED storeVars /\ UNCHANGED <<worker, flush>>
    BY <1>2 DEF Disconnect, storeVars, workerVars, Events
  <2>2. events' \in [Pairs -> SUBSET Events]
    BY <2>1 DEF PipelineType
  <2>3. QED
    BY <2>1, <2>2, SamePipeline DEF PipelineType
<1>3. CASE Send(p) \/ Unsubscribe(p) \/ Ingest(p) \/ IngestFails(p) \/ Flush(p)
  <2>1. flush' \in [Pairs -> BOOLEAN]
    BY <1>3 DEF Send, Unsubscribe, Ingest, IngestFails, Flush, Defer, workerVars,
       PipelineType
  <2>2. UNCHANGED storeVars /\ UNCHANGED <<worker, socket, events>>
    BY <1>3 DEF Send, Unsubscribe, Ingest, IngestFails, Flush, storeVars, workerVars
  <2>3. QED
    BY <2>1, <2>2, SamePipeline DEF PipelineType
<1>4. QED
  BY <1>1, <1>2, <1>3

LEMMA NextPipeline ==
  PipelineType /\ OnePipeline /\ [Next]_vars => PipelineType' /\ OnePipeline'
<1> SUFFICES ASSUME PipelineType, OnePipeline, [Next]_vars
             PROVE  PipelineType' /\ OnePipeline'
  OBVIOUS
<1>1. CASE Publish \/ StartCapture \/ UNCHANGED vars
  <2>1. UNCHANGED storeVars /\ UNCHANGED <<worker, flush, socket, events>>
    BY <1>1 DEF Publish, StartCapture, vars, storeVars, workerVars
  <2>2. QED
    BY <2>1, SamePipeline DEF PipelineType
<1>2. CASE Subscribe \/ Leave \/ RetryFires
  BY <1>2, StoreKeeps
<1>3. ASSUME NEW p \in Pairs, Delivery(p) \/ Connecting(p) \/ WorkerError(p)
      PROVE  PipelineType' /\ OnePipeline'
  BY <1>3, HandlersKeep, ChannelsKeep DEF Delivery, Connecting
<1>4. QED
  BY <1>1, <1>2, <1>3 DEF Next
-----------------------------------------------------------------------------
(***************************************************************************)
(* Views.                                                                  *)
(***************************************************************************)
BatchOK(b) == b \in Batch /\ b.first =< b.last

\* Batch b comes after number n of stream s.
Follows(s, n, b) == s < b.stream \/ (s = b.stream /\ n < b.first)

Ascends(frames) ==
  \A i, j \in 1..Len(frames) : i < j => frames[i] < frames[j]

\* What a worker holds accounts for every frame from the first to the last.
Sound(v) ==
  /\ v \in View
  /\ v.stream = 0 => v = NoView
  /\ v.stream # 0 =>
       /\ v.first \in Numbers /\ v.last \in Numbers
       /\ Accounted(v) = v.last - v.first + 1
       /\ v.frames # <<>> /\ v.frames[Len(v.frames)] = v.last
       /\ Ascends(v.frames)

\* The ring keeps the newest frames, as many as it has room for.
LEMMA PushedFrames ==
  ASSUME NEW frames \in Seq(Numbers), Ascends(frames), NEW b, BatchOK(b),
         frames # <<>> => frames[Len(frames)] < b.first
  PROVE  /\ Pushed(frames, b) \in Seq(Numbers) /\ Pushed(frames, b) # <<>>
         /\ Len(Pushed(frames, b))
              = LET all == Len(frames) + (b.last - b.first + 1)
                IN IF all < ViewCapacity THEN all ELSE ViewCapacity
         /\ Ascends(Pushed(frames, b))
         /\ Pushed(frames, b)[Len(Pushed(frames, b))] = b.last
<1> DEFINE k == b.last - b.first + 1
           new == [i \in 1..k |-> b.first + i - 1]
           all == frames \o new
           keep == IF Len(all) < ViewCapacity THEN Len(all) ELSE ViewCapacity
           from == 1 + Len(all) - keep
<1>0. /\ MaxFrames \in Nat /\ ViewCapacity \in Nat /\ ViewCapacity >= 1
      /\ b.first \in 1..MaxFrames /\ b.last \in 1..MaxFrames /\ b.first =< b.last
      /\ Len(frames) \in Nat
  BY StreamAssumption, ViewAssumption DEF BatchOK, Batch, Numbers
<1>1. k \in Nat /\ k >= 1
  BY <1>0
<1>2. \A i \in 1..k : b.first + i - 1 \in Numbers
  BY <1>0, <1>1 DEF Numbers
<1>3. new \in Seq(Numbers) /\ Len(new) = k
  BY <1>1, <1>2
<1>4. \A i \in 1..k : new[i] = b.first + i - 1
  OBVIOUS
<1> HIDE DEF new, k
<1>5. /\ all \in Seq(Numbers) /\ Len(all) = Len(frames) + k
      /\ \A i \in 1..Len(frames) : all[i] = frames[i]
      /\ \A i \in 1..k : all[Len(frames) + i] = new[i]
  BY <1>3
<1> HIDE DEF all
<1>6. ASSUME NEW i \in 1..Len(frames) PROVE frames[i] < b.first /\ frames[i] \in Nat
  <2>1. frames[i] \in Nat /\ frames[Len(frames)] \in Nat /\ Len(frames) \in 1..Len(frames)
    BY <1>0 DEF Numbers
  <2>2. frames[Len(frames)] < b.first
    BY <2>1
  <2>3. i = Len(frames) \/ frames[i] < frames[Len(frames)]
    BY <1>0, <2>1 DEF Ascends
  <2>4. QED
    BY <1>0, <2>1, <2>2, <2>3
<1>7. ASSUME NEW i \in 1..Len(all), NEW j \in 1..Len(all), i < j
      PROVE  all[i] < all[j]
  <2>1. CASE j =< Len(frames)
    <3>1. i \in 1..Len(frames) /\ j \in 1..Len(frames)
      BY <1>0, <1>1, <1>5, <1>7, <2>1
    <3>2. QED
      BY <1>5, <1>7, <3>1 DEF Ascends
  <2>2. CASE j > Len(frames)
    <3>1. PICK m \in 1..k : j = Len(frames) + m
      <4>1. j - Len(frames) \in 1..k /\ j = Len(frames) + (j - Len(frames))
        BY <1>0, <1>1, <1>5, <2>2
      <4>2. QED
        BY <4>1
    <3>2. all[j] = b.first + m - 1
      BY <1>4, <1>5, <3>1
    <3>3. CASE i =< Len(frames)
      <4>1. i \in 1..Len(frames)
        BY <1>0, <3>3
      <4>2. all[i] = frames[i] /\ frames[i] < b.first /\ frames[i] \in Nat
        BY <1>5, <1>6, <4>1
      <4>3. QED
        BY <1>0, <1>1, <3>2, <4>2
    <3>4. CASE i > Len(frames)
      <4>1. PICK l \in 1..k : i = Len(frames) + l
        <5>1. i - Len(frames) \in 1..k /\ i = Len(frames) + (i - Len(frames))
          BY <1>0, <1>1, <1>5, <3>4
        <5>2. QED
          BY <5>1
      <4>2. all[i] = b.first + l - 1
        BY <1>4, <1>5, <4>1
      <4>3. l < m
        BY <1>0, <1>1, <1>7, <3>1, <4>1
      <4>4. QED
        BY <1>0, <1>1, <3>2, <4>2, <4>3
    <3>5. QED
      BY <1>0, <1>5, <3>3, <3>4
  <2>3. QED
    BY <1>0, <1>5, <2>1, <2>2
<1>8. all[Len(all)] = b.last
  <2>1. k \in 1..k
    BY <1>1
  <2>2. all[Len(frames) + k] = b.first + k - 1
    BY <1>4, <1>5, <2>1
  <2>3. b.first + k - 1 = b.last
    BY <1>0 DEF k
  <2>4. QED
    BY <1>5, <2>2, <2>3
<1>9. /\ Len(all) \in Nat /\ Len(all) >= 1 /\ keep \in 1..Len(all)
      /\ from \in 1..Len(all) /\ from + keep - 1 = Len(all)
  BY <1>0, <1>1, <1>5
<1>10. Pushed(frames, b) = SubSeq(all, from, Len(all))
  BY DEF Pushed, all, new, k
<1> HIDE DEF keep, from
<1>11. /\ Pushed(frames, b) \in Seq(Numbers) /\ Len(Pushed(frames, b)) = keep
       /\ \A i \in 1..keep : Pushed(frames, b)[i] = all[from + i - 1]
  <2>1. /\ SubSeq(all, from, Len(all)) \in Seq(Numbers)
        /\ Len(SubSeq(all, from, Len(all))) = Len(all) - from + 1
        /\ \A i \in 1..(Len(all) - from + 1) :
             SubSeq(all, from, Len(all))[i] = all[from + i - 1]
    BY <1>5, <1>9
  <2>2. Len(all) - from + 1 = keep
    BY <1>9
  <2>3. QED
    BY <1>10, <2>1, <2>2
<1>12. Ascends(Pushed(frames, b))
  <2>1. SUFFICES ASSUME NEW i \in 1..keep, NEW j \in 1..keep, i < j
                 PROVE  all[from + i - 1] < all[from + j - 1]
    BY <1>11 DEF Ascends
  <2>2. /\ from + i - 1 \in 1..Len(all) /\ from + j - 1 \in 1..Len(all)
        /\ from + i - 1 < from + j - 1
    BY <1>9, <2>1
  <2>3. QED
    BY <1>7, <2>2
<1>13. Pushed(frames, b)[Len(Pushed(frames, b))] = b.last
  <2>1. keep \in 1..keep
    BY <1>9
  <2>2. QED
    BY <1>8, <1>9, <1>11, <2>1
<1>14. keep = LET total == Len(frames) + (b.last - b.first + 1)
              IN IF total < ViewCapacity THEN total ELSE ViewCapacity
  BY <1>5 DEF keep, k
<1>15. Pushed(frames, b) # <<>>
  BY <1>9, <1>11
<1>16. QED
  BY <1>11, <1>12, <1>13, <1>14, <1>15

\* A batch that begins the view of a stream.
LEMMA FirstSound ==
  ASSUME NEW v, Sound(v), NEW b, BatchOK(b), v.stream = 0 \/ v.stream # b.stream
  PROVE  Sound(Ingested(v, b))
<1> DEFINE w == Begun(v, b)
           all == b.last - b.first + 1
<1>0. /\ MaxFrames \in Nat /\ ViewCapacity \in Nat /\ ViewCapacity >= 1
      /\ b.first \in 1..MaxFrames /\ b.last \in 1..MaxFrames /\ b.first =< b.last
      /\ b.stream \in Streams /\ b.stream # 0
  BY StreamAssumption, ViewAssumption DEF BatchOK, Batch, Numbers, Streams
<1>1. /\ w.frames = <<>> /\ w.first = 0 /\ w.last = 0 /\ w.dropped = 0 /\ w.gaps = 0
      /\ w.stream = b.stream
  BY DEF Begun, NoView, Sound
<1>2. /\ Pushed(<<>>, b) \in Seq(Numbers) /\ Pushed(<<>>, b) # <<>>
      /\ Len(Pushed(<<>>, b)) = IF all < ViewCapacity THEN all ELSE ViewCapacity
      /\ Ascends(Pushed(<<>>, b))
      /\ Pushed(<<>>, b)[Len(Pushed(<<>>, b))] = b.last
  <2>1. <<>> \in Seq(Numbers) /\ Ascends(<<>>) /\ Len(<<>>) = 0
    BY DEF Ascends
  <2>2. Len(<<>>) + (b.last - b.first + 1) = all
    BY <1>0, <2>1
  <2>3. QED
    BY <2>1, <2>2, PushedFrames
<1> DEFINE n == Ingested(v, b)
           lost == IF all > ViewCapacity THEN all - ViewCapacity ELSE 0
<1>3. n = [stream |-> b.stream, first |-> b.first, last |-> b.last,
           frames |-> Pushed(<<>>, b), dropped |-> lost, gaps |-> 0]
  <2>1. Len(w.frames) + b.last - b.first + 1 = all
    BY <1>0, <1>1
  <2>2. Gap(w, b) = 0
    BY <1>1 DEF Gap
  <2>3. lost \in Nat /\ 0 + lost = lost
    BY <1>0
  <2> HIDE DEF w, all, lost
  <2>4. n.dropped = w.dropped + (IF all > ViewCapacity THEN all - ViewCapacity ELSE 0)
    BY <2>1 DEF Ingested, w
  <2>5. n.dropped = lost
    BY <1>1, <2>3, <2>4 DEF lost
  <2>6. n.gaps = 0
    BY <1>1, <2>2 DEF Ingested, w
  <2>7. QED
    BY <1>1, <2>5, <2>6 DEF Ingested, w
<1>4. lost \in Nat /\ Len(Pushed(<<>>, b)) + lost + 0 = b.last - b.first + 1
  BY <1>0, <1>2
<1> HIDE DEF n, lost, all, w
<1>5. n \in View
  BY <1>0, <1>2, <1>3, <1>4 DEF View, Numbers
<1>6. Accounted(n) = n.last - n.first + 1
  BY <1>3, <1>4 DEF Accounted
<1>7. QED
  BY <1>0, <1>2, <1>3, <1>5, <1>6 DEF Sound, n, Numbers

\* A batch of the stream that is shown.
LEMMA MoreSound ==
  ASSUME NEW v, Sound(v), NEW b, BatchOK(b), v.stream = b.stream, v.last < b.first
  PROVE  Sound(Ingested(v, b))
<1> DEFINE all == Len(v.frames) + (b.last - b.first + 1)
           lost == IF all > ViewCapacity THEN all - ViewCapacity ELSE 0
           gap == IF b.first > v.last + 1 THEN b.first - v.last - 1 ELSE 0
           n == Ingested(v, b)
<1>0. /\ MaxFrames \in Nat /\ ViewCapacity \in Nat /\ ViewCapacity >= 1
      /\ b.first \in 1..MaxFrames /\ b.last \in 1..MaxFrames /\ b.first =< b.last
      /\ b.stream \in Streams /\ b.stream # 0
  BY StreamAssumption, ViewAssumption DEF BatchOK, Batch, Numbers, Streams
<1>1. /\ v \in View /\ v.first \in 1..MaxFrames /\ v.last \in 1..MaxFrames
      /\ v.frames \in Seq(Numbers) /\ Len(v.frames) \in Nat
      /\ v.dropped \in Nat /\ v.gaps \in Nat
      /\ Len(v.frames) + v.dropped + v.gaps = v.last - v.first + 1
      /\ v.frames # <<>> /\ v.frames[Len(v.frames)] = v.last /\ Ascends(v.frames)
  BY <1>0 DEF Sound, View, Numbers, Accounted
<1>2. /\ Pushed(v.frames, b) \in Seq(Numbers) /\ Pushed(v.frames, b) # <<>>
      /\ Len(Pushed(v.frames, b)) = IF all < ViewCapacity THEN all ELSE ViewCapacity
      /\ Ascends(Pushed(v.frames, b))
      /\ Pushed(v.frames, b)[Len(Pushed(v.frames, b))] = b.last
  BY <1>1, PushedFrames
<1>3. Begun(v, b) = v
  <2>1. Begun(v, b) = [v EXCEPT !.stream = b.stream]
    BY DEF Begun
  <2>2. QED
    BY <1>1, <2>1 DEF View
<1>4. Gap(v, b) = gap
  BY <1>0, <1>1 DEF Gap
<1>5. n = [stream |-> b.stream, first |-> v.first, last |-> b.last,
           frames |-> Pushed(v.frames, b), dropped |-> v.dropped + lost,
           gaps |-> v.gaps + gap]
  <2>1. Len(v.frames) + b.last - b.first + 1 = all
    BY <1>0, <1>1
  <2>2. v.first # 0
    BY <1>1
  <2>3. lost = IF all > ViewCapacity THEN all - ViewCapacity ELSE 0
    OBVIOUS
  <2> HIDE DEF all, gap, lost
  <2>4. /\ n.dropped = v.dropped + lost /\ n.gaps = v.gaps + gap
        /\ n.first = v.first /\ n.frames = Pushed(v.frames, b)
    BY <1>3, <1>4, <2>1, <2>2, <2>3 DEF Ingested
  <2>5. /\ n = [stream |-> n.stream, first |-> n.first, last |-> n.last,
                frames |-> n.frames, dropped |-> n.dropped, gaps |-> n.gaps]
        /\ n.stream = b.stream /\ n.last = b.last
    BY DEF Ingested
  <2> HIDE DEF n
  <2>6. QED
    BY <2>4, <2>5
<1>6. /\ lost \in Nat /\ gap \in Nat
      /\ Len(Pushed(v.frames, b)) + lost = all
  <2>1. all \in Nat
    <3>1. /\ Len(v.frames) \in Nat /\ b.first \in Nat /\ b.last \in Nat
          /\ b.first <= b.last
      BY <1>0, <1>1
    <3>2. QED
      BY <3>1
  <2>2. gap \in Nat
    BY <1>0, <1>1
  <2> HIDE DEF all, gap
  <2>3. QED
    BY <1>0, <1>2, <2>1, <2>2
<1>7. Len(v.frames) + (b.last - b.first + 1) + v.dropped + (v.gaps + gap)
        = b.last - v.first + 1
  <2>1. gap = b.first - v.last - 1
    BY <1>0, <1>1
  <2>2. /\ v.last \in Nat /\ v.first \in Nat /\ b.first \in Nat /\ b.last \in Nat
    BY <1>0, <1>1
  <2> HIDE DEF gap
  <2>3. PICK size \in Nat, dropped \in Nat, gaps \in Nat, m \in Nat, n0 \in Nat,
              f \in Nat, l \in Nat :
          /\ size = Len(v.frames) /\ dropped = v.dropped /\ gaps = v.gaps
          /\ m = v.first /\ n0 = v.last /\ f = b.first /\ l = b.last
    BY <1>1, <2>2, Zenon
  <2>4. size + dropped + gaps = n0 - m + 1
    BY <1>1, <2>3, Zenon
  <2>5. size + (l - f + 1) + dropped + (gaps + (f - n0 - 1)) = l - m + 1
    BY <2>4
  <2>6. QED
    BY <2>1, <2>3, <2>5, Zenon
<1>8. Len(Pushed(v.frames, b)) \in Nat
  BY <1>2
<1>9. all = Len(v.frames) + (b.last - b.first + 1)
  OBVIOUS
<1> HIDE DEF lost, gap, n, all
<1>10. v.dropped + lost \in Nat /\ v.gaps + gap \in Nat
  <2>1. \A x, y \in Nat : x + y \in Nat
    OBVIOUS
  <2>2. v.dropped \in Nat /\ v.gaps \in Nat /\ lost \in Nat /\ gap \in Nat
    BY <1>1, <1>6, Zenon
  <2>3. QED
    BY <2>1, <2>2, Zenon
<1>11. Len(Pushed(v.frames, b)) + (v.dropped + lost) + (v.gaps + gap)
         = b.last - v.first + 1
  BY <1>0, <1>1, <1>6, <1>7, <1>8, <1>9
<1>12. n \in View
  BY <1>0, <1>1, <1>2, <1>5, <1>10 DEF View, Numbers
<1>13. Accounted(n) = n.last - n.first + 1
  BY <1>5, <1>11 DEF Accounted
<1>14. QED
  BY <1>0, <1>1, <1>2, <1>5, <1>12, <1>13 DEF Sound, n, Numbers

\* What comes after what is held keeps the account.
LEMMA IngestSound ==
  ASSUME NEW v, Sound(v), NEW b, BatchOK(b), Follows(v.stream, v.last, b)
  PROVE  /\ Sound(Ingested(v, b))
         /\ Ingested(v, b).stream = b.stream /\ Ingested(v, b).last = b.last
<1>1. /\ Ingested(v, b).stream = b.stream /\ Ingested(v, b).last = b.last
  BY DEF Ingested
<1>2. CASE v.stream = b.stream
  <2>1. v.last < b.first
    <3>1. b.stream \in Nat
      BY StreamAssumption, ViewAssumption DEF BatchOK, Batch, Streams
    <3>2. QED
      BY <1>2, <3>1 DEF Follows
  <2>2. QED
    BY <1>1, <1>2, <2>1, MoreSound
<1>3. CASE v.stream # b.stream
  BY <1>1, <1>3, FirstSound
<1>4. QED
  BY <1>2, <1>3
-----------------------------------------------------------------------------
(***************************************************************************)
(* The way of a batch: the runtime numbers it, the broker queues it, the   *)
(* socket's handler posts it, the worker takes it.                         *)
(***************************************************************************)
\* Number n of stream s is behind what the runtime gives out next.
Past(s, n, st, nx) == s < st \/ (s = st /\ n < nx)

\* Batch c comes after batch b.
Later(b, c) == Follows(b.stream, b.last, c)

\* Everything on its way to a worker comes after what the worker holds, in the
\* order of the numbers, and before what the runtime gives out next.
Line(q, in, v, st, nx) ==
  /\ q \in Seq(Batch)
  /\ \A i \in 1..Len(q) :
       /\ BatchOK(q[i]) /\ Follows(v.stream, v.last, q[i])
       /\ Past(q[i].stream, q[i].last, st, nx)
  /\ \A i, j \in 1..Len(q) : i < j => Later(q[i], q[j])
  /\ in # <<>> =>
       /\ BatchOK(Head(in)) /\ Follows(v.stream, v.last, Head(in))
       /\ Past(Head(in).stream, Head(in).last, st, nx)
       /\ \A i \in 1..Len(q) : Later(Head(in), q[i])
  /\ Past(v.stream, v.last, st, nx)

LEMMA BatchNumbers ==
  ASSUME NEW b, BatchOK(b)
  PROVE  /\ b.stream \in Nat /\ b.first \in Nat /\ b.last \in Nat
         /\ b.stream > 0 /\ b.first =< b.last
BY StreamAssumption, ViewAssumption DEF BatchOK, Batch, Streams, Numbers

LEMMA TailOf ==
  ASSUME NEW q \in Seq(Batch), q # <<>>
  PROVE  /\ Tail(q) \in Seq(Batch) /\ Len(Tail(q)) = Len(q) - 1
         /\ \A i \in 1..Len(Tail(q)) : i + 1 \in 1..Len(q) /\ Tail(q)[i] = q[i + 1]
         /\ 1 \in 1..Len(q) /\ Head(q) = q[1]
<1>1. Len(q) \in Nat /\ Len(q) >= 1
  OBVIOUS
<1>2. /\ Tail(q) \in Seq(Batch) /\ Len(Tail(q)) = Len(q) - 1 /\ Head(q) = q[1]
      /\ \A i \in 1..(Len(q) - 1) : Tail(q)[i] = q[i + 1]
  OBVIOUS
<1>3. QED
  BY <1>1, <1>2

\* The oldest batch of the queue is posted, or lost.
LEMMA SentLine ==
  ASSUME NEW q, NEW v, NEW st, NEW nx, Line(q, <<>>, v, st, nx), q # <<>>
  PROVE  Line(Tail(q), <<Head(q)>>, v, st, nx) /\ Line(Tail(q), <<>>, v, st, nx)
<1>1. /\ Tail(q) \in Seq(Batch)
      /\ \A i \in 1..Len(Tail(q)) : i + 1 \in 1..Len(q) /\ Tail(q)[i] = q[i + 1]
      /\ 1 \in 1..Len(q) /\ Head(q) = q[1] /\ Len(Tail(q)) \in Nat
  BY TailOf DEF Line
<1>2. ASSUME NEW i \in 1..Len(Tail(q))
      PROVE  /\ BatchOK(Tail(q)[i]) /\ Follows(v.stream, v.last, Tail(q)[i])
             /\ Past(Tail(q)[i].stream, Tail(q)[i].last, st, nx)
             /\ Later(Head(q), Tail(q)[i])
  <2>1. 1 < i + 1
    BY <1>1
  <2>2. QED
    BY <1>1, <2>1 DEF Line
<1>3. ASSUME NEW i \in 1..Len(Tail(q)), NEW j \in 1..Len(Tail(q)), i < j
      PROVE  Later(Tail(q)[i], Tail(q)[j])
  <2>1. i + 1 < j + 1
    BY <1>1, <1>3
  <2>2. QED
    BY <1>1, <2>1 DEF Line
<1>4. /\ BatchOK(Head(q)) /\ Follows(v.stream, v.last, Head(q))
      /\ Past(Head(q).stream, Head(q).last, st, nx) /\ Past(v.stream, v.last, st, nx)
  BY <1>1 DEF Line
<1>5. Head(<<Head(q)>>) = Head(q)
  OBVIOUS
<1>6. QED
  BY <1>1, <1>2, <1>3, <1>4, <1>5 DEF Line

\* The oldest batch of the queue makes room.
LEMMA DroppedLine ==
  ASSUME NEW q, NEW in, NEW v, NEW st, NEW nx, Line(q, in, v, st, nx), q # <<>>
  PROVE  Line(Tail(q), in, v, st, nx)
<1>1. Line(q, <<>>, v, st, nx)
  BY DEF Line
<1>2. Line(Tail(q), <<>>, v, st, nx)
  BY <1>1, SentLine
<1>3. \A i \in 1..Len(Tail(q)) : i + 1 \in 1..Len(q) /\ Tail(q)[i] = q[i + 1]
  BY TailOf DEF Line
<1>4. QED
  BY <1>2, <1>3 DEF Line

\* What was posted is gone, or the queue is.
LEMMA EmptierLine ==
  ASSUME NEW q, NEW in, NEW v, NEW st, NEW nx, Line(q, in, v, st, nx)
  PROVE  Line(q, <<>>, v, st, nx) /\ Line(<<>>, in, v, st, nx)
<1>1. <<>> \in Seq(Batch) /\ Len(<<>>) = 0 /\ 1..0 = {}
  OBVIOUS
<1>2. QED
  BY <1>1 DEF Line

\* The worker takes what was posted.
LEMMA TakenLine ==
  ASSUME NEW q, NEW in, NEW v, NEW st, NEW nx, Line(q, in, v, st, nx), in # <<>>
  PROVE  Line(q, <<>>, Ingested(v, Head(in)), st, nx)
<1>1. /\ Ingested(v, Head(in)).stream = Head(in).stream
      /\ Ingested(v, Head(in)).last = Head(in).last
  BY DEF Ingested
<1>2. QED
  BY <1>1 DEF Line, Later

\* The worker of another pair holds nothing.
LEMMA FreshLine ==
  ASSUME NEW q, NEW in, NEW v, NEW st \in Nat, NEW nx \in Nat, nx > 0,
         Line(q, in, v, st, nx)
  PROVE  Line(q, <<>>, NoView, st, nx)
<1>1. NoView.stream = 0 /\ NoView.last = 0
  BY DEF NoView
<1>2. Past(0, 0, st, nx)
  BY DEF Past
<1>3. ASSUME NEW i \in 1..Len(q) PROVE Follows(0, 0, q[i])
  <2>1. q[i].stream \in Nat /\ q[i].stream > 0
    BY BatchNumbers DEF Line
  <2>2. QED
    BY <2>1 DEF Follows
<1>4. QED
  BY <1>1, <1>2, <1>3 DEF Line

\* The runtime goes on numbering.
LEMMA LaterLine ==
  ASSUME NEW q, NEW in, NEW v, NEW st \in Nat, NEW nx \in Nat,
         NEW st2 \in Nat, NEW nx2 \in Nat, st < st2 \/ (st = st2 /\ nx < nx2),
         v.stream \in Nat, v.last \in Nat, Line(q, in, v, st, nx)
  PROVE  Line(q, in, v, st2, nx2)
<1>1. ASSUME NEW s \in Nat, NEW n \in Nat, Past(s, n, st, nx)
      PROVE  Past(s, n, st2, nx2)
  BY <1>1 DEF Past
<1>2. ASSUME NEW b, BatchOK(b), Past(b.stream, b.last, st, nx)
      PROVE  Past(b.stream, b.last, st2, nx2)
  BY <1>1, <1>2, BatchNumbers
<1>3. QED
  BY <1>1, <1>2 DEF Line

\* A batch is queued, whether another one makes room for it or not.
LEMMA OfferedLine ==
  ASSUME NEW q, NEW in, NEW v, NEW b, BatchOK(b), NEW nx \in Nat,
         b.first = nx, v.stream \in Nat, v.last \in Nat,
         Line(q, in, v, b.stream, nx)
  PROVE  Line(Append(q, b), in, v, b.stream, b.last + 1)
<1>0. b \in Batch /\ q \in Seq(Batch)
  BY DEF BatchOK, Line
<1>1. /\ b.stream \in Nat /\ b.last \in Nat /\ nx =< b.last
  BY BatchNumbers
<1>2. /\ Append(q, b) \in Seq(Batch) /\ Len(Append(q, b)) = Len(q) + 1 /\ Len(q) \in Nat
      /\ \A i \in 1..Len(q) : Append(q, b)[i] = q[i]
      /\ Append(q, b)[Len(q) + 1] = b
  BY <1>0
<1>3. Line(q, in, v, b.stream, b.last + 1)
  <2>1. b.last + 1 \in Nat /\ nx < b.last + 1
    BY <1>1
  <2>2. QED
    BY <1>1, <2>1, LaterLine
<1>4. ASSUME NEW s, NEW n, Past(s, n, b.stream, nx) PROVE Follows(s, n, b)
  BY <1>4 DEF Past, Follows
<1>5. Follows(v.stream, v.last, b)
  BY <1>4 DEF Line
<1>6. Past(b.stream, b.last, b.stream, b.last + 1)
  BY <1>1 DEF Past
<1>7. ASSUME NEW i \in 1..Len(q) PROVE Later(q[i], b)
  BY <1>4 DEF Line, Later
<1>8. in # <<>> => Later(Head(in), b)
  BY <1>4 DEF Line, Later
<1>9. ASSUME NEW i \in 1..(Len(q) + 1)
      PROVE  i \in 1..Len(q) \/ i = Len(q) + 1
  BY <1>2
<1>10. ASSUME NEW i \in 1..(Len(q) + 1), NEW j \in 1..(Len(q) + 1), i < j
       PROVE  Later(Append(q, b)[i], Append(q, b)[j])
  <2>1. i \in 1..Len(q)
    BY <1>2, <1>10
  <2>2. CASE j \in 1..Len(q)
    BY <1>2, <1>10, <2>1, <2>2 DEF Line
  <2>3. CASE j = Len(q) + 1
    BY <1>2, <1>7, <2>1, <2>3
  <2>4. QED
    BY <1>9, <2>2, <2>3
<1>11. ASSUME NEW i \in 1..(Len(q) + 1)
       PROVE  /\ BatchOK(Append(q, b)[i]) /\ Follows(v.stream, v.last, Append(q, b)[i])
              /\ Past(Append(q, b)[i].stream, Append(q, b)[i].last, b.stream, b.last + 1)
              /\ in # <<>> => Later(Head(in), Append(q, b)[i])
  <2>1. CASE i \in 1..Len(q)
    BY <1>2, <1>3, <2>1 DEF Line
  <2>2. CASE i = Len(q) + 1
    BY <1>2, <1>5, <1>6, <1>8, <2>2
  <2>3. QED
    BY <1>9, <2>1, <2>2
<1>12. QED
  BY <1>2, <1>3, <1>10, <1>11 DEF Line

\* Each worker's view is sound, and what is on its way to it is in line.
ChannelOK ==
  /\ stream \in Nat /\ next \in Nat /\ next > 0
  /\ queue \in [Pairs -> Seq(Batch)] /\ inbox \in [Pairs -> Seq(Batch)]
  /\ core \in [Pairs -> View]
  /\ \A p \in Pairs : /\ Sound(core[p])
                      /\ Line(queue[p], inbox[p], core[p], stream, next)

\* What was posted to the store, and what the store shows, is sound.
ViewsOK ==
  /\ outbox \in [Pairs -> Seq(View)]
  /\ \A p \in Pairs :
       outbox[p] # <<>> => Head(outbox[p]) = Failure \/ Sound(Head(outbox[p]))
  /\ Sound(shown)

LEMMA Blank == Sound(NoView) /\ NoView \in View /\ Failure \in View /\ NoView.stream = 0
<1>1. <<>> \in Seq(Numbers)
  OBVIOUS
<1>2. NoView \in View
  BY <1>1 DEF NoView, View
<1>3. NoView.stream = 0
  BY DEF NoView
<1>4. Failure \in View
  BY <1>1 DEF Failure, NoView, View
<1>5. QED
  BY <1>2, <1>3, <1>4 DEF Sound

LEMMA ClosedChannels ==
  ASSUME ChannelOK, PipelineType, NEW left, ClosePair(left),
         UNCHANGED <<stream, next, queue>>
  PROVE  ChannelOK'
<1>1. CASE current = NoPair
  BY <1>1 DEF ClosePair, ChannelOK, workerVars
<1>2. CASE current # NoPair
  <2>1. /\ current \in Pairs
        /\ inbox' = [inbox EXCEPT ![current] = <<>>]
        /\ core' = [core EXCEPT ![current] = NoView]
    BY <1>2 DEF ClosePair, PipelineType
  <2>2. inbox' \in [Pairs -> Seq(Batch)] /\ core' \in [Pairs -> View]
    <3>1. <<>> \in Seq(Batch)
      OBVIOUS
    <3>2. QED
      BY <2>1, <3>1, Blank DEF ChannelOK
  <2>3. ASSUME NEW p \in Pairs
        PROVE  Sound(core'[p]) /\ Line(queue[p], inbox'[p], core'[p], stream, next)
    <3>1. CASE p = current
      <4>1. inbox'[p] = <<>> /\ core'[p] = NoView
        BY <2>1, <3>1 DEF ChannelOK
      <4>2. Line(queue[p], <<>>, NoView, stream, next)
        BY FreshLine DEF ChannelOK
      <4>3. QED
        BY <4>1, <4>2, Blank
    <3>2. CASE p # current
      <4>1. inbox'[p] = inbox[p] /\ core'[p] = core[p]
        BY <2>1, <3>2 DEF ChannelOK
      <4>2. QED
        BY <4>1 DEF ChannelOK
    <3>3. QED
      BY <3>1, <3>2
  <2>4. QED
    BY <2>2, <2>3 DEF ChannelOK
<1>3. QED
  BY <1>1, <1>2

\* The store's steps close the pipeline or leave it alone.
LEMMA StoreChannels ==
  ASSUME ChannelOK, PipelineType,
         \/ Subscribe \/ Leave \/ RetryFires
         \/ \E p \in Pairs : OnOpen(p) \/ OnLost(p) \/ OnPosted(p) \/ WorkerError(p)
  PROVE  ChannelOK'
<1>1. UNCHANGED <<stream, next, queue>>
  BY DEF Subscribe, Leave, RetryFires, OnOpen, OnLost, OnPosted, WorkerError, runtimeVars
<1>2. UNCHANGED <<inbox, core>> \/ \E left : ClosePair(left)
  <2>1. CASE Subscribe \/ RetryFires
    BY <2>1 DEF Subscribe, RetryFires, Open, workerVars
  <2>2. CASE Leave
    BY <2>2 DEF Leave, workerVars
  <2>3. ASSUME NEW p \in Pairs, NEW left, Fail(p, left)
        PROVE  UNCHANGED <<inbox, core>> \/ ClosePair(left)
    BY <2>3 DEF Fail, workerVars
  <2>4. ASSUME NEW p \in Pairs, OnOpen(p) \/ OnLost(p) \/ OnPosted(p) \/ WorkerError(p)
        PROVE  UNCHANGED <<inbox, core>> \/ \E left : ClosePair(left)
    <3>1. UNCHANGED <<inbox, core>> \/ \E left : Fail(p, left)
      BY <2>4 DEF OnOpen, OnLost, OnPosted, WorkerError, workerVars
    <3>2. QED
      BY <2>3, <3>1
  <2>5. QED
    BY <2>1, <2>2, <2>4
<1>3. QED
  BY <1>1, <1>2, ClosedChannels DEF ChannelOK

LEMMA PublishChannels ==
  ASSUME ChannelOK, Publish \/ StartCapture
  PROVE  ChannelOK'
<1>0. /\ stream \in Nat /\ next \in Nat /\ next > 0
      /\ UNCHANGED <<inbox, core>>
  BY DEF Publish, StartCapture, ChannelOK, workerVars
<1>v. ASSUME NEW p \in Pairs PROVE core[p].stream \in Nat /\ core[p].last \in Nat
  BY StreamAssumption, ViewAssumption DEF ChannelOK, View, Streams, Numbers
<1>1. CASE Publish
  <2>1. PICK last \in next..MaxFrames :
          /\ queue' = [p \in Pairs |->
                        IF p \in subscribed
                        THEN Offered(queue[p], [stream |-> stream, first |-> next,
                                                last |-> last])
                        ELSE queue[p]]
          /\ next' = last + 1
    BY <1>1 DEF Publish
  <2> DEFINE b == [stream |-> stream, first |-> next, last |-> last]
  <2>2. stream' = stream /\ stream \in Streams
    BY <1>1 DEF Publish
  <2>3. last \in Nat /\ next =< last /\ last \in Numbers /\ next \in Numbers
    BY <1>0, StreamAssumption, ViewAssumption DEF Numbers
  <2>4. BatchOK(b) /\ b.stream = stream /\ b.first = next /\ b.last = last
    BY <2>2, <2>3 DEF BatchOK, Batch
  <2> HIDE DEF b
  <2>5. ASSUME NEW p \in Pairs
        PROVE  Line(queue'[p], inbox[p], core[p], stream, last + 1)
    <3>1. Line(queue[p], inbox[p], core[p], stream, next)
      BY DEF ChannelOK
    <3>2. CASE p \in subscribed /\ Len(queue[p]) = ClientCapacity
      <4>1. queue'[p] = Append(Tail(queue[p]), b)
        BY <2>1, <3>2 DEF Offered, b
      <4>2. queue[p] # <<>>
        BY <3>2, StreamAssumption, ViewAssumption
      <4>3. Line(Tail(queue[p]), inbox[p], core[p], stream, next)
        BY <3>1, <4>2, DroppedLine
      <4>4. QED
        BY <1>0, <1>v, <2>4, <4>1, <4>3, OfferedLine
    <3>3. CASE p \in subscribed /\ Len(queue[p]) # ClientCapacity
      <4>1. queue'[p] = Append(queue[p], b)
        BY <2>1, <3>3 DEF Offered, b
      <4>2. QED
        BY <1>0, <1>v, <2>4, <3>1, <4>1, OfferedLine
    <3>4. CASE p \notin subscribed
      <4>1. queue'[p] = queue[p]
        BY <2>1, <3>4
      <4>2. last + 1 \in Nat /\ next < last + 1
        BY <1>0, <2>3
      <4>3. QED
        BY <1>0, <1>v, <3>1, <4>1, <4>2, LaterLine
    <3>5. QED
      BY <3>2, <3>3, <3>4
  <2>6. queue' \in [Pairs -> Seq(Batch)]
    <3>1. ASSUME NEW p \in Pairs PROVE queue'[p] \in Seq(Batch)
      BY <2>5 DEF Line
    <3>2. queue' = [p \in Pairs |-> queue'[p]]
      BY <2>1
    <3>3. QED
      BY <3>1, <3>2
  <2>7. last + 1 \in Nat /\ last + 1 > 0
    BY <2>3
  <2>8. QED
    BY <1>0, <2>1, <2>2, <2>5, <2>6, <2>7 DEF ChannelOK
<1>2. CASE StartCapture
  <2>1. stream' = stream + 1 /\ next' = 1 /\ queue' = queue
    BY <1>2 DEF StartCapture
  <2>2. stream + 1 \in Nat /\ 1 \in Nat /\ stream < stream + 1 /\ 1 > 0
    BY <1>0
  <2>3. ASSUME NEW p \in Pairs PROVE Line(queue[p], inbox[p], core[p], stream + 1, 1)
    <3>1. Line(queue[p], inbox[p], core[p], stream, next)
      BY DEF ChannelOK
    <3>2. QED
      BY <1>0, <1>v, <2>2, <3>1, LaterLine
  <2>4. QED
    BY <1>0, <2>1, <2>2, <2>3 DEF ChannelOK
<1>3. QED
  BY <1>1, <1>2

\* The steps between the broker and the worker.
LEMMA PairChannels ==
  ASSUME ChannelOK, NEW p \in Pairs,
         \/ Accept(p) \/ Disconnect(p) \/ Send(p) \/ Unsubscribe(p)
         \/ Ingest(p) \/ IngestFails(p) \/ Flush(p)
  PROVE  ChannelOK'
<1>0. /\ queue \in [Pairs -> Seq(Batch)] /\ inbox \in [Pairs -> Seq(Batch)]
      /\ core \in [Pairs -> View] /\ <<>> \in Seq(Batch)
      /\ Sound(core[p]) /\ Line(queue[p], inbox[p], core[p], stream, next)
  BY DEF ChannelOK
<1>1. UNCHANGED <<stream, next>>
  BY DEF Accept, Disconnect, Send, Unsubscribe, Ingest, IngestFails, Flush, runtimeVars
<1>2. CASE Accept(p) \/ Disconnect(p) \/ Flush(p)
  BY <1>2 DEF Accept, Disconnect, Flush, runtimeVars, workerVars, ChannelOK
<1>3. ASSUME NEW q \in Seq(Batch), NEW in \in Seq(Batch), NEW v \in View,
             Sound(v), Line(q, in, v, stream, next),
             queue' = [queue EXCEPT ![p] = q], inbox' = [inbox EXCEPT ![p] = in],
             core' = [core EXCEPT ![p] = v]
      PROVE  ChannelOK'
  <2>1. /\ queue' \in [Pairs -> Seq(Batch)] /\ inbox' \in [Pairs -> Seq(Batch)]
        /\ core' \in [Pairs -> View]
    BY <1>0, <1>3
  <2>2. ASSUME NEW o \in Pairs
        PROVE  Sound(core'[o]) /\ Line(queue'[o], inbox'[o], core'[o], stream, next)
    <3>1. CASE o = p
      BY <1>0, <1>3, <3>1
    <3>2. CASE o # p
      <4>1. queue'[o] = queue[o] /\ inbox'[o] = inbox[o] /\ core'[o] = core[o]
        BY <1>0, <1>3, <3>2
      <4>2. QED
        BY <4>1 DEF ChannelOK
    <3>3. QED
      BY <3>1, <3>2
  <2>3. QED
    BY <1>1, <2>1, <2>2 DEF ChannelOK
<1>4. /\ queue = [queue EXCEPT ![p] = queue[p]] /\ inbox = [inbox EXCEPT ![p] = inbox[p]]
      /\ core = [core EXCEPT ![p] = core[p]]
      /\ queue[p] \in Seq(Batch) /\ inbox[p] \in Seq(Batch) /\ core[p] \in View
  BY <1>0
<1>5. CASE Send(p)
  <2>1. /\ queue[p] # <<>> /\ inbox[p] = <<>> /\ core' = core
        /\ queue' = [queue EXCEPT ![p] = Tail(queue[p])]
        /\ inbox' = inbox \/ inbox' = [inbox EXCEPT ![p] = <<Head(queue[p])>>]
    BY <1>5 DEF Send
  <2>2. /\ Line(Tail(queue[p]), <<Head(queue[p])>>, core[p], stream, next)
        /\ Line(Tail(queue[p]), inbox[p], core[p], stream, next)
    BY <1>0, <2>1, SentLine
  <2>3. Tail(queue[p]) \in Seq(Batch) /\ <<Head(queue[p])>> \in Seq(Batch)
    <3>1. Head(queue[p]) \in Batch
      BY <1>0, <2>1
    <3>2. QED
      BY <1>0, <2>1, <3>1
  <2>4. CASE inbox' = inbox
    BY <1>0, <1>3, <1>4, <2>1, <2>2, <2>3, <2>4
  <2>5. CASE inbox' = [inbox EXCEPT ![p] = <<Head(queue[p])>>]
    BY <1>0, <1>3, <1>4, <2>1, <2>2, <2>3, <2>5
  <2>6. QED
    BY <2>1, <2>4, <2>5
<1>6. CASE Unsubscribe(p)
  <2>1. queue' = [queue EXCEPT ![p] = <<>>] /\ inbox' = inbox /\ core' = core
    BY <1>6 DEF Unsubscribe, workerVars
  <2>2. Line(<<>>, inbox[p], core[p], stream, next)
    BY <1>0, EmptierLine
  <2>3. QED
    BY <1>0, <1>3, <1>4, <2>1, <2>2
<1>7. CASE Ingest(p)
  <2>1. /\ inbox[p] # <<>> /\ inbox' = [inbox EXCEPT ![p] = <<>>] /\ queue' = queue
        /\ core' = [core EXCEPT ![p] = Ingested(core[p], Head(inbox[p]))]
    BY <1>7 DEF Ingest, runtimeVars
  <2>2. BatchOK(Head(inbox[p])) /\ Follows(core[p].stream, core[p].last, Head(inbox[p]))
    BY <1>0, <2>1 DEF Line
  <2>3. Sound(Ingested(core[p], Head(inbox[p])))
    BY <1>0, <2>2, IngestSound
  <2>4. Ingested(core[p], Head(inbox[p])) \in View
    BY <2>3 DEF Sound
  <2>5. Line(queue[p], <<>>, Ingested(core[p], Head(inbox[p])), stream, next)
    BY <1>0, <2>1, TakenLine
  <2>6. QED
    BY <1>0, <1>3, <1>4, <2>1, <2>3, <2>4, <2>5
<1>8. CASE IngestFails(p)
  <2>1. inbox' = [inbox EXCEPT ![p] = <<>>] /\ queue' = queue /\ core' = core
    BY <1>8 DEF IngestFails, runtimeVars
  <2>2. Line(queue[p], <<>>, core[p], stream, next)
    BY <1>0, EmptierLine
  <2>3. QED
    BY <1>0, <1>3, <1>4, <2>1, <2>2
<1>9. QED
  BY <1>2, <1>5, <1>6, <1>7, <1>8

\* What is posted and shown is a view that a worker held.
LEMMA NextViews ==
  ASSUME ChannelOK, ViewsOK, [Next]_vars
  PROVE  ViewsOK'
<1>0. /\ outbox \in [Pairs -> Seq(View)] /\ Sound(shown) /\ <<>> \in Seq(View)
  BY DEF ViewsOK
<1>1. ASSUME UNCHANGED outbox, shown' = shown \/ shown' = NoView
      PROVE  ViewsOK'
  BY <1>0, <1>1, Blank DEF ViewsOK
<1>2. ASSUME NEW p \in Pairs, NEW view \in View, view = Failure \/ Sound(view),
             outbox' = [outbox EXCEPT ![p] = <<view>>], shown' = shown
      PROVE  ViewsOK'
  <2>1. <<view>> \in Seq(View) /\ Head(<<view>>) = view
    OBVIOUS
  <2>2. outbox' \in [Pairs -> Seq(View)]
    BY <1>0, <1>2, <2>1
  <2>3. ASSUME NEW o \in Pairs, outbox'[o] # <<>>
        PROVE  Head(outbox'[o]) = Failure \/ Sound(Head(outbox'[o]))
    <3>1. CASE o = p
      <4>1. outbox'[o] = <<view>>
        BY <1>0, <1>2, <3>1
      <4>2. QED
        BY <1>2, <2>1, <4>1
    <3>2. CASE o # p
      <4>1. outbox'[o] = outbox[o]
        BY <1>0, <1>2, <3>2
      <4>2. QED
        BY <2>3, <4>1 DEF ViewsOK
    <3>3. QED
      BY <3>1, <3>2
  <2>4. QED
    BY <1>0, <1>2, <2>2, <2>3 DEF ViewsOK
<1>3. CASE \/ Publish \/ StartCapture \/ Subscribe \/ Leave \/ RetryFires
           \/ UNCHANGED vars
  <2>1. UNCHANGED outbox /\ (shown' = shown \/ shown' = NoView)
    BY <1>3 DEF Publish, StartCapture, Subscribe, Leave, RetryFires, Open, vars, storeVars
  <2>2. QED
    BY <1>1, <2>1
<1>4. ASSUME NEW p \in Pairs, Delivery(p) \/ Connecting(p) \/ WorkerError(p)
      PROVE  ViewsOK'
  <2>1. CASE \/ Accept(p) \/ Disconnect(p) \/ Send(p) \/ Unsubscribe(p)
             \/ OnOpen(p) \/ OnLost(p) \/ WorkerError(p)
    <3>1. UNCHANGED outbox /\ shown' = shown
      BY <2>1 DEF Accept, Disconnect, Send, Unsubscribe, OnOpen, OnLost, WorkerError,
         storeVars
    <3>2. QED
      BY <1>1, <3>1
  <2>2. CASE Ingest(p)
    <3> DEFINE view == Ingested(core[p], Head(inbox[p]))
    <3>1. /\ inbox[p] # <<>> /\ shown' = shown
          /\ outbox' = outbox \/ outbox' = [outbox EXCEPT ![p] = <<view>>]
      BY <2>2 DEF Ingest, Show, storeVars
    <3>2. BatchOK(Head(inbox[p])) /\ Follows(core[p].stream, core[p].last, Head(inbox[p]))
      BY <3>1 DEF ChannelOK, Line
    <3>3. Sound(view)
      BY <3>2, IngestSound DEF ChannelOK
    <3>4. view \in View
      BY <3>3 DEF Sound
    <3> HIDE DEF view
    <3>5. QED
      BY <1>1, <1>2, <3>1, <3>3, <3>4
  <2>3. CASE IngestFails(p)
    <3>1. outbox' = [outbox EXCEPT ![p] = <<Failure>>] /\ shown' = shown
      BY <2>3 DEF IngestFails, storeVars
    <3>2. QED
      BY <1>2, <3>1, Blank
  <2>4. CASE Flush(p)
    <3>1. outbox' = [outbox EXCEPT ![p] = <<core[p]>>] /\ shown' = shown
      BY <2>4 DEF Flush, Show, storeVars
    <3>2. core[p] \in View /\ Sound(core[p])
      BY DEF ChannelOK
    <3>3. QED
      BY <1>2, <3>1, <3>2
  <2>5. CASE OnPosted(p)
    <3>1. /\ outbox[p] # <<>> /\ outbox' = [outbox EXCEPT ![p] = <<>>]
          /\ shown' = shown
               \/ (Head(outbox[p]) # Failure /\ shown' = Head(outbox[p]))
      BY <2>5 DEF OnPosted
    <3>2. Sound(shown')
      BY <3>1 DEF ViewsOK
    <3>3. outbox' \in [Pairs -> Seq(View)]
      BY <1>0, <3>1
    <3>4. \A o \in Pairs : outbox'[o] = <<>> \/ outbox'[o] = outbox[o]
      BY <1>0, <3>1
    <3>5. QED
      BY <3>2, <3>3, <3>4 DEF ViewsOK
  <2>6. QED
    BY <1>4, <2>1, <2>2, <2>3, <2>4, <2>5 DEF Delivery, Connecting
<1>5. QED
  BY <1>3, <1>4 DEF Next
-----------------------------------------------------------------------------
(***************************************************************************)
(* The theorems.                                                           *)
(***************************************************************************)
RuntimeType ==
  /\ stream \in Streams \cup {0} /\ next \in 1..(MaxFrames + 1)
  /\ accepts \in 0..MaxAccepts /\ subscribed \in SUBSET Pairs

LEMMA NextRuntime == RuntimeType /\ [Next]_vars => RuntimeType'
<1> SUFFICES ASSUME RuntimeType, [Next]_vars PROVE RuntimeType'
  OBVIOUS
<1>1. CASE Publish
  <2>1. PICK last \in next..MaxFrames : next' = last + 1
    BY <1>1 DEF Publish
  <2>2. next' \in 1..(MaxFrames + 1)
    BY <2>1, StreamAssumption, ViewAssumption DEF RuntimeType
  <2>3. QED
    BY <1>1, <2>2 DEF Publish, RuntimeType
<1>2. CASE StartCapture
  <2>1. /\ stream < MaxStreams /\ stream' = stream + 1 /\ next' = 1
        /\ UNCHANGED <<accepts, subscribed>>
    BY <1>2 DEF StartCapture
  <2>2. stream' \in Streams \cup {0} /\ next' \in 1..(MaxFrames + 1)
    BY <2>1, StreamAssumption, ViewAssumption DEF RuntimeType, Streams
  <2>3. QED
    BY <2>1, <2>2 DEF RuntimeType
<1>3. ASSUME NEW p \in Pairs, Accept(p) PROVE RuntimeType'
  <2>1. /\ accepts < MaxAccepts /\ accepts' = accepts + 1
        /\ subscribed' = subscribed \cup {p} /\ UNCHANGED <<stream, next>>
    BY <1>3 DEF Accept
  <2>2. accepts' \in 0..MaxAccepts
    BY <2>1, StreamAssumption, ViewAssumption DEF RuntimeType
  <2>3. QED
    BY <2>1, <2>2 DEF RuntimeType
<1>4. CASE Subscribe \/ Leave \/ RetryFires \/ UNCHANGED vars
  BY <1>4 DEF Subscribe, Leave, RetryFires, vars, runtimeVars, RuntimeType
<1>5. ASSUME NEW p \in Pairs, Delivery(p) \/ Disconnect(p) \/ WorkerError(p)
      PROVE  RuntimeType'
  <2>1. /\ UNCHANGED <<stream, next, accepts>>
        /\ subscribed' = subscribed \/ subscribed' = subscribed \ {p}
    BY <1>5 DEF Delivery, Disconnect, WorkerError, Send, Unsubscribe, OnOpen, OnLost,
       OnPosted, Ingest, IngestFails, Flush, runtimeVars
  <2>2. QED
    BY <2>1 DEF RuntimeType
<1>6. QED
  BY <1>1, <1>2, <1>3, <1>4, <1>5 DEF Next, Connecting

IInv == RuntimeType /\ PipelineType /\ OnePipeline /\ ChannelOK /\ ViewsOK

LEMMA InitIInv == Init => IInv
<1> SUFFICES ASSUME Init PROVE IInv
  OBVIOUS
<1>1. PipelineType
  <2>1. 0 \in 0..MaxListeners /\ 0 \in 0..MaxSubscribes /\ 0 \in 0..Retries
    BY StreamAssumption, ViewAssumption
  <2>2. /\ supported \in BOOLEAN /\ timer \in BOOLEAN /\ connection \in Connections
        /\ listeners = 0 /\ subscribes = 0 /\ attempts = 0
        /\ heard = NoPair /\ current = NoPair
    BY DEF Init, Connections
  <2>3. /\ socket \in [Pairs -> {"none", "connecting", "open", "closed"}]
        /\ events \in [Pairs -> SUBSET Events]
    BY DEF Init, Events
  <2>4. worker \in [Pairs -> BOOLEAN] /\ flush \in [Pairs -> BOOLEAN]
    BY DEF Init
  <2>5. QED
    BY <2>1, <2>2, <2>3, <2>4 DEF PipelineType
<1>2. OnePipeline
  BY StreamAssumption, ViewAssumption DEF Init, OnePipeline
<1>3. ChannelOK
  <2>1. <<>> \in Seq(Batch) /\ Len(<<>>) = 0 /\ 1..0 = {}
    OBVIOUS
  <2>2. Line(<<>>, <<>>, NoView, 0, 1)
    BY <2>1 DEF Line, NoView, Past
  <2>3. QED
    BY <2>1, <2>2, Blank DEF Init, ChannelOK
<1>4. ViewsOK
  <2>1. <<>> \in Seq(View)
    OBVIOUS
  <2>2. QED
    BY <2>1, Blank DEF Init, ViewsOK
<1>5. RuntimeType
  BY StreamAssumption, ViewAssumption DEF Init, RuntimeType
<1>6. QED
  BY <1>1, <1>2, <1>3, <1>4, <1>5 DEF IInv

LEMMA NextIInv == IInv /\ [Next]_vars => IInv'
<1> SUFFICES ASSUME IInv, [Next]_vars PROVE IInv'
  OBVIOUS
<1>0. RuntimeType /\ PipelineType /\ OnePipeline /\ ChannelOK /\ ViewsOK
  BY DEF IInv
<1>1. PipelineType' /\ OnePipeline'
  BY <1>0, NextPipeline
<1>2. ViewsOK'
  BY <1>0, NextViews
<1>3. ChannelOK'
  <2>1. CASE UNCHANGED vars
    BY <1>0, <2>1 DEF vars, runtimeVars, workerVars, ChannelOK
  <2>2. CASE Publish \/ StartCapture
    BY <1>0, <2>2, PublishChannels
  <2>3. CASE Subscribe \/ Leave \/ RetryFires
    BY <1>0, <2>3, StoreChannels
  <2>4. ASSUME NEW p \in Pairs, Delivery(p) \/ Connecting(p) \/ WorkerError(p)
        PROVE  ChannelOK'
    <3>1. CASE OnOpen(p) \/ OnLost(p) \/ OnPosted(p) \/ WorkerError(p)
      BY <1>0, <3>1, StoreChannels
    <3>2. CASE ~(OnOpen(p) \/ OnLost(p) \/ OnPosted(p) \/ WorkerError(p))
      BY <1>0, <2>4, <3>2, PairChannels DEF Delivery, Connecting
    <3>3. QED
      BY <3>1, <3>2
  <2>5. QED
    BY <2>1, <2>2, <2>3, <2>4 DEF Next
<1>4. RuntimeType'
  BY <1>0, NextRuntime
<1>5. QED
  BY <1>1, <1>2, <1>3, <1>4 DEF IInv

\* The invariant the theorems rest on.
THEOREM Invariant == Spec => []IInv
<1>1. QED
  BY InitIInv, NextIInv, PTL DEF Spec

\* The runtime, the store and the pairs hold values of their types, with no more
\* attempts than RETRY_DELAYS_MS has (realtime-stream.ts, #fail).
THEOREM TypeCorrect == Spec => []TypeOK
<1>1. IInv => TypeOK
  <2> SUFFICES ASSUME IInv PROVE TypeOK
    OBVIOUS
  <2>1. /\ RuntimeType /\ PipelineType
        /\ queue \in [Pairs -> Seq(Batch)] /\ inbox \in [Pairs -> Seq(Batch)]
        /\ core \in [Pairs -> View] /\ outbox \in [Pairs -> Seq(View)]
        /\ shown \in View
    BY DEF IInv, ChannelOK, ViewsOK, Sound
  <2>2. QED
    BY <2>1 DEF RuntimeType, PipelineType, TypeOK, Connections, Events
<1>2. QED
  BY <1>1, Invariant, PTL

\* The socket and the worker of the store are one pipeline: no stale socket or
\* worker outlives it, its handlers alone are heard, and the connection the
\* store reports is the one there is (realtime-stream.ts, #open to #release).
THEOREM SinglePipeline == Spec => []OnePipeline
<1>1. IInv => OnePipeline
  BY DEF IInv
<1>2. QED
  BY <1>1, Invariant, PTL

\* Every frame between the first and the last of the view that is shown is in
\* it, counted as dropped or counted as a gap, whatever was dropped by the
\* broker or by the ring on the way (frame-worker-core.ts, ingest).
THEOREM ShownIsAccounted == Spec => []ShownAccounts
<1>1. IInv => ShownAccounts
  <2> SUFFICES ASSUME IInv, shown.stream # 0 PROVE ShownAccounts
    BY DEF ShownAccounts
  <2>1. /\ shown \in View /\ Accounted(shown) = shown.last - shown.first + 1
        /\ shown.frames # <<>> /\ shown.frames[Len(shown.frames)] = shown.last
        /\ Ascends(shown.frames)
    BY DEF IInv, ViewsOK, Sound
  <2>2. DOMAIN shown.frames = 1..Len(shown.frames)
    BY <2>1 DEF View
  <2>3. QED
    BY <2>1, <2>2 DEF ShownAccounts, Ascends
<1>2. QED
  BY <1>1, Invariant, PTL

-----------------------------------------------------------------------------
(***************************************************************************)
(* WorkspaceDecode.  Every change ends with a pass of the coordinator      *)
(* (Pump), on what the change left behind.  The invariant is therefore     *)
(* stated of a session, a viewport, a coordinator, a decoded store and the *)
(* requests (WorkspaceSound): each action makes a sound state for the      *)
(* pass, and the pass keeps it sound.                                      *)
(***************************************************************************)

Entries == [frame : Numbers, asset : Assets, project : Projects]

Sessions == [project : Projects \cup {None}, bound : [Channels -> Assets \cup {None}],
             untouched : BOOLEAN, selected : Selections \cup {None}]
Realtimes == [stream : 0..MaxStreams, view : SUBSET Numbers]
Coordinators == [phase : {"new", "running", "gone"}, inFlight : BOOLEAN,
                 stream : 0..MaxStreams, project : Projects \cup {None},
                 processed : SUBSET Numbers, blocked : Signatures \cup {None}]
Decodeds == [stream : 0..MaxStreams, entries : Seq(Entries),
             status : {"idle", "pending", "ready", "failed"}]

Typed(se, re, co, dec, reqs) ==
  /\ se \in Sessions /\ re \in Realtimes /\ co \in Coordinators
  /\ dec \in Decodeds /\ reqs \in SUBSET Request

\* A selected signal is of the document its channel is bound to.
Chosen(se) == se.selected # None => se.bound[se.selected.channel] = se.selected.asset

\* A viewport is a run of frames, and empty before the first stream only.
Viewed(re) ==
  /\ re.stream = 0 <=> re.view = {}
  /\ re.view # {} => \E first, last \in Numbers : re.view = first..last

\* inFlight is true to the requests while the coordinator runs; what has been
\* recorded is not waited for.
OneRequest(co, reqs) ==
  /\ \A q, r \in reqs : q = r
  /\ co.phase = "new" => reqs = {} /\ ~co.inFlight
  /\ co.phase = "running" => (co.inFlight <=> reqs # {})
  /\ \A r \in reqs : r.recorded => ~r.live

\* A frame the viewport has passed: it does not come back.
Below(n, view) == \A m \in view : n < m

Runs(co) == co.phase = "running"

\* The coordinator knows the stream and the project on screen.
InStep(se, re, co, dec) ==
  Runs(co) => /\ co.stream = re.stream /\ co.project = se.project
              /\ dec.stream \in {0, co.stream}

\* An entry is current, and its frame is answered or passed.
EntryHolds(e, se, re, co) ==
  /\ e.project = se.project
  /\ e.asset = se.bound[ChannelOf[e.frame]]
  /\ e.frame \in co.processed \cap re.view \/ Below(e.frame, re.view)
Shown(se, re, co, dec) ==
  Runs(co) => \A i \in DOMAIN dec.entries :
                dec.stream = re.stream /\ EntryHolds(dec.entries[i], se, re, co)

\* A marker is of a frame in the viewport or passed.
MarkersHold(re, co) ==
  Runs(co) => \A n \in co.processed : n \in re.view \/ Below(n, re.view)

\* What a live request asks is what the screen still needs.
RequestHolds(r, se, re, dec) ==
  /\ r.stream = re.stream /\ r.project = se.project
  /\ \A n \in r.frames :
        /\ se.bound[ChannelOf[n]] = r.asset
        /\ n \in re.view \/ Below(n, re.view)
        /\ \A i \in DOMAIN dec.entries : dec.entries[i].frame # n
LiveHold(se, re, co, dec, reqs) ==
  Runs(co) => \A r \in reqs : r.live => RequestHolds(r, se, re, dec)

\* Pending is said of a live request only.
PendingIsLive(co, dec, reqs) ==
  Runs(co) /\ dec.status = "pending" => \E r \in reqs : r.live

\* Before its start the coordinator has done nothing.
NotBegun(co, dec) ==
  co.phase = "new" => co.stream = 0 /\ co.processed = {} /\ dec = EmptyDecoded

\* With the workspace goes its stream, and nobody waits for an answer.
Disposed(re, co, reqs) ==
  co.phase = "gone" /\ ~Outlives => re.stream = 0 /\ \A r \in reqs : ~r.live

WorkspaceSound(se, re, co, dec, reqs) ==
  /\ Typed(se, re, co, dec, reqs)
  /\ Chosen(se)
  /\ Viewed(re)
  /\ OneRequest(co, reqs)
  /\ InStep(se, re, co, dec)
  /\ Shown(se, re, co, dec)
  /\ MarkersHold(re, co)
  /\ LiveHold(se, re, co, dec, reqs)
  /\ PendingIsLive(co, dec, reqs)
  /\ NotBegun(co, dec)
  /\ Disposed(re, co, reqs)
  /\ Len(dec.entries) <= StoreCapacity

WorkspaceInv == WorkspaceSound(session, realtime, coordinator, decoded, requests)

---------------------------------------------------------------------------
(* Induction on natural numbers, for a set. *)

\* A set of naturals that is not empty has a least element.
LEMMA LeastOf ==
  ASSUME NEW T, T \subseteq Nat, T # {}
  PROVE  \E x \in T : \A y \in T : x <= y
<1>1. PICK x \in T : \A y \in T : ~(<<y, x>> \in OpToRel(<, Nat))
  BY NatLessThanWellFounded, WFMin
<1>2. \A y, z \in Nat : <<y, z>> \in OpToRel(<, Nat) <=> y < z
  BY DEF OpToRel
<1>3. \A y \in T : ~(y < x)
  BY <1>1, <1>2
<1>4. \A y \in T : x <= y
  BY <1>3
<1>5. QED
  BY <1>4

LEMMA SetInduction ==
  ASSUME NEW S, 0 \in S, \A n \in Nat : n \in S => n + 1 \in S
  PROVE  Nat \subseteq S
<1>1. SUFFICES ASSUME Nat \ S # {} PROVE FALSE
  OBVIOUS
<1>2. PICK x \in Nat \ S : \A y \in Nat \ S : x <= y
  BY <1>1, LeastOf
<1>3. x # 0 /\ x - 1 \in Nat /\ x - 1 \in S
  BY <1>2
<1>4. QED
  BY <1>2, <1>3

---------------------------------------------------------------------------
(* applyBatch. *)

\* What SetEntries does with the entries s at frame k.
Stepped(s, k, r) ==
  IF k \in r.frames
  THEN SetEntry(s, [frame |-> k, asset |-> r.asset, project |-> r.project])
  ELSE s

Unrolled(g, n, entries, r) ==
  g = [k \in 0..n |-> IF k = 0 THEN entries ELSE Stepped(g[k - 1], k, r)]

\* The recursion of SetEntries defines a function.
LEMMA SetEntriesUnrolls ==
  ASSUME NEW entries, NEW r, NEW n \in Nat
  PROVE  \E g : Unrolled(g, n, entries, r)
<1> DEFINE S == {m \in Nat : \E g : Unrolled(g, m, entries, r)}
<1>1. 0 \in S
  <2>1. Unrolled([k \in 0..0 |-> entries], 0, entries, r)
    BY DEF Unrolled
  <2>2. QED
    BY <2>1
<1>2. ASSUME NEW m \in Nat, m \in S
      PROVE  m + 1 \in S
  <2>1. PICK g : Unrolled(g, m, entries, r)
    BY <1>2
  <2> DEFINE last == Stepped(g[m], m + 1, r)
             h == [k \in 0..(m + 1) |-> IF k = m + 1 THEN last ELSE g[k]]
  <2>2. \A k \in 0..(m + 1) :
           h[k] = IF k = 0 THEN entries ELSE Stepped(h[k - 1], k, r)
    <3>1. TAKE k \in 0..(m + 1)
    <3>2. CASE k = m + 1
      BY <3>2
    <3>3. CASE k # m + 1
      <4>1. k \in 0..m
        BY <3>3
      <4>2. h[k] = IF k = 0 THEN entries ELSE Stepped(g[k - 1], k, r)
        BY <2>1, <3>3, <4>1 DEF Unrolled
      <4>3. k # 0 => h[k - 1] = g[k - 1]
        BY <4>1
      <4>4. QED
        BY <4>2, <4>3
    <3>4. QED
      BY <3>2, <3>3
  <2> HIDE DEF last
  <2>3. Unrolled(h, m + 1, entries, r)
    BY <2>2 DEF Unrolled
  <2>4. QED
    BY <2>3
<1>3. Nat \subseteq S
  <2> HIDE DEF S
  <2>1. QED
    BY <1>1, <1>2, SetInduction
<1>4. QED
  BY <1>3

LEMMA UnrolledStep ==
  ASSUME NEW g, NEW n \in Nat, NEW entries, NEW r, Unrolled(g, n, entries, r),
         NEW k \in 0..n
  PROVE  g[k] = IF k = 0 THEN entries ELSE Stepped(g[k - 1], k, r)
BY DEF Unrolled

\* An entry of the answer r.
Answered(e, r) ==
  e.frame \in r.frames /\ e = [frame |-> e.frame, asset |-> r.asset, project |-> r.project]

\* Entries that were there, or are of the answer.
Composed(s, entries, r) ==
  /\ s \in Seq(Entries)
  /\ \A i \in DOMAIN s : (\E j \in DOMAIN entries : s[i] = entries[j]) \/ Answered(s[i], r)

LEMMA SteppedComposed ==
  ASSUME NEW entries, NEW r \in Request, NEW s, Composed(s, entries, r),
         NEW k \in Numbers
  PROVE  Composed(Stepped(s, k, r), entries, r)
<1> DEFINE e == [frame |-> k, asset |-> r.asset, project |-> r.project]
<1>1. CASE k \notin r.frames
  BY <1>1 DEF Stepped
<1>2. CASE k \in r.frames
  <2>1. e \in Entries /\ Answered(e, r) /\ Stepped(s, k, r) = SetEntry(s, e)
    BY <1>2 DEF Stepped, Entries, Answered, Request
  <2>2. s \in Seq(Entries) /\ Len(s) \in Nat /\ DOMAIN s = 1..Len(s)
    BY DEF Composed
  <2> HIDE DEF e
  <2>3. CASE \E i \in DOMAIN s : s[i].frame = e.frame
    <3> DEFINE t == [i \in DOMAIN s |-> IF s[i].frame = e.frame THEN e ELSE s[i]]
    <3>1. SetEntry(s, e) = t
      BY <2>3 DEF SetEntry
    <3>2. t \in Seq(Entries) /\ DOMAIN t = DOMAIN s
      BY <2>1, <2>2
    <3>3. \A i \in DOMAIN t : t[i] = e \/ t[i] = s[i]
      OBVIOUS
    <3> HIDE DEF t
    <3>4. QED
      BY <2>1, <3>1, <3>2, <3>3 DEF Composed
  <2>4. CASE ~ \E i \in DOMAIN s : s[i].frame = e.frame
    <3>1. SetEntry(s, e) = Append(s, e)
      BY <2>4 DEF SetEntry
    <3>2. /\ Append(s, e) \in Seq(Entries)
          /\ \A i \in DOMAIN Append(s, e) :
                Append(s, e)[i] = e \/ (i \in DOMAIN s /\ Append(s, e)[i] = s[i])
      BY <2>1, <2>2
    <3>3. QED
      BY <2>1, <3>1, <3>2 DEF Composed
  <2>5. QED
    BY <2>3, <2>4
<1>3. QED
  BY <1>1, <1>2

LEMMA SetEntriesComposed ==
  ASSUME NEW entries \in Seq(Entries), NEW r \in Request
  PROVE  Composed(SetEntries(entries, r), entries, r)
<1> DEFINE f == CHOOSE g : Unrolled(g, MaxFrames, entries, r)
           S == {n \in Nat : n <= MaxFrames => Composed(f[n], entries, r)}
<1>1. MaxFrames \in Nat
  BY WorkspaceAssumption, ViewAssumption
<1>2. Unrolled(f, MaxFrames, entries, r)
  BY <1>1, SetEntriesUnrolls
<1>3. SetEntries(entries, r) = f[MaxFrames]
  BY DEF SetEntries, Unrolled, Stepped
<1> HIDE DEF f
<1>4. 0 \in S
  <2>1. f[0] = entries
    BY <1>1, <1>2 DEF Unrolled
  <2>2. QED
    BY <2>1 DEF Composed
<1>5. ASSUME NEW n \in Nat, n \in S
      PROVE  n + 1 \in S
  <2>1. SUFFICES ASSUME n + 1 <= MaxFrames
                 PROVE  Composed(f[n + 1], entries, r)
    OBVIOUS
  <2>2. n + 1 \in Numbers /\ n + 1 \in 0..MaxFrames /\ n + 1 # 0 /\ n + 1 - 1 = n
    BY <1>1, <2>1 DEF Numbers
  <2>3. f[n + 1] = Stepped(f[n], n + 1, r)
    BY <1>1, <1>2, <2>2, UnrolledStep
  <2>4. Composed(f[n], entries, r)
    BY <1>1, <1>5, <2>1
  <2>5. QED
    BY <2>2, <2>3, <2>4, SteppedComposed
<1>6. MaxFrames \in S
  <2> HIDE DEF S
  <2>1. QED
    BY <1>1, <1>4, <1>5, SetInduction
<1>7. QED
  BY <1>1, <1>3, <1>6

\* What an answer leaves in the store: entries of the same stream, or its own.
LEMMA AppliedBatch ==
  ASSUME NEW dec \in Decodeds, NEW r \in Request
  PROVE  /\ ApplyBatch(dec, r) \in Decodeds
         /\ ApplyBatch(dec, r).stream = r.stream
         /\ ApplyBatch(dec, r).status = "ready"
         /\ Len(ApplyBatch(dec, r).entries) <= StoreCapacity
         /\ \A i \in DOMAIN ApplyBatch(dec, r).entries :
              LET e == ApplyBatch(dec, r).entries[i]
              IN \/ Answered(e, r)
                 \/ /\ dec.stream = r.stream
                    /\ \E j \in DOMAIN dec.entries : e = dec.entries[j]
<1> DEFINE old == IF dec.stream = r.stream THEN dec.entries ELSE <<>>
           new == SetEntries(old, r)
           first == IF Len(new) > StoreCapacity THEN Len(new) - StoreCapacity + 1 ELSE 1
<1>1. StoreCapacity \in Nat \ {0}
  BY WorkspaceAssumption, ViewAssumption
<1>2. old \in Seq(Entries)
  BY DEF Decodeds
<1>3. Composed(new, old, r)
  BY <1>2, SetEntriesComposed
<1>4. ApplyBatch(dec, r) = [stream |-> r.stream, entries |-> Newest(new), status |-> "ready"]
  BY DEF ApplyBatch
<1>5. Newest(new) = SubSeq(new, first, Len(new))
  BY DEF Newest
<1> HIDE DEF new
<1>6. new \in Seq(Entries) /\ Len(new) \in Nat /\ DOMAIN new = 1..Len(new)
  BY <1>3 DEF Composed
<1>7. first \in 1..(Len(new) + 1) /\ Len(new) - first + 1 <= StoreCapacity
  BY <1>1, <1>6
<1> HIDE DEF first
<1>8. /\ Newest(new) \in Seq(Entries)
      /\ Len(Newest(new)) <= StoreCapacity
      /\ \A i \in DOMAIN Newest(new) :
            first + i - 1 \in DOMAIN new /\ Newest(new)[i] = new[first + i - 1]
  BY <1>1, <1>5, <1>6, <1>7, SubSeqProperties
<1>9. \A i \in DOMAIN Newest(new) :
         (\E j \in DOMAIN old : Newest(new)[i] = old[j]) \/ Answered(Newest(new)[i], r)
  BY <1>3, <1>8 DEF Composed
<1>10. r.stream \in 0..MaxStreams
  BY WorkspaceAssumption, ViewAssumption DEF Request
<1>11. QED
  BY <1>4, <1>8, <1>9, <1>10 DEF Decodeds

---------------------------------------------------------------------------
(* The pass of the coordinator. *)

LEMMA WorkSetFacts ==
  ASSUME NEW se \in Sessions, NEW frames \in SUBSET Numbers, BoundFrames(frames, se) # {}
  PROVE  LET work == WorkSet(frames, se)
         IN /\ work.asset \in Assets
            /\ work.frames \subseteq frames
            /\ \A n \in work.frames : se.bound[ChannelOf[n]] = work.asset
<1> DEFINE bound == BoundFrames(frames, se)
           first == CHOOSE n \in bound : \A m \in bound : n <= m
           asset == se.bound[ChannelOf[first]]
<1>1. bound \subseteq Nat
  <2>1. Numbers \subseteq Nat
    BY WorkspaceAssumption, ViewAssumption DEF Numbers
  <2>2. bound \subseteq frames
    BY DEF BoundFrames
  <2>3. QED
    BY <2>1, <2>2
<1>2. first \in bound
  BY <1>1, LeastOf
<1>3. WorkSet(frames, se) =
        [asset |-> asset, frames |-> Cut({n \in frames : se.bound[ChannelOf[n]] = asset})]
  BY DEF WorkSet
<1>4. first \in frames /\ asset # None
  BY <1>2 DEF BoundFrames
<1>5. asset \in Assets
  <2>1. ChannelOf[first] \in Channels
    BY <1>4, WorkspaceAssumption, ViewAssumption
  <2> HIDE DEF first
  <2>2. QED
    BY <1>4, <2>1 DEF Sessions
<1> HIDE DEF asset
<1>6. QED
  BY <1>3, <1>5 DEF Cut

\* What the pass asks of a sound state.
Asks(se, re, co) ==
  /\ ~co.inFlight /\ co.project # None /\ re.stream # 0
  /\ BoundFrames(re.view \ (co.processed \cap re.view), se) # {}

Passed(se, re, co, asked) ==
  [co EXCEPT !.processed = IF ~co.inFlight /\ co.project # None /\ re.stream # 0
                           THEN co.processed \cap re.view ELSE @,
             !.inFlight = @ \/ asked]
Asked(se, re, co) ==
  LET pending == re.view \ (co.processed \cap re.view)
      work == WorkSet(pending, se)
  IN [stream |-> re.stream, project |-> co.project, asset |-> work.asset,
      frames |-> work.frames, pending |-> pending, live |-> TRUE, recorded |-> FALSE]

\* The pass, stated of the values it works on: it asks or it does not.
LEMMA PumpIs ==
  ASSUME NEW co \in Coordinators, NEW dec, NEW reqs, Pump(co, dec, reqs)
  PROVE  \/ /\ coordinator' = Passed(session', realtime', co, FALSE)
            /\ decoded' = dec /\ requests' = reqs
         \/ /\ Asks(session', realtime', co)
            /\ coordinator' = Passed(session', realtime', co, TRUE)
            /\ decoded' = [dec EXCEPT !.status = "pending"]
            /\ requests' = reqs \cup {Asked(session', realtime', co)}
<1> DEFINE ready == ~co.inFlight /\ co.project # None /\ realtime'.stream # 0
           seen == co.processed \cap realtime'.view
           pending == realtime'.view \ seen
           asks == /\ ready
                   /\ [stream |-> realtime'.stream, frames |-> pending] # co.blocked
                   /\ BoundFrames(pending, session') # {}
<1>1. /\ coordinator' = [co EXCEPT !.processed = IF ready THEN seen ELSE @,
                                   !.inFlight = @ \/ asks]
      /\ decoded' = IF asks THEN [dec EXCEPT !.status = "pending"] ELSE dec
      /\ requests' = IF asks THEN reqs \cup {Asked(session', realtime', co)} ELSE reqs
  BY DEF Pump, Busy, Asked
<1>2. asks \in BOOLEAN
  OBVIOUS
<1>3. CASE asks = TRUE
  <2>1. Asks(session', realtime', co)
    BY <1>3 DEF Asks
  <2> HIDE DEF asks
  <2>2. QED
    BY <1>1, <1>3, <2>1 DEF Passed
<1>4. CASE asks = FALSE
  <2> HIDE DEF asks
  <2>1. QED
    BY <1>1, <1>4 DEF Passed
<1>5. QED
  BY <1>2, <1>3, <1>4

\* A pass that asks for nothing keeps the state sound.
LEMMA PassedSound ==
  ASSUME NEW se, NEW re, NEW co, NEW dec, NEW reqs, WorkspaceSound(se, re, co, dec, reqs)
  PROVE  WorkspaceSound(se, re, Passed(se, re, co, FALSE), dec, reqs)
<1> DEFINE new == Passed(se, re, co, FALSE)
<1>1. co \in Coordinators /\ dec \in Decodeds
  BY DEF WorkspaceSound, Typed
<1>2. /\ new \in Coordinators
      /\ new.phase = co.phase /\ new.inFlight = co.inFlight /\ new.stream = co.stream
      /\ new.project = co.project
      /\ new.processed = co.processed \/ new.processed = co.processed \cap re.view
  BY <1>1 DEF Passed, Coordinators
<1> HIDE DEF new
<1>3. Typed(se, re, new, dec, reqs)
  BY <1>2 DEF WorkspaceSound, Typed
<1>4. OneRequest(new, reqs) /\ InStep(se, re, new, dec) /\ PendingIsLive(new, dec, reqs)
  BY <1>2 DEF WorkspaceSound, OneRequest, InStep, PendingIsLive, Runs
<1>5. Shown(se, re, new, dec) /\ MarkersHold(re, new)
  BY <1>2 DEF WorkspaceSound, Shown, MarkersHold, EntryHolds, Runs
<1>6. LiveHold(se, re, new, dec, reqs)
  BY <1>2 DEF WorkspaceSound, LiveHold, Runs
<1>7. NotBegun(new, dec) /\ Disposed(re, new, reqs)
  BY <1>2 DEF WorkspaceSound, NotBegun, Disposed
<1>8. QED
  BY <1>3, <1>4, <1>5, <1>6, <1>7 DEF WorkspaceSound, new

\* Nor does one that asks: what it asks for is on screen and unanswered.
LEMMA AskedSound ==
  ASSUME NEW se, NEW re, NEW co, NEW dec, NEW reqs, WorkspaceSound(se, re, co, dec, reqs),
         Asks(se, re, co), reqs = {}, co.phase # "new"
  PROVE  WorkspaceSound(se, re, Passed(se, re, co, TRUE), [dec EXCEPT !.status = "pending"],
               {Asked(se, re, co)})
<1> DEFINE new == Passed(se, re, co, TRUE)
           r == Asked(se, re, co)
           visible == [dec EXCEPT !.status = "pending"]
<1>1. co \in Coordinators /\ dec \in Decodeds /\ se \in Sessions /\ re \in Realtimes
  BY DEF WorkspaceSound, Typed
<1>2. /\ new \in Coordinators
      /\ new.phase = co.phase /\ new.inFlight = TRUE /\ new.stream = co.stream
      /\ new.project = co.project /\ new.processed = co.processed \cap re.view
  BY <1>1 DEF Passed, Coordinators, Asks
<1>3. /\ visible \in Decodeds /\ visible.entries = dec.entries /\ visible.stream = dec.stream
      /\ visible.status = "pending"
  BY <1>1 DEF Decodeds
<1>4. /\ r \in Request /\ r.live /\ ~r.recorded /\ r.stream = re.stream /\ r.project = co.project
      /\ r.frames \subseteq re.view \ co.processed
      /\ \A n \in r.frames : se.bound[ChannelOf[n]] = r.asset
  <2> DEFINE pending == re.view \ (co.processed \cap re.view)
  <2>1. pending \in SUBSET Numbers /\ BoundFrames(pending, se) # {}
    BY <1>1 DEF Realtimes, Asks
  <2>2. /\ WorkSet(pending, se).asset \in Assets
        /\ WorkSet(pending, se).frames \subseteq pending
        /\ \A n \in WorkSet(pending, se).frames :
              se.bound[ChannelOf[n]] = WorkSet(pending, se).asset
    BY <1>1, <2>1, WorkSetFacts
  <2>3. re.stream \in 1..MaxStreams /\ co.project \in Projects
    BY <1>1 DEF Asks, Realtimes, Coordinators
  <2>4. r = [stream |-> re.stream, project |-> co.project,
             asset |-> WorkSet(pending, se).asset, frames |-> WorkSet(pending, se).frames,
             pending |-> pending, live |-> TRUE, recorded |-> FALSE]
    BY DEF Asked
  <2> HIDE DEF r
  <2>5. QED
    BY <2>1, <2>2, <2>3, <2>4 DEF Request
<1> HIDE DEF new, r, visible
<1>5. Typed(se, re, new, visible, {r})
  BY <1>1, <1>2, <1>3, <1>4 DEF Typed
<1>6. OneRequest(new, {r})
  BY <1>2, <1>4 DEF OneRequest
<1>7. InStep(se, re, new, visible) /\ PendingIsLive(new, visible, {r})
  BY <1>2, <1>3, <1>4 DEF WorkspaceSound, InStep, PendingIsLive, Runs
<1>8. Shown(se, re, new, visible) /\ MarkersHold(re, new)
  BY <1>2, <1>3 DEF WorkspaceSound, Shown, MarkersHold, EntryHolds, Runs
<1>9. LiveHold(se, re, new, visible, {r})
  <2>1. SUFFICES ASSUME Runs(co)
                 PROVE  RequestHolds(r, se, re, visible)
    BY <1>2 DEF LiveHold, Runs
  <2>2. r.stream = re.stream /\ r.project = se.project
    BY <1>4, <2>1 DEF WorkspaceSound, InStep
  <2>3. ASSUME NEW n \in r.frames, NEW i \in DOMAIN dec.entries
        PROVE  dec.entries[i].frame # n
    <3>1. n \in re.view /\ n \notin co.processed
      BY <1>4
    <3>2. EntryHolds(dec.entries[i], se, re, co)
      BY <2>1 DEF WorkspaceSound, Shown
    <3>3. ~Below(n, re.view)
      <4>1. n \in Nat
        BY <1>1, <3>1, WorkspaceAssumption, ViewAssumption DEF Realtimes, Numbers
      <4>2. QED
        BY <3>1, <4>1 DEF Below
    <3>4. QED
      BY <3>1, <3>2, <3>3 DEF EntryHolds
  <2>4. QED
    BY <1>3, <1>4, <2>2, <2>3 DEF RequestHolds
<1>10. NotBegun(new, visible) /\ Disposed(re, new, {r})
  BY <1>2 DEF WorkspaceSound, NotBegun, Disposed, Asks
<1>11. QED
  BY <1>3, <1>5, <1>6, <1>7, <1>8, <1>9, <1>10 DEF WorkspaceSound, new, r, visible

\* The pass keeps the state sound.
LEMMA PumpSound ==
  ASSUME NEW co, NEW dec, NEW reqs, WorkspaceSound(session', realtime', co, dec, reqs),
         Pump(co, dec, reqs), ~co.inFlight => reqs = {}, co.phase # "new"
  PROVE  WorkspaceInv'
<1>1. co \in Coordinators
  BY DEF WorkspaceSound, Typed
<1>2. CASE /\ coordinator' = Passed(session', realtime', co, FALSE)
           /\ decoded' = dec /\ requests' = reqs
  BY <1>2, PassedSound DEF WorkspaceInv
<1>3. CASE /\ Asks(session', realtime', co)
           /\ coordinator' = Passed(session', realtime', co, TRUE)
           /\ decoded' = [dec EXCEPT !.status = "pending"]
           /\ requests' = reqs \cup {Asked(session', realtime', co)}
  <2>1. reqs = {} /\ requests' = {Asked(session', realtime', co)}
    BY <1>3 DEF Asks
  <2>2. WorkspaceSound(session', realtime', Passed(session', realtime', co, TRUE),
              [dec EXCEPT !.status = "pending"], {Asked(session', realtime', co)})
    BY <1>3, <2>1, AskedSound
  <2>3. QED
    BY <1>3, <2>1, <2>2 DEF WorkspaceInv
<1>4. QED
  BY <1>1, <1>2, <1>3, PumpIs

---------------------------------------------------------------------------
(* The steps. *)

LEMMA SupersededFacts ==
  ASSUME NEW reqs \in SUBSET Request, \A q, r \in reqs : q = r
  PROVE  /\ Superseded(reqs) \in SUBSET Request
         /\ \A q, r \in Superseded(reqs) : q = r
         /\ \A r \in Superseded(reqs) : ~r.live
         /\ Superseded(reqs) = {} <=> reqs = {}
BY DEF Superseded, Request

\* Whatever was asked, marked or shown, a new epoch starts sound.
LEMMA EpochSound ==
  ASSUME NEW se \in Sessions, NEW re \in Realtimes, NEW co \in Coordinators,
         NEW dec \in Decodeds, NEW reqs \in SUBSET Request, NEW new,
         Chosen(se), Viewed(re), OneRequest(co, reqs), Runs(co),
         dec.entries = <<>>, dec.status # "pending", dec.stream \in {0, re.stream},
         new = [NewEpoch(co) EXCEPT !.stream = re.stream, !.project = se.project]
  PROVE  /\ WorkspaceSound(se, re, new, dec, Superseded(reqs))
         /\ ~new.inFlight => Superseded(reqs) = {}
         /\ new.phase = "running"
<1> DEFINE sup == Superseded(reqs)
<1>1. /\ new \in Coordinators /\ new.phase = "running" /\ new.inFlight = co.inFlight
      /\ new.stream = re.stream /\ new.project = se.project /\ new.processed = {}
  BY DEF NewEpoch, Coordinators, Realtimes, Sessions, Runs
<1>2. /\ sup \in SUBSET Request /\ \A q, r \in sup : q = r
      /\ \A r \in sup : ~r.live
      /\ sup = {} <=> reqs = {}
  BY SupersededFacts DEF OneRequest
<1> HIDE DEF sup
<1>3. OneRequest(new, sup)
  BY <1>1, <1>2 DEF OneRequest, Runs
<1>4. InStep(se, re, new, dec)
  BY <1>1 DEF InStep
<1>5. Len(dec.entries) = 0 /\ DOMAIN dec.entries = {}
  OBVIOUS
<1>6. Shown(se, re, new, dec) /\ MarkersHold(re, new)
  BY <1>1, <1>5 DEF Shown, MarkersHold
<1>7. LiveHold(se, re, new, dec, sup) /\ PendingIsLive(new, dec, sup)
  BY <1>2 DEF LiveHold, PendingIsLive
<1>8. NotBegun(new, dec) /\ Disposed(re, new, sup)
  BY <1>1 DEF NotBegun, Disposed
<1>9. 0 <= StoreCapacity
  BY WorkspaceAssumption, ViewAssumption
<1>10. WorkspaceSound(se, re, new, dec, sup)
  BY <1>1, <1>2, <1>3, <1>4, <1>5, <1>6, <1>7, <1>8, <1>9 DEF WorkspaceSound, Typed
<1>11. QED
  BY <1>1, <1>2, <1>3, <1>10 DEF OneRequest, sup

LEMMA EmptyDecodedFacts ==
  EmptyDecoded \in Decodeds /\ EmptyDecoded.entries = <<>>
    /\ EmptyDecoded.status # "pending" /\ EmptyDecoded.stream = 0
BY WorkspaceAssumption, ViewAssumption DEF EmptyDecoded, Decodeds

\* A change of the session.
LEMMA SessionSound ==
  ASSUME WorkspaceInv, session' \in Sessions, Chosen(session'), UNCHANGED realtime, OnSession
  PROVE  WorkspaceInv'
<1>1. /\ session \in Sessions /\ realtime \in Realtimes /\ coordinator \in Coordinators
      /\ decoded \in Decodeds /\ requests \in SUBSET Request
  BY DEF WorkspaceInv, WorkspaceSound, Typed
<1>2. CASE coordinator.phase # "running"
  <2>1. UNCHANGED <<coordinator, decoded, requests>>
    BY <1>2 DEF OnSession
  <2>2. QED
    BY <1>1, <1>2, <2>1 DEF WorkspaceInv, WorkspaceSound, Typed, OneRequest, InStep, Shown, MarkersHold,
       LiveHold, PendingIsLive, NotBegun, Disposed, Runs, Viewed
<1>3. CASE coordinator.phase = "running" /\ BindingsChanged(coordinator)
  <2> DEFINE new == [NewEpoch(coordinator) EXCEPT !.project = session'.project]
  <2>1. Pump(new, EmptyDecoded, Superseded(requests))
    BY <1>3 DEF OnSession
  <2>2. coordinator.stream = realtime'.stream
    BY <1>3 DEF WorkspaceInv, WorkspaceSound, InStep, Runs
  <2>3. new = [NewEpoch(coordinator) EXCEPT !.stream = realtime'.stream,
                                            !.project = session'.project]
    BY <1>1, <2>2 DEF NewEpoch, Coordinators
  <2> HIDE DEF new
  <2>4. /\ WorkspaceSound(session', realtime', new, EmptyDecoded, Superseded(requests))
        /\ ~new.inFlight => Superseded(requests) = {}
        /\ new.phase = "running"
    <3>1. realtime' \in Realtimes /\ Viewed(realtime')
      BY <1>1 DEF WorkspaceInv, WorkspaceSound
    <3>2. OneRequest(coordinator, requests) /\ Runs(coordinator)
      BY <1>3 DEF WorkspaceInv, WorkspaceSound, Runs
    <3>3. QED
      BY <1>1, <2>3, <3>1, <3>2, EmptyDecodedFacts, EpochSound
  <2>5. QED
    BY <2>1, <2>4, PumpSound
<1>4. CASE coordinator.phase = "running" /\ ~BindingsChanged(coordinator)
  <2>1. Pump(coordinator, decoded, requests)
    BY <1>4 DEF OnSession
  <2>2. session'.project = session.project /\ session'.bound = session.bound
    BY <1>4 DEF BindingsChanged, WorkspaceInv, WorkspaceSound, InStep, Runs
  <2>3. WorkspaceSound(session', realtime', coordinator, decoded, requests)
    <3>1. Typed(session', realtime', coordinator, decoded, requests)
      BY <1>1 DEF Typed
    <3>2. InStep(session', realtime', coordinator, decoded)
      BY <2>2 DEF WorkspaceInv, WorkspaceSound, InStep
    <3>3. Shown(session', realtime', coordinator, decoded)
      BY <2>2 DEF WorkspaceInv, WorkspaceSound, Shown, EntryHolds
    <3>4. LiveHold(session', realtime', coordinator, decoded, requests)
      BY <2>2 DEF WorkspaceInv, WorkspaceSound, LiveHold, RequestHolds
    <3>5. QED
      BY <3>1, <3>2, <3>3, <3>4 DEF WorkspaceInv, WorkspaceSound
  <2>4. ~coordinator.inFlight => requests = {}
    BY <1>4 DEF WorkspaceInv, WorkspaceSound, OneRequest
  <2>5. QED
    BY <1>4, <2>1, <2>3, <2>4, PumpSound
<1>5. QED
  BY <1>2, <1>3, <1>4

LEMMA SessionStepSound ==
  ASSUME WorkspaceInv, SessionStep
  PROVE  WorkspaceInv'
<1>1. session \in Sessions /\ Chosen(session)
  BY DEF WorkspaceInv, WorkspaceSound, Typed
<1>2. ASSUME NEW p \in Projects \cup {None}, session' = [EmptySession EXCEPT !.project = p]
      PROVE  session' \in Sessions /\ Chosen(session')
  BY <1>2 DEF EmptySession, Sessions, Chosen
<1>3. ASSUME NEW bound \in [Channels -> Assets \cup {None}], session' = Rebound(bound)
      PROVE  session' \in Sessions /\ Chosen(session')
  <2>1. /\ session'.project = session.project /\ session'.bound = bound
        /\ session'.untouched = FALSE
        /\ session'.selected = IF /\ session.selected # None
                                  /\ bound[session.selected.channel] = session.selected.asset
                               THEN session.selected ELSE None
        /\ session' = [project |-> session'.project, bound |-> session'.bound,
                       untouched |-> session'.untouched, selected |-> session'.selected]
    BY <1>1, <1>3 DEF Rebound, Sessions
  <2>2. session' \in Sessions
    BY <1>1, <2>1 DEF Sessions
  <2>3. QED
    BY <2>1, <2>2 DEF Chosen
<1>4. session' \in Sessions /\ Chosen(session')
  <2>1. CASE \E p \in Projects : OpenProject(p)
    BY <1>2, <2>1 DEF OpenProject
  <2>2. CASE CloseProject
    BY <2>2 DEF CloseProject, EmptySession, Sessions, Chosen
  <2>3. CASE \E c \in Channels, a \in Assets : BindChannel(c, a)
    <3>1. PICK c \in Channels, a \in Assets : BindChannel(c, a)
      BY <2>3
    <3>2. [session.bound EXCEPT ![c] = a] \in [Channels -> Assets \cup {None}]
      BY <1>1 DEF Sessions
    <3>3. QED
      BY <1>3, <3>1, <3>2 DEF BindChannel
  <2>4. CASE \E c \in Channels : UnbindChannel(c)
    <3>1. PICK c \in Channels : UnbindChannel(c)
      BY <2>4
    <3>2. [session.bound EXCEPT ![c] = None] \in [Channels -> Assets \cup {None}]
      BY <1>1 DEF Sessions
    <3>3. QED
      BY <1>3, <3>1, <3>2 DEF UnbindChannel
  <2>5. CASE ClearBindings
    BY <1>1, <1>2, <2>5 DEF ClearBindings, Sessions
  <2>6. CASE \E s \in Selections \cup {None} : SelectSignal(s)
    BY <1>1, <2>6 DEF SelectSignal, Sessions, Chosen
  <2>7. QED
    BY <2>1, <2>2, <2>3, <2>4, <2>5, <2>6 DEF SessionStep
<1>5. UNCHANGED realtime /\ OnSession
  BY DEF SessionStep, OpenProject, CloseProject, BindChannel, UnbindChannel,
     ClearBindings, SelectSignal
<1>6. QED
  BY <1>4, <1>5, SessionSound

\* The first viewport, or one of another stream.
LEMMA StreamSound ==
  ASSUME session' \in Sessions, realtime' \in Realtimes, Chosen(session'), Viewed(realtime'),
         NEW co \in Coordinators, Runs(co), co.project = session'.project,
         decoded \in Decodeds, decoded.stream \in {0, co.stream},
         requests \in SUBSET Request, OneRequest(co, requests),
         realtime'.stream \notin {0, co.stream}, OnRealtime(co)
  PROVE  WorkspaceInv'
<1> DEFINE new == [NewEpoch(co) EXCEPT !.stream = realtime'.stream]
           dec == [EmptyDecoded EXCEPT !.stream = realtime'.stream]
<1>1. Pump(new, dec, Superseded(requests))
  BY DEF OnRealtime
<1>2. new = [NewEpoch(co) EXCEPT !.stream = realtime'.stream, !.project = session'.project]
  BY DEF NewEpoch, Coordinators
<1>3. /\ dec \in Decodeds /\ dec.entries = <<>> /\ dec.status # "pending"
      /\ dec.stream = realtime'.stream
  <2>1. realtime'.stream \in 0..MaxStreams
    BY DEF Realtimes
  <2>2. QED
    BY <2>1, EmptyDecodedFacts DEF Decodeds
<1> HIDE DEF new, dec
<1>4. /\ WorkspaceSound(session', realtime', new, dec, Superseded(requests))
      /\ ~new.inFlight => Superseded(requests) = {}
      /\ new.phase = "running"
  BY <1>2, <1>3, EpochSound
<1>5. QED
  BY <1>1, <1>4, PumpSound

LEMMA StartSound ==
  ASSUME WorkspaceInv, Start
  PROVE  WorkspaceInv'
<1> DEFINE co == [coordinator EXCEPT !.phase = "running", !.project = session.project]
<1>1. /\ session \in Sessions /\ realtime \in Realtimes /\ coordinator \in Coordinators
      /\ decoded \in Decodeds /\ requests \in SUBSET Request
  BY DEF WorkspaceInv, WorkspaceSound, Typed
<1>2. /\ coordinator.phase = "new" /\ OnRealtime(co)
      /\ session' = session /\ realtime' = realtime
  BY DEF Start
<1>3. /\ requests = {} /\ ~coordinator.inFlight /\ coordinator.stream = 0
      /\ coordinator.processed = {} /\ decoded = EmptyDecoded
  BY <1>2 DEF WorkspaceInv, WorkspaceSound, OneRequest, NotBegun
<1>4. /\ co \in Coordinators /\ co.phase = "running" /\ co.project = session.project
      /\ co.stream = 0 /\ co.processed = {} /\ ~co.inFlight
  BY <1>1, <1>3 DEF Coordinators, Sessions
<1> HIDE DEF co
<1>5. OneRequest(co, requests) /\ Runs(co)
  BY <1>3, <1>4 DEF OneRequest, Runs
<1>6. Chosen(session) /\ Viewed(realtime)
  BY DEF WorkspaceInv, WorkspaceSound
<1>7. CASE realtime.stream = 0
  <2>1. Pump(co, decoded, requests)
    BY <1>2, <1>4, <1>7 DEF OnRealtime
  <2>2. DOMAIN decoded.entries = {} /\ Len(decoded.entries) = 0 /\ decoded.stream = 0
        /\ decoded.status # "pending"
    BY <1>3 DEF EmptyDecoded
  <2>3. WorkspaceSound(session, realtime, co, decoded, requests)
    <3>1. Typed(session, realtime, co, decoded, requests)
      BY <1>1, <1>4 DEF Typed
    <3>2. InStep(session, realtime, co, decoded) /\ Shown(session, realtime, co, decoded)
      BY <1>4, <1>7, <2>2 DEF InStep, Shown
    <3>3. /\ MarkersHold(realtime, co) /\ LiveHold(session, realtime, co, decoded, requests)
          /\ PendingIsLive(co, decoded, requests) /\ NotBegun(co, decoded)
          /\ Disposed(realtime, co, requests)
      BY <1>3, <1>4, <2>2 DEF MarkersHold, LiveHold, PendingIsLive, NotBegun, Disposed
    <3>4. Len(decoded.entries) <= StoreCapacity
      BY <2>2, WorkspaceAssumption, ViewAssumption
    <3>5. QED
      BY <1>5, <1>6, <3>1, <3>2, <3>3, <3>4 DEF WorkspaceSound
  <2>4. QED
    BY <1>2, <1>3, <1>4, <2>1, <2>3, PumpSound
<1>8. CASE realtime.stream # 0
  <2>1. decoded.stream = 0
    BY <1>3 DEF EmptyDecoded
  <2>2. QED
    BY <1>1, <1>2, <1>4, <1>5, <1>6, <1>8, <2>1, StreamSound
<1>9. QED
  BY <1>7, <1>8

\* The same stream further on: what has left the viewport is behind it.
LEMMA FurtherOn ==
  ASSUME NEW old \in SUBSET Numbers, NEW a \in Numbers, NEW b \in Numbers,
         Further(old, a..b),
         old # {} => \E c, d \in Numbers : old = c..d,
         NEW n \in Numbers
  PROVE  /\ Below(n, old) => Below(n, a..b)
         /\ n \in old => n \in a..b \/ Below(n, a..b)
<1>1. Numbers \subseteq Nat
  BY WorkspaceAssumption, ViewAssumption DEF Numbers
<1>2. ASSUME Below(n, old)
      PROVE  Below(n, a..b)
  <2>1. SUFFICES ASSUME NEW m \in a..b PROVE n < m
    BY DEF Below
  <2>2. PICK k \in old : k <= m
    BY DEF Further
  <2>3. n < k
    BY <1>2 DEF Below
  <2>4. QED
    BY <1>1, <2>2, <2>3
<1>3. ASSUME n \in old, n \notin a..b
      PROVE  Below(n, a..b)
  <2>1. PICK m \in a..b : n <= m
    BY <1>3 DEF Further
  <2>2. n < a
    BY <1>1, <1>3, <2>1
  <2>3. QED
    BY <1>1, <2>2 DEF Below
<1>4. QED
  BY <1>2, <1>3

LEMMA EntryType ==
  ASSUME NEW s \in Seq(Entries), NEW i \in DOMAIN s
  PROVE  s[i].frame \in Numbers
<1>1. i \in 1..Len(s)
  OBVIOUS
<1>2. s[i] \in Entries
  BY <1>1, ElementOfSeq
<1>3. QED
  BY <1>2 DEF Entries

LEMMA ShowSound ==
  ASSUME WorkspaceInv, ShowFrames
  PROVE  WorkspaceInv'
<1>1. /\ session \in Sessions /\ realtime \in Realtimes /\ coordinator \in Coordinators
      /\ decoded \in Decodeds /\ requests \in SUBSET Request
      /\ Chosen(session) /\ Viewed(realtime)
  BY DEF WorkspaceInv, WorkspaceSound, Typed
<1>2. PICK to \in {realtime.stream, realtime.stream + 1} \cap 1..MaxStreams,
           first \in Numbers, last \in Numbers :
        /\ first <= last
        /\ to = realtime.stream => Further(realtime.view, first..last)
        /\ realtime' = [stream |-> to, view |-> first..last]
  BY DEF ShowFrames
<1>3. /\ session' = session
      /\ coordinator.phase = "running" \/ Outlives
      /\ IF coordinator.phase = "running"
         THEN OnRealtime(coordinator)
         ELSE UNCHANGED <<coordinator, decoded, requests>>
  BY DEF ShowFrames
<1>4. /\ realtime'.stream = to /\ realtime'.view = first..last
      /\ realtime' \in Realtimes /\ Viewed(realtime')
  <2>1. first..last \in SUBSET Numbers
    BY WorkspaceAssumption, ViewAssumption DEF Numbers
  <2>2. first \in first..last
    BY <1>2, WorkspaceAssumption, ViewAssumption DEF Numbers
  <2>3. to \in 0..MaxStreams /\ to # 0
    BY <1>2, WorkspaceAssumption, ViewAssumption
  <2>4. QED
    BY <1>2, <2>1, <2>2, <2>3 DEF Realtimes, Viewed
<1>5. CASE coordinator.phase # "running"
  BY <1>1, <1>3, <1>4, <1>5 DEF WorkspaceInv, WorkspaceSound, Typed, OneRequest, InStep, Shown, MarkersHold,
     LiveHold, PendingIsLive, NotBegun, Disposed, Runs
<1>6. CASE coordinator.phase = "running" /\ to = realtime.stream
  <2>1. /\ coordinator.stream = realtime.stream
        /\ decoded.stream \in {0, coordinator.stream}
        /\ Shown(session, realtime, coordinator, decoded)
        /\ MarkersHold(realtime, coordinator)
        /\ LiveHold(session, realtime, coordinator, decoded, requests)
    BY <1>6 DEF WorkspaceInv, WorkspaceSound, InStep, Runs
  <2>2. Pump(coordinator, decoded, requests)
    BY <1>3, <1>4, <1>6, <2>1 DEF OnRealtime
  <2>3. \A n \in Numbers :
           /\ Below(n, realtime.view) => Below(n, realtime'.view)
           /\ n \in realtime.view => n \in realtime'.view \/ Below(n, realtime'.view)
    <3>1. realtime.view \in SUBSET Numbers /\ Further(realtime.view, first..last)
      BY <1>1, <1>2, <1>6 DEF Realtimes
    <3>2. QED
      BY <1>1, <1>4, <3>1, FurtherOn DEF Viewed
  <2>4. WorkspaceSound(session', realtime', coordinator, decoded, requests)
    <3>1. Typed(session', realtime', coordinator, decoded, requests)
      BY <1>1, <1>3, <1>4 DEF Typed
    <3>2. InStep(session', realtime', coordinator, decoded)
      BY <1>3, <1>4, <1>6 DEF WorkspaceInv, WorkspaceSound, InStep
    <3>3. Shown(session', realtime', coordinator, decoded)
      <4>1. ASSUME NEW i \in DOMAIN decoded.entries
            PROVE  /\ decoded.stream = realtime'.stream
                   /\ EntryHolds(decoded.entries[i], session', realtime', coordinator)
        <5>1. /\ decoded.stream = realtime.stream
              /\ EntryHolds(decoded.entries[i], session, realtime, coordinator)
          BY <1>6, <2>1 DEF Shown, Runs
        <5>2. decoded.entries[i].frame \in Numbers
          <6>1. decoded.entries \in Seq(Entries)
            BY <1>1 DEF Decodeds
          <6>2. QED
            BY <6>1, EntryType
        <5>3. QED
          BY <1>3, <1>4, <1>6, <2>3, <5>1, <5>2 DEF EntryHolds
      <4>2. QED
        BY <4>1 DEF Shown
    <3>4. MarkersHold(realtime', coordinator)
      <4>1. coordinator.processed \subseteq Numbers
        BY <1>1 DEF Coordinators
      <4>2. QED
        BY <1>6, <2>1, <2>3, <4>1 DEF MarkersHold, Runs
    <3>5. LiveHold(session', realtime', coordinator, decoded, requests)
      <4>1. ASSUME NEW r \in requests, r.live
            PROVE  RequestHolds(r, session', realtime', decoded)
        <5>1. RequestHolds(r, session, realtime, decoded)
          BY <1>6, <2>1, <4>1 DEF LiveHold, Runs
        <5>2. r.frames \subseteq Numbers
          BY <1>1 DEF Request
        <5>3. QED
          BY <1>3, <1>4, <1>6, <2>3, <5>1, <5>2 DEF RequestHolds
      <4>2. QED
        BY <4>1 DEF LiveHold
    <3>6. Disposed(realtime', coordinator, requests)
      BY <1>6 DEF Disposed
    <3>7. QED
      BY <1>3, <1>4, <3>1, <3>2, <3>3, <3>4, <3>5, <3>6 DEF WorkspaceInv, WorkspaceSound
  <2>5. ~coordinator.inFlight => requests = {}
    BY <1>6 DEF WorkspaceInv, WorkspaceSound, OneRequest
  <2>6. QED
    BY <1>6, <2>2, <2>4, <2>5, PumpSound
<1>7. CASE coordinator.phase = "running" /\ to # realtime.stream
  <2>1. /\ coordinator.stream = realtime.stream
        /\ coordinator.project = session.project
        /\ decoded.stream \in {0, coordinator.stream}
        /\ OneRequest(coordinator, requests)
    BY <1>7 DEF WorkspaceInv, WorkspaceSound, InStep, Runs
  <2>2. realtime'.stream \notin {0, coordinator.stream}
    BY <1>2, <1>4, <1>7, <2>1, WorkspaceAssumption, ViewAssumption
  <2>3. QED
    BY <1>1, <1>3, <1>4, <1>7, <2>1, <2>2, StreamSound DEF Runs
<1>8. QED
  BY <1>5, <1>6, <1>7

LEMMA UnmountSound ==
  ASSUME WorkspaceInv, Unmount
  PROVE  WorkspaceInv'
<1>1. /\ session \in Sessions /\ realtime \in Realtimes /\ coordinator \in Coordinators
      /\ decoded \in Decodeds /\ requests \in SUBSET Request
  BY DEF WorkspaceInv, WorkspaceSound, Typed
<1>2. /\ coordinator' \in Coordinators /\ coordinator'.phase = "gone"
      /\ session' = session /\ decoded' = decoded
  BY <1>1 DEF Unmount, Coordinators
<1>3. /\ realtime' \in Realtimes /\ Viewed(realtime')
      /\ ~Outlives => realtime'.stream = 0
  <2>1. CASE Outlives
    BY <1>1, <2>1 DEF Unmount, WorkspaceInv, WorkspaceSound
  <2>2. CASE ~Outlives
    BY <2>2, WorkspaceAssumption, ViewAssumption DEF Unmount, Realtimes, Viewed
  <2>3. QED
    BY <2>1, <2>2
<1>4. /\ requests' \in SUBSET Request /\ \A q, r \in requests' : q = r
      /\ \A r \in requests' : ~r.live
  BY <1>1, SupersededFacts DEF Unmount, WorkspaceInv, WorkspaceSound, OneRequest
<1>5. QED
  BY <1>1, <1>2, <1>3, <1>4 DEF WorkspaceInv, WorkspaceSound, Typed, OneRequest, InStep, Shown, MarkersHold,
     LiveHold, PendingIsLive, NotBegun, Disposed, Runs

\* A request whose answer is recorded stays until its end, and nobody waits for it.
LEMMA RecordSound ==
  ASSUME WorkspaceInv, NEW r \in requests, NEW co, NEW dec, co \in Coordinators, dec \in Decodeds,
         co.phase = coordinator.phase, co.stream = coordinator.stream,
         co.inFlight = coordinator.inFlight, co.project = coordinator.project,
         coordinator.phase = "running" =>
           /\ dec.stream \in {0, co.stream}
           /\ Shown(session, realtime, co, dec)
           /\ MarkersHold(realtime, co)
           /\ dec.status # "pending",
         Len(dec.entries) <= StoreCapacity,
         session' = session, realtime' = realtime,
         coordinator' = co, decoded' = dec, requests' = Record(r)
  PROVE  WorkspaceInv'
<1> DEFINE done == [r EXCEPT !.live = FALSE, !.recorded = TRUE]
<1>1. /\ session \in Sessions /\ realtime \in Realtimes
      /\ requests \in SUBSET Request /\ r \in Request
  BY DEF WorkspaceInv, WorkspaceSound, Typed
<1>2. done \in Request /\ ~done.live
  BY <1>1 DEF Request
<1>3. requests' = {done}
  BY DEF WorkspaceInv, WorkspaceSound, OneRequest, Record
<1>4. coordinator.phase # "new"
  BY DEF WorkspaceInv, WorkspaceSound, OneRequest
<1> HIDE DEF done
<1>5. Typed(session, realtime, co, dec, {done})
  BY <1>1, <1>2 DEF Typed
<1>6. OneRequest(co, {done}) /\ InStep(session, realtime, co, dec)
  BY <1>2, <1>4 DEF OneRequest, WorkspaceInv, WorkspaceSound, InStep, Runs
<1>7. Shown(session, realtime, co, dec) /\ MarkersHold(realtime, co)
  BY DEF Shown, MarkersHold, Runs
<1>8. LiveHold(session, realtime, co, dec, {done}) /\ PendingIsLive(co, dec, {done})
  BY <1>2 DEF LiveHold, PendingIsLive, Runs
<1>9. NotBegun(co, dec) /\ Disposed(realtime, co, {done})
  BY <1>2, <1>4 DEF NotBegun, WorkspaceInv, WorkspaceSound, Disposed
<1>10. QED
  BY <1>3, <1>5, <1>6, <1>7, <1>8, <1>9 DEF WorkspaceInv, WorkspaceSound

\* What is shown and marked while nobody waits for the request that is out.
LEMMA UnawaitedFacts ==
  ASSUME WorkspaceInv, NEW r \in requests, ~r.live, NEW co,
         co.stream = coordinator.stream, co.processed = coordinator.processed,
         co.phase = coordinator.phase, coordinator.phase = "running"
  PROVE  /\ decoded.stream \in {0, co.stream}
         /\ Shown(session, realtime, co, decoded)
         /\ MarkersHold(realtime, co)
         /\ decoded.status # "pending"
<1>1. decoded.stream \in {0, co.stream} /\ decoded.status # "pending"
  BY DEF WorkspaceInv, WorkspaceSound, InStep, PendingIsLive, OneRequest, Runs
<1>2. Shown(session, realtime, co, decoded) /\ MarkersHold(realtime, co)
  BY DEF WorkspaceInv, WorkspaceSound, Shown, EntryHolds, MarkersHold, Runs
<1>3. QED
  BY <1>1, <1>2

\* An answer nobody waits for changes nothing but that it is recorded.
LEMMA DeadSound ==
  ASSUME WorkspaceInv, NEW r \in requests, ~r.live, requests' = Record(r),
         UNCHANGED <<session, realtime, coordinator, decoded>>
  PROVE  WorkspaceInv'
<1>1. /\ coordinator \in Coordinators /\ decoded \in Decodeds
      /\ Len(decoded.entries) <= StoreCapacity
  BY DEF WorkspaceInv, WorkspaceSound, Typed
<1>2. QED
  BY <1>1, UnawaitedFacts, RecordSound

\* A request that has ended leaves none, and the pass runs.
LEMMA FinishSound ==
  ASSUME WorkspaceInv, NEW r \in requests, Finish(r)
  PROVE  WorkspaceInv'
<1> DEFINE co == [coordinator EXCEPT !.inFlight = FALSE]
<1>1. /\ session \in Sessions /\ realtime \in Realtimes /\ coordinator \in Coordinators
      /\ decoded \in Decodeds /\ Len(decoded.entries) <= StoreCapacity
  BY DEF WorkspaceInv, WorkspaceSound, Typed
<1>2. /\ Pump(co, decoded, requests \ {r})
      /\ r.recorded /\ session' = session /\ realtime' = realtime
  BY DEF Finish
<1>3. ~r.live /\ requests \ {r} = {} /\ coordinator.phase # "new"
  BY <1>2 DEF WorkspaceInv, WorkspaceSound, OneRequest
<1>4. /\ co \in Coordinators /\ co.phase = coordinator.phase
      /\ co.stream = coordinator.stream /\ ~co.inFlight
      /\ co.project = coordinator.project /\ co.processed = coordinator.processed
  BY <1>1 DEF Coordinators
<1> HIDE DEF co
<1>5. WorkspaceSound(session, realtime, co, decoded, {})
  <2>1. Typed(session, realtime, co, decoded, {})
    BY <1>1, <1>4 DEF Typed
  <2>2. OneRequest(co, {}) /\ InStep(session, realtime, co, decoded)
    BY <1>3, <1>4 DEF OneRequest, WorkspaceInv, WorkspaceSound, InStep, Runs
  <2>3. /\ Shown(session, realtime, co, decoded) /\ MarkersHold(realtime, co)
        /\ PendingIsLive(co, decoded, {})
    BY <1>3, <1>4, UnawaitedFacts DEF Shown, MarkersHold, PendingIsLive, Runs
  <2>4. LiveHold(session, realtime, co, decoded, {})
    BY DEF LiveHold
  <2>5. NotBegun(co, decoded) /\ Disposed(realtime, co, {})
    BY <1>3, <1>4 DEF NotBegun, WorkspaceInv, WorkspaceSound, Disposed
  <2>6. QED
    BY <2>1, <2>2, <2>3, <2>4, <2>5 DEF WorkspaceInv, WorkspaceSound
<1>6. QED
  BY <1>2, <1>3, <1>4, <1>5, PumpSound

LEMMA AnswerSound ==
  ASSUME WorkspaceInv, NEW r \in requests, Answer(r)
  PROVE  WorkspaceInv'
<1>1. /\ session \in Sessions /\ realtime \in Realtimes /\ coordinator \in Coordinators
      /\ decoded \in Decodeds /\ r \in Request
      /\ Len(decoded.entries) <= StoreCapacity
  BY DEF WorkspaceInv, WorkspaceSound, Typed
<1>2. session' = session /\ realtime' = realtime
  BY DEF Answer
<1>3. CASE r.live
  <2> DEFINE co == Marked(coordinator, r)
             dec == ApplyBatch(decoded, r)
  <2>1. coordinator' = co /\ decoded' = dec /\ requests' = Record(r)
    BY <1>3 DEF Answer, IsLive
  <2>2. /\ co \in Coordinators /\ co.phase = coordinator.phase
        /\ co.stream = coordinator.stream /\ co.inFlight = coordinator.inFlight
        /\ co.project = coordinator.project
        /\ co.processed = coordinator.processed \cup r.frames
    BY <1>1 DEF Marked, Coordinators, Request
  <2>3. /\ dec \in Decodeds /\ dec.stream = r.stream /\ dec.status = "ready"
        /\ Len(dec.entries) <= StoreCapacity
        /\ \A i \in DOMAIN dec.entries :
              \/ Answered(dec.entries[i], r)
              \/ /\ decoded.stream = r.stream
                 /\ \E j \in DOMAIN decoded.entries : dec.entries[i] = decoded.entries[j]
    BY <1>1, AppliedBatch
  <2> HIDE DEF co, dec
  <2>4. ASSUME coordinator.phase = "running"
        PROVE  /\ dec.stream \in {0, co.stream}
               /\ Shown(session, realtime, co, dec)
               /\ MarkersHold(realtime, co)
    <3>1. /\ RequestHolds(r, session, realtime, decoded)
          /\ Shown(session, realtime, coordinator, decoded)
          /\ MarkersHold(realtime, coordinator)
          /\ coordinator.stream = realtime.stream
      BY <1>3, <2>4 DEF WorkspaceInv, WorkspaceSound, LiveHold, InStep, Runs
    <3>2. dec.stream = realtime.stream
      BY <2>3, <3>1 DEF RequestHolds
    <3>3. ASSUME NEW i \in DOMAIN dec.entries
          PROVE  EntryHolds(dec.entries[i], session, realtime, co)
      <4>1. CASE Answered(dec.entries[i], r)
        <5> DEFINE n == dec.entries[i].frame
        <5>1. /\ n \in r.frames /\ dec.entries[i].asset = r.asset
              /\ dec.entries[i].project = r.project
          BY <4>1 DEF Answered
        <5>2. QED
          BY <2>2, <3>1, <5>1 DEF RequestHolds, EntryHolds
      <4>2. CASE \E j \in DOMAIN decoded.entries : dec.entries[i] = decoded.entries[j]
        <5>1. EntryHolds(dec.entries[i], session, realtime, coordinator)
          BY <2>4, <3>1, <4>2 DEF Shown, Runs
        <5>2. QED
          BY <2>2, <5>1 DEF EntryHolds
      <4>3. QED
        BY <2>3, <4>1, <4>2
    <3>4. MarkersHold(realtime, co)
      BY <2>2, <2>4, <3>1 DEF MarkersHold, RequestHolds, Runs
    <3>5. QED
      BY <2>2, <3>1, <3>2, <3>3, <3>4 DEF Shown
  <2>5. QED
    BY <1>2, <2>1, <2>2, <2>3, <2>4, RecordSound
<1>4. CASE ~r.live
  BY <1>2, <1>4, DeadSound DEF Answer, IsLive
<1>5. QED
  BY <1>3, <1>4

LEMMA RefuseSound ==
  ASSUME WorkspaceInv, NEW r \in requests, Refuse(r)
  PROVE  WorkspaceInv'
<1>1. /\ coordinator \in Coordinators /\ decoded \in Decodeds /\ r \in Request
      /\ Len(decoded.entries) <= StoreCapacity
  BY DEF WorkspaceInv, WorkspaceSound, Typed
<1>2. session' = session /\ realtime' = realtime
  BY DEF Refuse
<1>3. CASE r.live
  <2> DEFINE failed == [stream |-> r.stream, frames |-> r.pending]
             co == [coordinator EXCEPT !.blocked = failed]
             dec == [decoded EXCEPT !.status = "failed"]
  <2>1. coordinator' = co /\ decoded' = dec /\ requests' = Record(r)
    BY <1>3 DEF Refuse, IsLive
  <2>2. failed \in Signatures
    BY <1>1 DEF Request, Signatures
  <2> HIDE DEF failed
  <2>3. /\ co \in Coordinators /\ co.phase = coordinator.phase
        /\ co.stream = coordinator.stream /\ co.inFlight = coordinator.inFlight
        /\ co.project = coordinator.project /\ co.processed = coordinator.processed
    BY <1>1, <2>2 DEF Coordinators
  <2>4. /\ dec \in Decodeds /\ dec.stream = decoded.stream /\ dec.status = "failed"
        /\ dec.entries = decoded.entries
    BY <1>1 DEF Decodeds
  <2> HIDE DEF co, dec
  <2>5. ASSUME coordinator.phase = "running"
        PROVE  /\ dec.stream \in {0, co.stream}
               /\ Shown(session, realtime, co, dec)
               /\ MarkersHold(realtime, co)
    BY <2>3, <2>4, <2>5 DEF WorkspaceInv, WorkspaceSound, InStep, Shown, EntryHolds, MarkersHold, Runs
  <2>6. QED
    BY <1>1, <1>2, <2>1, <2>3, <2>4, <2>5, RecordSound
<1>4. CASE ~r.live
  BY <1>2, <1>4, DeadSound DEF Refuse, IsLive
<1>5. QED
  BY <1>3, <1>4

LEMMA InitSound == WorkspaceInit => WorkspaceInv
<1> SUFFICES ASSUME WorkspaceInit PROVE WorkspaceInv
  OBVIOUS
<1>1. session = EmptySession /\ EmptySession \in Sessions /\ Chosen(session)
  BY DEF WorkspaceInit, EmptySession, Sessions, Chosen
<1>2. /\ realtime = [stream |-> 0, view |-> {}] /\ realtime \in Realtimes
      /\ Viewed(realtime)
  BY WorkspaceAssumption, ViewAssumption DEF WorkspaceInit, Realtimes, Viewed
<1>3. /\ coordinator \in Coordinators /\ coordinator.phase = "new"
      /\ ~coordinator.inFlight /\ coordinator.stream = 0 /\ coordinator.processed = {}
  BY WorkspaceAssumption, ViewAssumption DEF WorkspaceInit, Coordinators
<1>4. decoded = EmptyDecoded /\ requests = {} /\ Len(decoded.entries) = 0
  BY DEF WorkspaceInit, EmptyDecoded
<1>5. 0 <= StoreCapacity
  BY WorkspaceAssumption, ViewAssumption
<1>6. QED
  BY <1>1, <1>2, <1>3, <1>4, <1>5, EmptyDecodedFacts DEF WorkspaceInv, WorkspaceSound, Typed, OneRequest,
     InStep, Shown, MarkersHold, LiveHold, PendingIsLive, NotBegun, Disposed, Runs

\* The invariant, and what it says of the types.
LEMMA Inductive == WorkspaceSpec => []WorkspaceInv
<1>1. WorkspaceInv /\ [WorkspaceNext]_workspaceVars => WorkspaceInv'
  <2> SUFFICES ASSUME WorkspaceInv, [WorkspaceNext]_workspaceVars PROVE WorkspaceInv'
    OBVIOUS
  <2>1. CASE Start
    BY <2>1, StartSound
  <2>2. CASE Unmount
    BY <2>2, UnmountSound
  <2>3. CASE SessionStep
    BY <2>3, SessionStepSound
  <2>4. CASE ShowFrames
    BY <2>4, ShowSound
  <2>5. CASE \E r \in requests : Answer(r) \/ Refuse(r) \/ Finish(r)
    BY <2>5, AnswerSound, RefuseSound, FinishSound
  <2>6. CASE UNCHANGED workspaceVars
    BY <2>6 DEF WorkspaceInv, workspaceVars
  <2>7. QED
    BY <2>1, <2>2, <2>3, <2>4, <2>5, <2>6 DEF WorkspaceNext
<1>2. QED
  BY InitSound, <1>1, PTL DEF WorkspaceSpec

\* Session, viewport, coordinator, decoded store and requests keep their types.
THEOREM WorkspaceTypeCorrect == WorkspaceSpec => []WorkspaceTypeOK
<1>1. WorkspaceInv => WorkspaceTypeOK
  BY DEF WorkspaceInv, WorkspaceSound, Typed, WorkspaceTypeOK, Sessions, Realtimes, Coordinators, Decodeds, Entries
<1>2. QED
  BY <1>1, Inductive, PTL

\* What is shown was decoded for the stream on screen, the open project and the
\* bindings there are, whatever the user did while a request was out
\* (decode-coordinator.ts, decoded-realtime.ts, session.ts).
THEOREM CurrentShown == WorkspaceSpec => []ShownIsCurrent
<1>1. WorkspaceInv => ShownIsCurrent
  BY DEF WorkspaceInv, WorkspaceSound, Shown, EntryHolds, Chosen, Runs, ShownIsCurrent, Running
<1>2. QED
  BY <1>1, Inductive, PTL

\* At most one request is out, nothing is asked twice and pending is said of a
\* request in flight, of a workspace whose stream ends with it, as the desktop's
\* does (decode-coordinator.ts).
THEOREM NeededRequests ==
  ASSUME ~Outlives
  PROVE  WorkspaceSpec => []RequestsAreNeeded
<1>1. WorkspaceInv => RequestsAreNeeded
  <2> SUFFICES ASSUME WorkspaceInv PROVE RequestsAreNeeded
    OBVIOUS
  <2>1. Cardinality(requests) <= 1
    <3>1. \A q, r \in requests : q = r
      BY DEF WorkspaceInv, WorkspaceSound, OneRequest
    <3>2. CASE requests = {}
      BY <3>2, FS_EmptySet
    <3>3. CASE requests # {}
      <4>1. PICK r \in requests : requests = {r}
        BY <3>1, <3>3
      <4>2. Cardinality({r}) = 1
        BY FS_Singleton
      <4>3. QED
        BY <4>1, <4>2
    <3>4. QED
      BY <3>2, <3>3
  <2>2. ASSUME NEW r \in requests, r.live
        PROVE  r.frames \cap Recorded = {}
    <3>1. Runs(coordinator)
      BY <2>2 DEF WorkspaceInv, WorkspaceSound, Typed, Coordinators, OneRequest, Disposed, Runs
    <3>2. RequestHolds(r, session, realtime, decoded)
      BY <2>2, <3>1 DEF WorkspaceInv, WorkspaceSound, LiveHold
    <3>3. QED
      BY <3>2 DEF RequestHolds, Recorded
  <2>3. Running /\ decoded.status = "pending" => requests # {}
    BY DEF WorkspaceInv, WorkspaceSound, PendingIsLive, Running, Runs
  <2>4. QED
    BY <2>1, <2>2, <2>3 DEF RequestsAreNeeded
<1>2. QED
  BY <1>1, Inductive, PTL

\* After a pass, a frame that waits has a request that is out.
LEMMA PumpAttends ==
  ASSUME NEW co \in Coordinators, NEW dec, NEW reqs, Pump(co, dec, reqs), WorkspaceInv'
  PROVE  NothingForgotten'
<1> DEFINE ready == ~co.inFlight /\ co.project # None /\ realtime'.stream # 0
           seen == co.processed \cap realtime'.view
           pending == realtime'.view \ seen
           asks == /\ ready
                   /\ [stream |-> realtime'.stream, frames |-> pending] # co.blocked
                   /\ BoundFrames(pending, session') # {}
<1> SUFFICES ASSUME Waiting', requests' = {} PROVE FALSE
  BY DEF NothingForgotten
<1>1. coordinator' = [co EXCEPT !.processed = IF ready THEN seen ELSE @,
                                !.inFlight = @ \/ asks]
  BY DEF Pump, Busy
<1>2. ~coordinator'.inFlight /\ coordinator'.project = session'.project
  BY DEF Waiting, Running, WorkspaceInv, WorkspaceSound, OneRequest, InStep, Runs
<1>3. /\ coordinator'.inFlight = (co.inFlight \/ asks)
      /\ coordinator'.project = co.project /\ coordinator'.blocked = co.blocked
      /\ coordinator'.processed = IF ready THEN seen ELSE co.processed
  <2> HIDE DEF ready, asks, seen
  <2>1. QED
    BY <1>1 DEF Coordinators
<1>4. ready /\ ~asks
  BY <1>2, <1>3 DEF Waiting
<1>5. realtime'.view \ coordinator'.processed = pending
  BY <1>3, <1>4
<1>6. QED
  BY <1>3, <1>4, <1>5 DEF Waiting

\* The steps of a running coordinator end with a pass, or leave their request out.
LEMMA NextAttends ==
  ASSUME WorkspaceInv, WorkspaceInv', NothingForgotten, [WorkspaceNext]_workspaceVars
  PROVE  NothingForgotten'
<1>1. session \in Sessions /\ realtime \in Realtimes /\ coordinator \in Coordinators
  BY DEF WorkspaceInv, WorkspaceSound, Typed
<1>2. session' \in Sessions /\ realtime' \in Realtimes
  BY DEF WorkspaceInv, WorkspaceSound, Typed
<1>3. ASSUME coordinator'.phase # "running" PROVE NothingForgotten'
  BY <1>3 DEF NothingForgotten, Waiting, Running
<1>4. ASSUME NEW co \in Coordinators, OnRealtime(co) PROVE NothingForgotten'
  <2>1. [NewEpoch(co) EXCEPT !.stream = realtime'.stream] \in Coordinators
    BY <1>2 DEF NewEpoch, Coordinators, Realtimes
  <2>2. QED
    BY <1>4, <2>1, PumpAttends DEF OnRealtime
<1>5. ASSUME OnSession PROVE NothingForgotten'
  <2>1. [NewEpoch(coordinator) EXCEPT !.project = session'.project] \in Coordinators
    BY <1>1, <1>2 DEF NewEpoch, Coordinators, Sessions
  <2>2. CASE coordinator.phase # "running"
    BY <1>3, <1>5, <2>2 DEF OnSession
  <2>3. CASE coordinator.phase = "running"
    BY <1>1, <1>5, <2>1, <2>3, PumpAttends DEF OnSession
  <2>4. QED
    BY <2>2, <2>3
<1>6. CASE Start
  <2>1. [coordinator EXCEPT !.phase = "running", !.project = session.project] \in Coordinators
    BY <1>1 DEF Coordinators, Sessions
  <2>2. QED
    BY <1>4, <1>6, <2>1 DEF Start
<1>7. CASE Unmount
  <2>1. coordinator'.phase = "gone"
    BY <1>1, <1>7 DEF Unmount, Coordinators
  <2>2. QED
    BY <1>3, <2>1
<1>8. CASE SessionStep
  BY <1>5, <1>8 DEF SessionStep, OpenProject, CloseProject, BindChannel, UnbindChannel,
     ClearBindings, SelectSignal
<1>9. CASE ShowFrames
  BY <1>1, <1>3, <1>4, <1>9 DEF ShowFrames
<1>10. ASSUME NEW r \in requests, Answer(r) \/ Refuse(r) PROVE NothingForgotten'
  <2>1. requests' = Record(r)
    BY <1>10 DEF Answer, Refuse
  <2>2. QED
    BY <2>1 DEF Record, NothingForgotten
<1>11. ASSUME NEW r \in requests, Finish(r) PROVE NothingForgotten'
  <2>1. [coordinator EXCEPT !.inFlight = FALSE] \in Coordinators
    BY <1>1 DEF Coordinators
  <2>2. QED
    BY <1>11, <2>1, PumpAttends DEF Finish
<1>12. CASE UNCHANGED workspaceVars
  BY <1>12 DEF NothingForgotten, Waiting, Running, BoundFrames, workspaceVars
<1>13. QED
  BY <1>6, <1>7, <1>8, <1>9, <1>10, <1>11, <1>12 DEF WorkspaceNext

\* Whatever happens on screen and in the session, and however requests end, a
\* bound frame that is not answered has a request before it whose end asks again
\* (decode-coordinator.ts, finally).
THEOREM NoneForgotten == WorkspaceSpec => []NothingForgotten
<1>1. WorkspaceInit => NothingForgotten
  BY DEF WorkspaceInit, NothingForgotten, Waiting, Running
<1>2. QED
  BY <1>1, NextAttends, Inductive, PTL DEF WorkspaceSpec
=============================================================================
