----------------------------- MODULE RealtimeStream -----------------------------
(***************************************************************************)
(* The realtime view, from the runtime's fan-out to the screen:            *)
(* transport/broker.py, the /stream/frames handler of api/app.py, the      *)
(* desktop's RealtimeStreamStore (realtime-stream.ts) and its worker       *)
(* (frame-worker-core.ts, frame-worker.ts).                                *)
(*                                                                         *)
(* The broker keeps a bounded queue per client and drops the oldest batch  *)
(* of a slow one.  The store owns one pipeline, a socket and a worker that *)
(* are made and released together; a failure of either releases both and   *)
(* schedules another attempt, a bounded number of times.  Handlers of a    *)
(* pipeline that was replaced still run: they are told apart by the        *)
(* generation they were installed under.  The worker keeps the newest      *)
(* frames of one stream, counts what it misses, and throttles what it      *)
(* shows.                                                                  *)
(*                                                                         *)
(* A batch is its stream and its first and last sequence numbers, counted  *)
(* from 1; capturing numbers the frames of a stream without a gap.  Time   *)
(* is left out: a snapshot is throttled or not, a timer fires at any time. *)
(* Nothing sends the worker configure, freeze or resume.                   *)
(***************************************************************************)
EXTENDS RealtimeView, FiniteSets

CONSTANTS
  Pairs,           \* the places of pipelines; one is reused when all of it is gone
  NoPair,          \* #socket and #worker are null
  Retries,         \* RETRY_DELAYS_MS.length
  ClientCapacity,  \* client_capacity of the broker
  MaxListeners,    \* bound on concurrent subscribers of the store
  MaxSubscribes,   \* bound on how often one subscribes to it
  MaxAccepts       \* bound on the connections the runtime accepts

ASSUME StreamAssumption ==
  /\ NoPair \notin Pairs
  /\ Retries \in Nat /\ MaxListeners \in Nat /\ MaxSubscribes \in Nat
  /\ MaxAccepts \in Nat /\ ClientCapacity \in Nat \ {0}

Streams == 1..MaxStreams
Batch == [stream : Streams, first : Numbers, last : Numbers]

\* What a worker holds: the frames of its ring, oldest first; first is the
\* number it began with, which the code does not keep.
View == [stream : Streams \cup {0}, first : Numbers \cup {0},
         last : Numbers \cup {0}, frames : Seq(Numbers),
         dropped : Nat, gaps : Nat]
NoView == [stream |-> 0, first |-> 0, last |-> 0, frames |-> <<>>,
           dropped |-> 0, gaps |-> 0]

VARIABLES
  \* The runtime.
  stream,      \* the capture that runs
  next,        \* the number of its next frame
  subscribed,  \* the pairs whose queue the broker has
  queue,       \* that queue
  accepts,     \* connections accepted so far
  \* The store.
  supported,   \* whether this environment has sockets and workers
  listeners, subscribes,
  connection,  \* state.connection
  shown,       \* state.snapshot with its counters
  heard,       \* the pair whose handlers captured the #generation there is
  attempts,    \* #attempts
  timer,       \* #retryTimer is pending
  current,     \* #socket and #worker
  \* Each pair.
  socket,      \* "none", "connecting", "open" or "closed"
  events,      \* socket and worker events that have yet to be handled
  worker,      \* whether the worker runs
  inbox,       \* the batch posted to it
  core,        \* its FrameWorkerCore
  flush,       \* its flush timer is pending
  outbox       \* the message it posted: a view, or a failure

runtimeVars == <<stream, next, subscribed, queue, accepts>>
storeVars == <<supported, listeners, subscribes, connection, shown, heard,
               attempts, timer, current>>
workerVars == <<worker, inbox, core, flush>>
vars == <<runtimeVars, storeVars, socket, events, workerVars, outbox>>

Failure == [NoView EXCEPT !.gaps = 1]

---------------------------------------------------------------------------
(* The worker's view. *)

\* Mutant of Begun: the counters survive a change of stream.
BegunKeeping(v, b) == [v EXCEPT !.stream = b.stream]

\* #resetForStream: another stream begins afresh.
Begun(v, b) ==
  IF v.stream # 0 /\ v.stream # b.stream
  THEN [NoView EXCEPT !.stream = b.stream]
  ELSE [v EXCEPT !.stream = b.stream]

\* The numbers between the last batch and this one.
Gap(v, b) ==
  IF v.last # 0 /\ b.first > v.last + 1 THEN b.first - v.last - 1 ELSE 0

\* #push of every frame: the ring forgets its oldest.
Pushed(frames, b) ==
  LET all == frames \o [i \in 1..(b.last - b.first + 1) |-> b.first + i - 1]
  IN SubSeq(all, 1 + Len(all) - (IF Len(all) < ViewCapacity
                                 THEN Len(all) ELSE ViewCapacity), Len(all))

\* ingest, without the snapshot.
Ingested(v, b) ==
  LET w == Begun(v, b)
      all == Len(w.frames) + b.last - b.first + 1
  IN [stream |-> b.stream,
      first |-> IF w.first = 0 THEN b.first ELSE w.first,
      last |-> b.last,
      frames |-> Pushed(w.frames, b),
      dropped |-> w.dropped + (IF all > ViewCapacity THEN all - ViewCapacity ELSE 0),
      gaps |-> w.gaps + Gap(w, b)]

---------------------------------------------------------------------------
(* The runtime. *)

\* Mutant of IsCurrent: handlers do not compare generations.
AnyGeneration(p) == TRUE

\* The guard of every handler of the store.
IsCurrent(p) == p = heard

\* publish: a client whose queue is full loses its oldest batch.
Offered(q, b) ==
  IF Len(q) = ClientCapacity THEN Append(Tail(q), b) ELSE Append(q, b)

Publish ==
  /\ stream \in Streams
  /\ \E last \in next..MaxFrames :
       LET b == [stream |-> stream, first |-> next, last |-> last]
       IN queue' = [p \in Pairs |->
                     IF p \in subscribed THEN Offered(queue[p], b) ELSE queue[p]]
          /\ next' = last + 1
  /\ UNCHANGED <<stream, subscribed, accepts, storeVars, socket,
                 events, workerVars,
                 outbox>>

\* Another capture: a new stream id, and numbers from the start.
StartCapture ==
  /\ stream < MaxStreams
  /\ stream' = stream + 1 /\ next' = 1
  /\ UNCHANGED <<subscribed, queue, accepts, storeVars, socket,
                 events, workerVars,
                 outbox>>

\* stream_frames accepts the socket and subscribes.
Accept(p) ==
  /\ socket[p] = "connecting"
  /\ accepts < MaxAccepts
  /\ accepts' = accepts + 1
  /\ socket' = [socket EXCEPT ![p] = "open"]
  /\ events' = [events EXCEPT ![p] = @ \cup {"open"}]
  /\ subscribed' = subscribed \cup {p}
  /\ UNCHANGED <<stream, next, queue, storeVars, workerVars,
                 outbox>>

\* It sends the oldest batch of the queue; onmessage posts it to the worker.
Send(p) ==
  /\ p \in subscribed /\ queue[p] # <<>>
  /\ socket[p] = "open" /\ "open" \notin events[p] /\ inbox[p] = <<>>
  /\ queue' = [queue EXCEPT ![p] = Tail(@)]
  /\ inbox' = IF IsCurrent(p) THEN [inbox EXCEPT ![p] = <<Head(queue[p])>>] ELSE inbox
  /\ UNCHANGED <<stream, next, subscribed, accepts, storeVars,
                 socket, events, worker, core, flush, outbox>>

\* It learns of the disconnection, waiting for a batch or sending one.
Unsubscribe(p) ==
  /\ p \in subscribed /\ socket[p] = "closed"
  /\ subscribed' = subscribed \ {p}
  /\ queue' = [queue EXCEPT ![p] = <<>>]
  /\ UNCHANGED <<stream, next, accepts, storeVars, socket, events,
                 workerVars,
                 outbox>>

\* The connection is refused, which is an error and a close, or lost.
Disconnect(p) ==
  /\ socket[p] \in {"connecting", "open"}
  /\ socket' = [socket EXCEPT ![p] = "closed"]
  /\ events' = [events EXCEPT ![p] = @ \cup
       (IF socket[p] = "connecting" THEN {"error", "close"} ELSE {"close"})]
  /\ UNCHANGED <<runtimeVars, storeVars, workerVars,
                 outbox>>

---------------------------------------------------------------------------
(* The store. *)

\* Nothing of the pair that was here is left.
Vacant(p) ==
  /\ socket[p] \in {"none", "closed"} /\ ~worker[p] /\ p \notin subscribed
  /\ events[p] = {} /\ outbox[p] = <<>>

\* #open: a pair with handlers of a new generation, or unsupported.
Open ==
  /\ IF ~supported
     THEN /\ connection' = "unsupported"
          /\ heard' = NoPair
          /\ UNCHANGED <<current, socket, workerVars>>
     ELSE \E p \in Pairs :
          /\ Vacant(p)
          /\ connection' = "connecting"
          /\ current' = p /\ heard' = p
          /\ socket' = [socket EXCEPT ![p] = "connecting"]
          /\ worker' = [worker EXCEPT ![p] = TRUE]
          /\ UNCHANGED <<inbox, core, flush>>
  /\ UNCHANGED <<events, outbox>>

\* Mutant of ClosePair: the pair is forgotten without being closed.
ForgetPair(left) ==
  /\ current' = NoPair /\ heard' = NoPair /\ events' = left
  /\ UNCHANGED <<socket, workerVars>>

\* socket.close() and worker.terminate(): a close event follows, and what the
\* socket or the worker had reported may still be delivered.  left is what
\* remains of the events once the one being handled is taken.
ClosePair(left) ==
  /\ current' = NoPair /\ heard' = NoPair
  /\ IF current = NoPair
     THEN events' = left /\ UNCHANGED <<socket, workerVars>>
     ELSE /\ socket' = [socket EXCEPT ![current] = "closed"]
          /\ events' = IF socket[current] = "closed" THEN left
                       ELSE [left EXCEPT ![current] = @ \cup {"close"}]
          /\ worker' = [worker EXCEPT ![current] = FALSE]
          /\ inbox' = [inbox EXCEPT ![current] = <<>>]
          /\ core' = [core EXCEPT ![current] = NoView]
          /\ flush' = [flush EXCEPT ![current] = FALSE]

\* #connect: only an idle store opens a pipeline.
Subscribe ==
  /\ listeners < MaxListeners /\ subscribes < MaxSubscribes
  /\ listeners' = listeners + 1 /\ subscribes' = subscribes + 1
  /\ IF connection = "idle"
     THEN attempts' = 0 /\ Open
     ELSE UNCHANGED <<connection, heard, current, attempts,
                      socket, events, workerVars, outbox>>
  /\ UNCHANGED <<runtimeVars, supported, shown, timer>>

\* The last one to leave disposes of the pipeline: #release, IDLE_STATE.
Leave ==
  /\ listeners > 0
  /\ listeners' = listeners - 1
  /\ IF listeners = 1
     THEN /\ ClosePair(events)
          /\ timer' = FALSE /\ attempts' = 0
          /\ connection' = "idle" /\ shown' = NoView
     ELSE UNCHANGED <<timer, attempts, heard, current, connection, shown,
                      socket, events, workerVars>>
  /\ UNCHANGED <<runtimeVars, supported, subscribes, outbox>>

\* Mutant of Retry: the timer is never set.
NoTimer ==
  IF attempts < Retries
  THEN attempts' = attempts + 1 /\ connection' = "retrying" /\ UNCHANGED timer
  ELSE connection' = "closed" /\ UNCHANGED <<attempts, timer>>

\* What #fail does once the pair is released: another attempt, or none.
Retry ==
  IF attempts < Retries
  THEN attempts' = attempts + 1 /\ connection' = "retrying" /\ timer' = TRUE
  ELSE connection' = "closed" /\ UNCHANGED <<attempts, timer>>

\* #fail, called by a handler that leaves these events.
Fail(p, left) ==
  IF IsCurrent(p) /\ listeners > 0
  THEN ClosePair(left) /\ Retry
  ELSE /\ events' = left
       /\ UNCHANGED <<connection, heard, current, attempts, timer, socket,
                      workerVars>>

\* onopen.
OnOpen(p) ==
  /\ "open" \in events[p]
  /\ events' = [events EXCEPT ![p] = @ \ {"open"}]
  /\ IF IsCurrent(p)
     THEN attempts' = 0 /\ connection' = "open"
     ELSE UNCHANGED <<attempts, connection>>
  /\ UNCHANGED <<runtimeVars, supported, listeners, subscribes, shown,
                 heard, timer, current, socket, workerVars,
                 outbox>>

\* onerror and onclose of the socket, in this order.
OnLost(p) ==
  /\ "open" \notin events[p]
  /\ \E e \in events[p] :
       /\ e = "close" => "error" \notin events[p]
       /\ Fail(p, [events EXCEPT ![p] = @ \ {e}])
  /\ UNCHANGED <<runtimeVars, supported, listeners, subscribes, shown,
                 outbox>>

\* The worker's onerror.
WorkerError(p) ==
  /\ worker[p]
  /\ Fail(p, events)
  /\ UNCHANGED <<runtimeVars, supported, listeners, subscribes, shown,
                 outbox>>

\* onmessage of the worker: a view is published, a failure fails the pair.
OnPosted(p) ==
  /\ outbox[p] # <<>>
  /\ outbox' = [outbox EXCEPT ![p] = <<>>]
  /\ IF Head(outbox[p]) = Failure
     THEN Fail(p, events) /\ UNCHANGED shown
     ELSE /\ shown' = IF IsCurrent(p) THEN Head(outbox[p]) ELSE shown
          /\ UNCHANGED <<connection, heard, current, attempts, timer,
                         socket, events, workerVars>>
  /\ UNCHANGED <<runtimeVars, supported, listeners, subscribes>>

\* The retry timer fires.
RetryFires ==
  /\ timer
  /\ timer' = FALSE
  /\ IF listeners > 0 /\ connection = "retrying"
     THEN Open
     ELSE UNCHANGED <<connection, heard, current, socket,
                      events, workerVars, outbox>>
  /\ UNCHANGED <<runtimeVars, supported, listeners, subscribes, shown, attempts>>

---------------------------------------------------------------------------
(* The worker. *)

\* A snapshot is due at once, or at the flush timer.
Show(p, view) ==
  outbox' = [outbox EXCEPT ![p] = <<view>>]

\* Mutant of Defer: a throttled snapshot schedules nothing.
DropSnapshot(p) == UNCHANGED flush

Defer(p) == flush' = [flush EXCEPT ![p] = TRUE]

\* onmessage: the interval since the last snapshot is over or not; the first
\* snapshot of a stream is never deferred.
Ingest(p) ==
  /\ worker[p] /\ inbox[p] # <<>> /\ outbox[p] = <<>>
  /\ inbox' = [inbox EXCEPT ![p] = <<>>]
  /\ LET view == Ingested(core[p], Head(inbox[p]))
         fresh == core[p].stream # view.stream
     IN /\ core' = [core EXCEPT ![p] = view]
        /\ \/ Show(p, view) /\ UNCHANGED flush
           \/ /\ ~fresh
              /\ Defer(p)
              /\ UNCHANGED <<outbox>>
  /\ UNCHANGED <<runtimeVars, storeVars, socket, events, worker>>

\* A batch that does not decode is reported and changes nothing.
IngestFails(p) ==
  /\ worker[p] /\ inbox[p] # <<>> /\ outbox[p] = <<>>
  /\ inbox' = [inbox EXCEPT ![p] = <<>>]
  /\ outbox' = [outbox EXCEPT ![p] = <<Failure>>]
  /\ UNCHANGED <<runtimeVars, storeVars, socket, events, worker, core, flush>>

\* The flush timer fires.
Flush(p) ==
  /\ worker[p] /\ flush[p] /\ outbox[p] = <<>>
  /\ flush' = [flush EXCEPT ![p] = FALSE]
  /\ Show(p, core[p])
  /\ UNCHANGED <<runtimeVars, storeVars, socket, events, worker, inbox, core>>

---------------------------------------------------------------------------
Init ==
  /\ stream = 0 /\ next = 1 /\ accepts = 0
  /\ subscribed = {} /\ queue = [p \in Pairs |-> <<>>]
  /\ supported \in BOOLEAN
  /\ listeners = 0 /\ subscribes = 0
  /\ connection = "idle" /\ shown = NoView
  /\ heard = NoPair /\ attempts = 0 /\ timer = FALSE /\ current = NoPair
  /\ socket = [p \in Pairs |-> "none"]
  /\ events = [p \in Pairs |-> {}]
  /\ worker = [p \in Pairs |-> FALSE]
  /\ inbox = [p \in Pairs |-> <<>>]
  /\ core = [p \in Pairs |-> NoView]
  /\ flush = [p \in Pairs |-> FALSE]
  /\ outbox = [p \in Pairs |-> <<>>]

\* What happens by itself once it can.
Delivery(p) ==
  \/ Send(p) \/ Unsubscribe(p)
  \/ OnOpen(p) \/ OnLost(p) \/ OnPosted(p)
  \/ Ingest(p) \/ IngestFails(p) \/ Flush(p)

Connecting(p) == Accept(p) \/ Disconnect(p)

Next ==
  \/ Publish \/ StartCapture
  \/ Subscribe \/ Leave \/ RetryFires
  \/ \E p \in Pairs : Delivery(p) \/ Connecting(p) \/ WorkerError(p)

Spec == Init /\ [][Next]_vars

\* A connection is accepted, refused or lost; messages, events and timers are
\* delivered; nothing makes anybody subscribe, leave or capture.
Fairness ==
  /\ WF_vars(RetryFires)
  /\ \A p \in Pairs :
       /\ WF_vars(Send(p)) /\ WF_vars(Unsubscribe(p))
       /\ WF_vars(OnOpen(p)) /\ WF_vars(OnLost(p))
       /\ WF_vars(OnPosted(p))
       /\ WF_vars(Ingest(p) \/ IngestFails(p)) /\ WF_vars(Flush(p))
       /\ WF_vars(Connecting(p) /\ socket[p] = "connecting")

FairSpec == Spec /\ Fairness

---------------------------------------------------------------------------
(* Properties. *)

TypeOK ==
  /\ stream \in Streams \cup {0} /\ next \in 1..(MaxFrames + 1)
  /\ accepts \in 0..MaxAccepts
  /\ subscribed \in SUBSET Pairs /\ queue \in [Pairs -> Seq(Batch)]
  /\ supported \in BOOLEAN
  /\ listeners \in 0..MaxListeners /\ subscribes \in 0..MaxSubscribes
  /\ connection \in {"idle", "connecting", "open", "retrying", "closed",
                     "unsupported"}
  /\ shown \in View
  /\ heard \in Pairs \cup {NoPair} /\ attempts \in 0..Retries /\ timer \in BOOLEAN
  /\ current \in Pairs \cup {NoPair}
  /\ socket \in [Pairs -> {"none", "connecting", "open", "closed"}]
  /\ events \in [Pairs -> SUBSET {"open", "error", "close"}]
  /\ inbox \in [Pairs -> Seq(Batch)]
  /\ worker \in [Pairs -> BOOLEAN] /\ core \in [Pairs -> View]
  /\ flush \in [Pairs -> BOOLEAN]
  /\ outbox \in [Pairs -> Seq(View)]

\* The socket and the worker are one pipeline: a live socket or a running
\* worker is that of the current pair, the current pair is the one whose
\* handlers are heard, and there is one exactly while the store reports a
\* connection; nobody listening means nothing is left, shown or pending.
OnePipeline ==
  /\ \A p \in Pairs :
       worker[p] \/ socket[p] \in {"connecting", "open"} => p = current
  /\ heard = current
  /\ current # NoPair <=> connection \in {"connecting", "open"}
  /\ current # NoPair => worker[current]
  /\ timer <=> connection = "retrying"
  /\ listeners = 0 => connection = "idle" /\ shown = NoView

\* Every frame from the first a worker saw to the last is in the view, counted
\* as dropped from it or counted as a gap; the view holds the newest.
Accounted(v) == Len(v.frames) + v.dropped + v.gaps
ShownAccounts ==
  shown.stream # 0 =>
    /\ Accounted(shown) = shown.last - shown.first + 1
    /\ \A i, j \in DOMAIN shown.frames : i < j => shown.frames[i] < shown.frames[j]
    /\ shown.frames[Len(shown.frames)] = shown.last

\* Every loss is observable: frames of a capture that lie between two views
\* shown one after the other are counted as gaps.
LossIsObservable ==
  [][shown.stream # 0 /\ shown'.stream = shown.stream
       /\ shown'.first > shown.last + 1
     => shown'.gaps >= shown'.first - shown.last - 1]_vars

\* What the worker has taken is shown in the end, throttled or not, unless its
\* pipeline is released first.
Lagging == current # NoPair /\ core[current].stream # 0 /\ core[current] # shown
ViewCatchesUp == Lagging ~> ~Lagging

\* An attempt to connect comes to an end.
Settles ==
  connection \in {"connecting", "retrying"}
    ~> connection \in {"open", "closed", "idle", "unsupported"}

================================================================================
