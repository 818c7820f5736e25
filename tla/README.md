# CAN-X: formal specifications

TLA+ modules, TLC configurations and TLAPS proofs for CAN-X, a desktop workbench
for CAN bus work: a Python runtime (`runtime/canx/`) that captures, records,
decodes and queries frames, a TypeScript desktop front end (`apps/desktop/src/`)
and a Rust shell (`apps/desktop/src-tauri/src/`) that runs the runtime as a
sidecar process.  Paths below are relative to `src/`; Python paths to
`runtime/canx/`.

A run is `tlc -workers 2 -config X.cfg M.tla` with the module of the table in
section 3, a proof `tlapm XProofs.tla`:

    tlc -workers 2 -config ControlPlane.cfg ControlPlane.tla
    tlapm ControlProofs.tla

`PROJECT.json` lists the components, the runs, for every definition the source
lines it stands for, for every checked property a plausible bug that breaks it,
and the hazards the properties are aimed at.

## 1. The system

| Part | State it keeps | Operations | What is hard |
|---|---|---|---|
| Safety kernel (`safety/`) | arm state, approvals, engaged stop, cancellers, audit trail | arm, confirm, disarm, grant and revoke approvals, evaluate, engage and release the stop | the stop fans out after it has released one of its two locks; audit writes fail after authority changed; two readings of a clock |
| Capture service (`runtime/service.py`) | capture state, published failure, the tasks it owns | start realtime or project capture, stop, close, recorder failure, cleanup, settlement | bounded waits for threads that cannot be cancelled |
| Project recorder (`recorder/project_recorder.py`) | recorder state, failure, stop budget, terminal lock, completion | start, append, stop, fail, close the gate | an abandoned thread and the event loop race for the last word on a session |
| Data session store (`data/`) | buffered tail, in-memory session, segment files, rows of sessions and segments | create, append, flush, complete, fail, recover, read | two stores (files, SQLite) made to agree; two writers of one row; a crash between any two steps |
| Capture pipeline (`capture/`, `devices/`) | subscriber queues, statistics, capture task | start, fan out, unsubscribe, stop | lossy and lossless subscribers, back-pressure with a timeout, a stop that cancels a blocked delivery |
| Stream transport (`transport/`) | one bounded queue per client | publish, open, close | drop-oldest per slow client |
| Snapshot recorder (`recorder/msgpack_recorder.py`) | open file, counters | start, append, stop, fail | a cancelled append must not tear a record |
| Trace query (`query/`) | none between calls | snapshot, plan, validate, page, summarise, count | paging a session that still grows, files that vanish between two steps of a call |
| DBC parsing and decoding (`dbc/`) | compiled plans | parse, compile, decode one frame, a batch, a work set | bit windows in two byte orders, multiplexing, a value that is no number |
| DBC assets (`dbc/project_service.py`, ...) | asset files, registry rows, decoder cache | import, get, load, decode | file and row made to agree; a file that changes between two reads; a cache all threads share |
| Project store (`project/`) | directory, manifest, database | create, open, migrate, inspect | partly created projects, concurrent migrations, a kill at any step |
| HTTP API (`api/`) | current project, capture service, decoder cache | one handler per route, lifespan, shutdown | requests in flight when the process stops |
| Desktop capture lifecycle (`runtime/capture-lifecycle.ts`) | phase, wanted | acquire, release, the run loop | a wish that changes across every await |
| Desktop realtime stream (`runtime/realtime-stream.ts`) | connection, generation, attempts, timer, one socket and worker | subscribe, leave, socket and worker events, timer | late events of an older pair |
| Desktop frame worker (`workers/`) | ring of frames, counters, flush timer | ingest, flush | what is shown adds up over drops, gaps and streams |
| Desktop decode coordinator, workspace session (`workspace/`) | processed frames, request in flight, bindings, open project | project, binding and viewport changes, answers | answers that arrive after their project or binding is gone |
| Runtime sidecar (`src-tauri/src/runtime_sidecar.rs`, `lib.rs`) | child process, state, last error | start, restart, shutdown, exit | a child that dies at any point, an address somebody else serves |
| File bridges, agent tooling, CI gate, user interface | little or none | | |

How they interact.  A capture's frames go from an adapter to the pipeline, which
fans each one out to its subscribers: a lossy one feeds the stream broker (and
through it the desktop's realtime stream), a lossless one the archive consumer,
which appends to the project recorder, which drives a `DataSessionWriter` on
worker threads.  The pipeline tells the service of a subscriber that failed by
calling its handler; the service tells the pipeline to stop.  The safety kernel
is consulted by whoever wants to transmit; today only hosts and tests do.  The
desktop starts the sidecar, then talks to it over HTTP and one WebSocket.

What makes the parts correct, in a sentence each: authority never outlives the
event that should have ended it; the runtime never says of a recording what the
database denies; a COMPLETED session is whole; a session interrupted by a crash
is recovered as what was durable, no more and no less; a lossless subscriber
gets every frame or an explicit failure; a page sequence of a query neither
skips nor repeats; a decoded value is what the bits of its frame say, or an
error; an asset row names a file with exactly that content; a project on disk is
whole or refused; the desktop shows data of the present project, binding and
stream only, accounts for every frame it does not show, and leaves neither a
capture nor a process running that nobody wants.

## 2. Modules

| Module | Models |
|---|---|
| `SafetyPolicy` | the pure vocabulary of the kernel: risk classes, capabilities, callers, targets and their matching (`safety/policy.py`, `risk.py`, `caller.py`, `operation.py`, `permission.py`) |
| `SafetyKernel` | `safety/kernel.py` and the managers behind it (`arm.py`, `approval.py`, `emergency.py`, `scope.py`) |
| `RecorderFinalization` | how a capture ends: `runtime/service.py`, `recorder/project_recorder.py` and the session row of `data/session.py`, `data/repository.py` |
| `RecorderFinalizationProofs` | theorems about `RecorderFinalization` |
| `SessionContract` | what a data session promises, files, rows, crashes and recovery left out |
| `DataSession` | one session of `data/session.py`, `repository.py` and `parquet.py`; refines `SessionContract` |
| `DataSessionProofs` | theorems about `DataSession` |
| `CapturePipeline` | a capture recorded into a file: `capture/pipeline.py`, `subscriber.py`, the consumers of `runtime/service.py`, `recorder/msgpack_recorder.py` |
| `CapturePipelineProofs` | theorems about `CapturePipeline` |
| `TraceQuery` | `query/service.py`, `planning.py`, `engine.py` and the routes of `api/trace.py`, with a client that pages through a session while it grows |
| `TraceQueryProofs` | theorems about `TraceQuery` |
| `RealtimeView` | what `RealtimeStream` and `WorkspaceDecode` share: the capacity of the viewport, the numbers of streams and frames |
| `RealtimeStream` | `transport/broker.py`, the stream route of `api/app.py`, `realtime-stream.ts`, `frame-worker-core.ts`, `frame-worker.ts` |
| `WorkspaceDecode` | `workspace/session.ts`, `decode-coordinator.ts`, `decode-partition.ts`, `decoded-realtime.ts` |
| `DesktopProofs` | theorems about `RealtimeStream` and `WorkspaceDecode` |
| `DbcDecode` | `dbc/model.py`, `decode.py`, `decode_set.py`, and the validation of the decode and import requests of `api/dbc.py` |
| `DbcDecodeProofs` | theorems about `DbcDecode` |
| `ProjectStore` | `project/service.py`, `manifest.py`, `storage.py` |
| `DbcAssets` | `dbc/project_service.py`, `repository.py`, `decoder_cache.py`; extends `ProjectStore`, whose steps every call of it begins with |
| `DbcAssetsProofs` | theorems about `ProjectStore` and `DbcAssets` |
| `ControlPlane` | `runtime_sidecar.rs`, `lib.rs`, the control routes of `api/app.py`, `__main__.py`, `capture-lifecycle.ts`, `capture-client.ts` |
| `ControlProofs` | theorems about `ControlPlane` and `SafetyKernel` |
| `MC_...` | the values of the constants for TLC |

`SafetyKernel` and `WorkspaceDecode` carry their name in `KernelInit`, `KernelSpec`,
`WorkspaceNext` and so on, because a module of proofs extends each of them together with
another specification.

### SafetyKernel

`SafetyKernel` extends `SafetyPolicy`.  One action per public method; a method
that returns early because its caller may not call it leaves everything as it
was and is not an action.  Two locks matter: the kernel's re-entrant lock, held
by every method to its end, and the emergency controller's, which `engage`
gives back before it disarms and asks the cancellers.  Most methods are
therefore one step.  Two are several, because calls that take no kernel lock
(`RegisterCanceller`, `RevokeApproval`, and `StoreGrant`, which is the `grant`
of the approval store the kernel hands to its host) land between their steps:

- `engage_emergency_stop`: `EngageBegin`, `EngageDisarm`, one `RequestCancellation`
  per registered canceller, `EngageEnd`; `pc` says which is next;
- `release_emergency_stop`: `ReleaseBegin` (the caller is judged, the runtime
  disarmed), `ReleaseClears` (the approvals), `ReleaseResets` (the stop),
  `ReleaseEnds` (the record, or the stop put back); `rel` says which is next and
  `before` is the stop it may put back.

`MayCall` is the kernel's lock: nobody is inside, or a canceller calls from the
thread that is, and it may call anything, the release too.  Only a canceller that
engages the stop again, and so calls itself, is left out.

An audit write either succeeds or fails (`ok`); what is undone when it fails is
in each action.  `evaluate` reads the clock twice, which is the parameter
`later`: the second reading may be one unit after the first.  Requests, scopes,
approvals and permissions are records over small sets; identifiers, digests,
texts and decision traces are left out.  `verdict` of the latest decision,
`epoch` and `via` are history: which stop an authority was granted after, and
by which door; `"gap"` is the store's, between `ReleaseClears` and `ReleaseResets`.

### RecorderFinalization

The event loop runs what lies between two awaits as one action; `call` is where
the holder of the lifecycle lock waits, `cleanup` where the cleanup task does.
Threads asyncio cannot cancel have a program counter each and per capture: the
append, the finalization worker (`_finish_serially`), and the thread with which
`close_finalization_gate` settles the row while it blocks the loop (nothing of
the loop runs while `cleanup` is `"gate"` or `"verdict"`).  A queued worker may
be dropped when the executor is full and its waiter gives up.  One SQLite
transaction is one update of `row`.  Of time only one thing is kept: whether the
stop budget has room for a commit.  Of frames only two facts per capture: some
are buffered but in no segment, some never will be.

### DataSession

The same rows as in `RecorderFinalization`, seen from the disk: there one bit
says whether frames are lost, here every frame, file and row is kept, and the
service around them is left out.

A commit of a segment is four actions, because a crash (`Crash`) may fall between
any two and each may fail by itself: the temporary file is written
(`WritesTemporary`), moved to its final name (`Publishes`), registered together
with the session's new counters in one transaction (`Registers`), or cleaned up
after (`WriteFails`, `RegistrationFails`, each of which may fail to clean up) and
followed by `MarksFailed`, which may not reach the database.  `append` and
`flush_pending` are the two loops around it; `goal` says which one runs.
`completed` is decided by `CommitCompleted`, the one conditional update that
tells the writer whether it won.

From outside come the recorder's gate (`FailActiveSession`), a recovery
(`Recover`) and an inspection, which reads the rows (`InspectReads`) and later
the directory (`InspectScans`).  There is one session: sessions share nothing but
the database file, and SQLite serialises their transactions.  A frame is its
sequence number; a file is the sequence of its frames.  What a process wrote
survives its crash; the loss of power is not modelled, and the code does not sync
what it writes.

`SessionContract` has three variables, refined by `row.state`, the frames ever
accepted and those in registered segments (`Durable`).  `DataSession` implements
it only while nobody ends the session under a live writer (`Interference` is
FALSE: no gate, and no recovery before the writer is dead): otherwise frames
still become durable in a session that is FAILED, and a registration may turn it
back to ACTIVE (the finding below).  All the other properties are checked, and proved,
with interference.

### CapturePipeline

The other half of `runtime/service.py`: where `RecorderFinalization` asks how a
project recording ends, this module follows the frames.  A frame is the sequence
number the normalizer gives it.  Its fan-out has one delivery per subscriber
(`toArchive`, `toStream`), which may block, be disabled under way, or miss its
deadline; `FanoutEnds` is what `_publish_frame` does with the results, the report
of a failed subscriber included.  `Fails` is `_handle_recorder_failure`, called
from four places.  The archive and the stream consumer, the cleanup task and the
holder of the lifecycle lock (`stop`) have a program counter each; the task that
writes (`write`) and the thread behind it (`thread`) are kept apart, because a
deadline cancels the one and not the other.  `content` is what is in the file of
each capture.  `offered` and `seen` are history.

A timeout may come at any time its await lasts, however short.  An aborted start
that has opened a file is not modelled: nothing of the virtual adapter raises.

### TraceQuery

A call runs on a worker thread: it begins (`AskPage`, `AskAggregate`), reads the
rows of the segments once (`Snapshot`), checks the file of each segment the
filter may match (`Validate`), and scans what it checked; each of these may find a
file gone.  Between two steps the writer may commit another segment, with
timestamps in any order inside it, and a file may vanish, or be replaced before it
was checked (`Spoil`).  The client keeps the pages it got; a page that is not full ends the
chain, or the client goes on from its last frame later (`Resume`).  What a filter
says of a single frame but for its number and its time is one set of `Kinds`; the
histogram groups by them, because one arbitration identifier comes standard and
extended.  The reference is the filter applied to all the frames committed.

### RealtimeStream

`Pairs` are the sockets and workers the store has made.  A generation is not a
number here: handlers are installed per pair, and `heard` is the pair whose
handlers were installed under the present generation; all others return at their
first line.  A pair can be used again when nothing of it is left (`Vacant`): no
event to be handled, nothing posted, not known to the broker.  Closing a socket
puts a close event behind it that is handled later or never.  The worker's throttle
is a choice: a snapshot is posted at once or deferred to the flush timer, and a
timer may fire at any time.  A batch is its stream and its first and last number,
because frames of a stream are numbered without a gap until the broker drops a
batch.  `first` of a view is history.

### WorkspaceDecode

JavaScript runs one listener to its end, and both stores call theirs in the
middle of the change: a change of the session or of the viewport and the pass of
the coordinator it causes are one action.  The promise of a request runs on in two
steps: `then` or `catch` records what came back (`Answer`, `Refuse`), `finally` lets
the next request go (`Finish`), and between the two anything else may change and run
the pass.  A request need not be answered.  `Pump` is `#pump`; what its callers reset
before it are its arguments.  A listener of the decoded store that changes the session
while an answer is being published is left out: its only listeners are panels that
render (`LiveTracePanel.tsx:39`, `LivePlotPanel.tsx:77`).  `live` of a request is whether the generation it was issued under is
still the coordinator's.

### DbcDecode

Pure code, and stated twice: as `decode.py` compiles and applies it (`BigWindow`,
`LittleWindow`, `RawValue`, `Outcome`), and bit by bit from the numbering of a DBC
document (`Walk`, `ReferenceValue`, `IsReference`).  Actions are the requests: an
import replaces the database and the plans, a decode reads them.  The Base64 text
of an import is a sequence of character classes; `Stepwise` is the decode in
steps of `DECODE_CHUNK_CHARS`, `Strict` the library's decode of a whole text.
`ExtraPads` says which library: Python's takes padding behind whole quanta.

### ProjectStore and DbcAssets

A call of a worker is at a step (`call[w]`), each step is one access to the
disk, and any access may fail or be the last before the process is killed.
SQLite is what its transactions promise: `writer` holds the lock of `project.db`.
`create` writes directory, database, schema, manifest, in this order; `open` reads
the manifest, connects, migrates an older schema in one transaction, verifies.
`StoreInit` also starts with projects of each version and with directories put
together by hand.  `DbcAssets` adds the calls that need an open project: imports
by bytes and by path (read, parse, read again, stage, promote, register), `get`,
`load` and `decode` (look up, read and verify, parse or consult the cache,
compile), and others who touch the source, a copy or the directory at any time
(`Tamper`; `tampered` is history).  Both compose: every disk step of both happens
between any two of the other.

### ControlPlane

Three parties.  The shell's calls share one main thread and a mutex: `call` is where
the one in progress waits (a restart gives the mutex back between its shutdown and
its start, when no other call can run to take it, `lib.rs:93-96`), `sidecar` is the child it keeps, `taken` the one a call
has taken out to shut it down; a call that fails drops what it holds, and dropping
kills.  Each process boots, serves, closes its captures and exits, or dies at any
point; one may be a runtime somebody started by hand (`Foreign`) that has the
fixed address.  Each workspace has the `CaptureLifecycle` loop: `wanted` changes at
any time, `phase` and `request` are where its loop waits.  A request reaches the
process that has the address when it is sent; an answer can be lost.

## 3. Runs

| Run (`.cfg`) | Module | Distinct states | Asks |
|---|---|---|---|
| `SafetyKernel` | `MC_SafetyKernel` | 194,819 | does any order of arming, approving, deciding, stopping and releasing leave authority behind |
| `RecorderFinalization` | `MC_RecorderFinalization` | 507,124 | can a thread that outlives its deadline make the runtime and the database disagree |
| `RecorderFinalization_resurrect` | `MC_RecorderFinalization` | | counterexample, see section 5 |
| `DataSession` | `DataSession` | 13,540 | is what the database says of a session true at every crash and failure |
| `DataSession_contract` | `DataSession` | | does a session nobody interferes with implement `SessionContract` |
| `CapturePipeline` | `MC_CapturePipeline` | 96,119 | is anything lost uncounted, and does anything stall the capture |
| `TraceQuery` | `MC_TraceQuery` | 2,860,274 | do pages of a growing session skip or repeat a frame |
| `RealtimeStream` | `RealtimeStream` | 183,381 | does an older socket or worker reach the screen, and does the screen catch up |
| `WorkspaceDecode` | `MC_WorkspaceDecode` | 223,349 | does an answer that comes late show under another project, stream or binding, and is a frame on screen forgotten |
| `DbcDecode` | `MC_DbcDecode` | 634,354 | is a decoded value what the bits of the frame say |
| `DbcAssets` | `MC_DbcAssets` | 2,078,804 | do manifest, database, rows, copies and decoders agree over races, failures and a kill |
| `ControlPlane` | `ControlPlane` | 463,733 | can a process or a capture be left running that nobody owns |

Properties of `SafetyKernel`: `NoAuthorityAcrossStop` (an engaged stop leaves no
armed runtime past its disarm hook and no kernel-granted approval once the call
returned; no ALLOW of a dangerous operation rests on a scope or an approval from
before the last engagement), `AuthorityIsAccounted` (audit records, single use,
a human behind a critical ALLOW), `ReleaseIsNoResume` (the step that ends an
engagement finds the runtime disarmed and no approval that was there when the release
cleared them), `FanOutReachesAll` (a canceller that raises does not spare the others),
`EngageCompletes`.

Properties of `RecorderFinalization`: `PublishedFailureStands` (once the runtime
has said a capture failed, its session is never COMPLETED), `CompletedIsLossless`,
`FinalizationIsAccounted` (no capture starts over a worker that may still write;
FINALIZING hides no failure), `ClosedGateHolds`, `CallReturns`,
`OutstandingClears`.

Properties of `DataSession`: `SegmentsAreTruthful` (a registered segment is whole,
continues the one before it, and the counters of the session are those of its
rows), `CompletedIsWhole` (every frame ever accepted is in a segment; no temporary
file, no orphan), `FailureIsNotCompletion`, `InspectionTruthful`, `SegmentsStand`
(a committed segment never changes again), `ImplementsContract`.

Properties of `CapturePipeline`: `RecordingIsWhole` (the file holds the frames from
the first on without a gap, and all of them after a stop without a failure),
`LossIsCounted` (gaps of the stream; recorded and uncommitted frames make up those
offered), `NothingRecordedAfterFailure`, `IngressNeverStalls`, `StopReturns`.

Properties of `TraceQuery`: `PagesAreExact` (what was delivered is the filter's
answer up to the point reached), `AggregatesCoverSnapshot` (a summary and a
histogram are those of all matching frames of the segments known when it began),
`PagesAdvance`.

Properties of `RealtimeStream`: `OnePipeline` (a live socket and a running worker
are those of the current pair, and the connection shown is the one there is),
`ShownAccounts` (each number between the first and the last is in the view, dropped
from it or counted as a gap), `ViewCatchesUp`, `Settles`.

Properties of `WorkspaceDecode`: `ShownIsCurrent`, `RequestsAreNeeded` (one request
at a time, for nothing that is answered; pending only while one is out),
`NothingForgotten` (a bound frame on screen that is not answered has a request out, or
was refused with just this viewport; the end of a promise runs the pass, so it never
waits for a notification that need not come).

Properties of `DbcDecode`: `DecodesAreExact` (every frame of a request is answered in
its place, with the reference value or a failure), `StepsDecodeTheWhole`.

Properties of `DbcAssets`: `ProjectIsWhole`, `RegisteredIsStored` (the exact bytes
are in place before the row is), `DecodesRegistered` (a decoder handed out is that
of the registered bytes and encoding; the cache keeps its bound).

Properties of `ControlPlane`: `NoOrphan` (a child that lives is held by the shell or
by its call), `OkMeansStopped` (a shutdown reported as done cost no capture its
ending), `ReleaseStops` (a capture its workspace wants no more ends, unless the
workspace was told of a failure).

### Bounds

`SafetyKernel`: one approval identifier, three approval contents (reusable and
single-use, with and without a target that matters), two arm scopes of which one
covers less and lapses earlier, two cancellers, clock 0..2, at most two
engagements (`MaxStops`).  One identifier is enough because approvals never
interact except by replacement under the same identifier; two engagements are
what an authority of an earlier epoch needs; the clock has one unit more than
the earliest expiry, so every expiry is met, just missed and passed between the
two readings of one decision.

`RecorderFinalization`: two captures (`MaxCaptures`), because every interaction
between captures is between one and the next; threads of the first run on while
the second captures.  Disk faults (`DiskFaults`) at every write.

`DataSession`: frames 1..7, batches of up to 4, segments of 2.  A batch can fill
no segment, exactly one, exactly two, or leave a remainder on top of a remainder;
a session has up to four segments, so that first, middle and last ones differ; it
starts at 1 or at 2, so that an offset cannot be mistaken for an index.

`CapturePipeline`: two captures, of 4 and of 1 frames; queues of 1; batches of 2.
Four frames can fill the batch, the write and the queue and leave one that
blocks, and make a gap of two in the stream; what a capture leaves behind can only
harm the next one.

`TraceQuery`: two segments over four frames, two timestamps, one identifier seen
standard and extended, a filter on nothing, on time, and on number and kind; pages
and histograms of 1 and 2.  A page boundary falls inside a segment, between two, and
at the end; a segment may hold a time that neither its first nor its last frame has.

`RealtimeStream`: two pairs, one retry, one frame in the ring and one batch in a
queue, two subscriptions, two streams of three frames.  With two pairs one is
current while the events of the other arrive; a ring of one drops on the second
frame; a queue of one drops a batch, which leaves a gap.

`WorkspaceDecode`: two channels that alternate in a viewport of three, two documents,
two projects, two streams, one frame per request, a store of two.  The viewport is
then larger than the store and than a request, as in the code (20,000 against 4,096
and 1,000).

`DbcDecode`: every start 0..16 and length 1..17 of a signal in two bytes, so that a
window begins, ends and crosses a byte anywhere and just does not fit; nine ways of
multiplexing and of documents the model refuses; four byte values that set the
highest, the lowest and all bits.  Texts of up to two steps and a half.

`DbcAssets`: two workers with two calls between them, one kill, one tampering; two
documents under two encodings and one text that is none; a cache of one.  Two
workers are what a race needs, and a cache of one evicts on the second key.
Workers and project identities are symmetric; the properties are safety.

`ControlPlane`: two children, one foreign runtime, two workspaces, two mounts
(`MaxAcquires`), two captures, one mishap.  Two children are what a restart needs; two
workspaces what it takes to stop somebody else's capture.  The two mounts are one of
each workspace, or two of one, which then is acquired again while its start or its stop
is in flight; two of each are beyond what TLC finishes in minutes.

`CHECK_DEADLOCK FALSE`: the runtime really stops after `aclose`
(`RecorderFinalization`), nothing needs to happen to a session that has ended
(`DataSession`), the shell is gone (`ControlPlane`), or what the bounds allow is used
up (`CapturePipeline`, `RealtimeStream`, `WorkspaceDecode`, `DbcAssets`).

### Fairness

`SafetyKernel`: the thread inside the kernel runs on: weak fairness of the steps of
`release_emergency_stop`, strong fairness of those of `engage_emergency_stop`, because
a canceller may release the stop before it returns, again and again but not for ever.
It presumes a canceller returns, which nothing in the code bounds (hazard list).  `RecorderFinalization`: the event loop
serves each task that can run, threads are scheduled, the clock advances.
Nobody has to start or stop anything, no fault has to happen, and no disk has to
beat a deadline.  `CapturePipeline`: the event loop serves each task that can run
and every deadline comes, but no write has to end; a flush and a close do, since
no deadline cuts them off.

`RealtimeStream`: a pending connection is accepted, refused or lost, queued events
and messages are delivered, timers fire; nobody has to subscribe, leave or capture.
`ControlPlane`: a process that can go on goes on, and a request to a process that is
gone is rejected; no answer to a capture request has to come otherwise, since the
fetch has no timeout.  `DataSession`, `TraceQuery`, `WorkspaceDecode`, `DbcDecode` and
`DbcAssets` state none: each of their properties is about what may happen.  For
`WorkspaceDecode` none could be justified: a decode request has no timeout either.

## 4. Proofs

Each `...Proofs` module proves theorems of the specification of its modules for all
values of the constants, from the named assumptions on them (the bounds are naturals,
the sets are what their names say) and nothing else.  Every safety invariant and every
action property of the passing runs is proved, and type correctness of every
component but `ProjectStore` and `DbcAssets`, whose invariant contains their types.  Two
theorems have a hypothesis: `Implements` (of `DataSession`) that nobody interferes with
the session, and `NeededRequests` (of `WorkspaceDecode`) that the realtime stream does
not outlive the workspace; both are the constant the run of that property has, and
section 5 says what happens otherwise.  A theorem about a specification holds of the one
with fairness, which implies it.

*Induction.*  The prover cannot instantiate a theorem that takes a predicate.  Where a
proof goes over the length of a sequence or the bits of a number, the predicate is a set
instead: a set of naturals that is not empty has a least element (`LeastOf`, from the
well-foundedness of `<`), so a set with 0 that is closed under the successor holds all
naturals (`SetInduction`, `BoundedInduction`), and a function defined by recursion on
them exists and obeys its equation (`Iteration`).

*Safety kernel.*  The authority invariants hold together: an engaged stop strips
authority only if arming and granting are refused while it is engaged, and a
release resumes nothing only if its steps leave nothing behind for each other.
`Releasing` says what each of them relies on: the runtime is disarmed from the first
to the last, between clearing and reset only the store's grants of that gap are held,
and while the record is written nothing the kernel granted is, so that the stop may be
put back.  An approval of an
earlier epoch is held only inside an engagement that has not cleared them yet
(`ApprovalsCurrent`, `Uncleared`), also when a canceller has released the stop in
between.  Their conjunction with the type invariant is inductive; each action
preserves each conjunct in a step of its own.  `FanOutReaches` rests on a small one: while the
fan-out runs, whoever was registered when it began has been asked or is still to be
(`FanOut`).

*Finalization.*  `PublishedFailureStands` is not inductive: that the row is not
COMPLETED now does not keep a worker from committing it.  `IInv` adds why it
cannot: a failure is published only after the recorder is marked failed
(`FailurePublished`), a worker past its reading of the gate is ahead of a closed
gate only while it holds the terminal lock (`ClosedNeverCommits`,
`FailedNeverCommits`), and COMPLETED is written only by a worker that has seen
the gate open (`CompletedByWorker`, `DurableCompletion`).  `CompletedIsLossless`
needs `NothingLostOnTheWay` (frames are accounted for at every hand-over between
consumer, append thread, buffer and worker), `FinalizationIsAccounted` needs
`OneFinalization` and `FinalizingOwned`.  The remaining conjuncts (`Fresh`,
`Owned`, `Opened`, `WorkerAfterArchive`, `AppendOwned`) say which capture each
piece of state belongs to.

*Data session.*  Everything rests on three facts that are no property of their
own.  The row and the writer's memory differ in the state at most (`MemIsRow`),
though others write the row, because they write only its state.  While nothing
has failed, the frames accepted are the durable ones and, behind them, those in
the buffer (`Joined`, `Buffered`).  And each step of a commit knows what the
steps before it left on the disk (`Published`, `Clean`).  `Chained`, `DurableIs`
and `Counted` tie the segment rows to the counters, `Completion` the row to what
the writer believes.  Each conjunct of `IInv` has a lemma that every step
preserves it.  The refinement needs one fact more, `Alone`: a writer nobody
interferes with is right about the state; `ContractStep` then maps every action
to a step of the contract or to a stutter.

*Capture pipeline.*  Every frame of a recording that has not failed is recorded,
pending, queued or under delivery, and these follow each other without a gap
(`Chain`, and `Total` for their number); what is in the file is what is recorded
and, after a write and before its return, what is pending (`Disk`).  From that a
file is a prefix (`Runs`), also when a thread outlives its recording: what it still
writes was handed to it while the recording was alive, and nothing is handed out
later (`Attachment`: a failure has ended the consumer).  A stop without a failure
finds nothing left over (`Ended`), hence the second half of `RecordingIsWhole`.  For
the stream, `Stream` says the queue is a run behind all the consumer has seen, and
`Counted` that what was dropped, seen and queued make up what was published; each
frame the consumer gets adds exactly those between it and the latest to the missing
(`MissingGrows`).

*Trace query.*  Segments are not empty and ascend, over each segment and from one
to the next, and growth keeps both.  Planning leaves out no frame a filter matches
(the lemma all three properties rest on): it looks at sequence bounds only, which
ascend, and never at times, which need not.  While a call runs, `known` is at most the
segments there are, what is `checked` is part of the plan, and `reached` is within
what the snapshot knew.  A cursor is the number of the newest frame delivered and the
point reached, so that the head of what lies beyond it continues what was delivered
without a gap.

*Realtime stream.*  The pipeline and the view are two separate arguments.
`OnePipeline` is inductive with the types: each handler begins with a comparison of
generations, and the only ways out of a live pair, a failure and the last leave, close
it (`Closed`, `FailKeeps`), also with a socket already closed by the other side.  For
`ShownAccounts` the proof follows a batch: whatever is on its way to a worker comes
after what the worker holds, in the order of the numbers, and before what the
runtime numbers next (`Line`), whichever batches the broker drops (`DroppedLine`,
`OfferedLine`); and a batch that comes after what a view holds keeps the account
(`IngestSound`: a new stream begins anew, the same one adds the gap and loses what the
ring has no room for, `PushedFrames`).  Views that are posted and shown are views a
worker held.

*Control plane.*  The type invariant alone is not inductive: that only children are
reported as stopped needs who holds the sidecar.  `IInv` says that the shell keeps a
child or a call has taken it, never both; that a lock is held by whoever waits for it;
and that a process which exited with a capture was killed or crashed (endings).
`OkMeansStopped` follows because a shutdown that was answered has closed the captures,
a start accepted afterwards is closed by the application's lifespan, and Ok is reported
only on an exit with code 0.

*Workspace decode.*  Every action ends with a pass of the coordinator (`Pump`) over
what the action has changed, so that no action can be looked at alone.  The invariant is
one of five values, `WorkspaceSound(se, re, co, dec, reqs)`: an action makes five that
are sound, the pass keeps them sound, and they are the next state.  That an entry shown
is current (`Shown`) needs that the coordinator runs on the stream and the project of the
screen (`InStep`), that a live request asks only what the bindings still say
(`LiveHold`), and that a frame once answered is in the viewport or has been passed for
good (`MarkersHold`, `Below`: the viewport is a run of frames, `Viewed`, that only moves
on).  That nothing is asked twice needs `OneRequest`, `PendingIsLive` and `Disposed`.
That no frame is forgotten is one more fact of the pass (`PumpAttends`: what it leaves waiting has a request, its own or the one that is
still out) and of the end of a promise, after which none is out (`FinishSound`).
What a batch of answers leaves in the store is `SetEntries`, by induction over the batch.

*DBC decoding.*  `WindowsFit`: the window of bytes compiled for a signal that fits
its payload lies in the payload and leaves room for the signal, for every start, length
and byte order; the shift below zero that `_compile_signal` refuses cannot come about.
`ExactDecodes`: the integer that is shifted and masked out of the window has the bits
the DBC numbering names.  A number is the sum of its bits (by induction, with the laws of
quotients and remainders that takes); the position of a bit in the window is followed
for the little-endian run and for the big-endian walk, whose mirror it is; the sign, the
multiplexer's choice and the list of signals come on top, and an answer has one outcome
per frame, in order.  The invariant is that the plans are those of the database
(`Documents`) and the answer that of the request (`Exact`).  `StepwiseDecode`: a text
the steps accept is letters and then padding (`StrictShape`); the steps before the last
are whole quanta of letters (`StepBounds`), so the whole text is accepted too, and on
a canonical text both agree.

*Project and documents.*  `IInv` says for each step of a call what it may rely on, and
that no step of another call takes it away.  A creation is alone on a directory that is
not a project yet (`CreationHolds`), a call on a project knows its identity and the
version its migration read, which can have changed only to the current one
(`OpeningHolds`); the lock of the database is held by whoever is between two of its
statements.  An import knows that what it parsed is what it stores, that its
identity is nobody else's and, once promoted, that the file holds it; a read knows that
the row is there and, once verified, that the bytes are the row's (`TaskHolds`).  Rows
are of parsable documents whose bytes are in place unless others touched them
(`RegistryHolds`); the cache has one decoder per key, the key's, and no more entries than
its bound (`CacheHolds`).  An answer stays true because rows and projects are never
taken back (`AnswerHolds`, `ResultHolds`).

Only model-checked: everything under fairness (`EngageCompletes`, `CallReturns`,
`OutstandingClears`, `IngressNeverStalls`, `StopReturns`, `ViewCatchesUp`, `Settles`,
`ReleaseStops`), which is beyond the prover.

## 5. Findings

`RecorderFinalization_resurrect`: `register_segment` writes the whole session row
from the writer's memory; a thread that outlived its deadline turns a durable FAILED
back into ACTIVE.  `PROJECT.json` quotes the lines.

Other statements of the code or its documents that the program does not keep.  Each
is a definition of its module, with the lines it quotes, that TLC finds violated
when it is added to the run of that module; none of them affects the properties above.

- `NothingPreStaged` (`SafetyKernel`): the approval store the kernel exposes can be
  granted to while the stop is engaged.  What was granted does not survive the
  release, unless it was granted after the release had cleared the approvals (next).
- `ReleasedHoldsNothing` (`SafetyKernel`): "a released runtime is `DISARMED` and holds no
  outstanding approval", "asserted rather than assumed" (`kernel.py:404-406`).
  `release_emergency_stop` clears the approvals (`:422`) and resets the stop (`:423`) in
  two steps, and the store's `grant` takes only the store's lock (`approval.py:339`): an
  approval granted between the two is held by the released runtime.  It was granted in
  the epoch that ends and may be spent once the runtime is armed anew; what the release
  had cleared is gone (`ReleaseIsNoResume`).
- `StopStands` (`SafetyKernel`): an engagement ends with "the stop is engaged"
  (`emergency.py:305`), but a canceller may call the release: `engage_emergency_stop`
  then returns with the stop released, the runtime disarmed and no approvals.
- `AbortedStartIsNotCompleted` (`RecorderFinalization`): while the failure of an
  earlier capture is still recorded, an aborted start leaves its session COMPLETED.
- `IdleMeansCompleted`: a worker that refuses to commit for want of budget leaves the
  row FAILED and the runtime IDLE without a failure.
- `FinalizingIsOwned`: a stop may leave the runtime FINALIZING with no task that will
  settle it.
- `PendingEnds`: a finalization the executor drops before it starts stays pending for
  ever, and no capture can start again.
- `StopReleases` (`CapturePipeline`): a stop of the snapshot recorder that its deadline
  cancels leaves the recorder with a cancelled write task; the stop of the next
  capture raises `CancelledError`, every time, and the session is never released.
- `LossIsObservable` (`RealtimeStream`): "every loss is observable"
  (`docs/V0.1_TECH_VALIDATION.md:180`).  Frames lost while the view is between two
  pairs are in no counter: the next worker starts its count with the first frame it
  gets.
- `DisposalIsFinal` (`WorkspaceDecode`, with `Outlives` TRUE): a request that ends
  after the coordinator was disposed runs the pass again, which may ask and publish
  (`decode-coordinator.ts:162-167` and `276-282`).  With the realtime store the
  desktop has, whose stream ends with the workspace, the pass finds nothing to do.

Seen while modelling, and without a definition:

- Releasing a stop that is not engaged while the audit write fails asks
  `restore_engagement` for a state it refuses (`emergency.py:386` and `:403`).
  FINALIZING is also shown while a DEGRADED capture still runs (`service.py:32` and
  `:646`).  The gate answers FAILED also when no FAILED could be written
  (`project_recorder.py:231` and `:250`).
- An inspection beside a live writer may report as an orphan a segment that was
  registered after it had read the rows (`session.py:801` and `:820`).  A recovery
  returns the ids of its list also for sessions that ended before its update
  (`session.py:763`).  Segments are not synced before their rows are committed, while
  DBC files are (`dbc/project_service.py:491`).  When a publication misses its deadline
  just before another failure is declared, what it discarded is in neither count
  (`service.py:549`).
- `GET /project/inspect` of a legacy project migrates it, where its route says it only
  reads (`api/project.py:68`).  Of two concurrent opens of a legacy project the second
  fails with `migration_failed` (`storage.py:302-333`).  A kill inside `create` leaves a
  directory that can neither be opened nor created again.  A kill between the promotion
  of a copy and its row leaves a file nobody owns.
- Python's `b64decode(validate=True)` accepts padding behind whole quanta (`AAAA=`),
  which the decode in steps refuses when the padding falls into a step of its own: the
  two agree on canonical texts only, and the stepwise one is the stricter.
- The shell's shutdown request has a read timeout of one second while the stop behind
  it has a budget of five: a runtime whose stop takes longer is killed.  A stop names
  no owner, so a release may stop a capture of another workspace
  (`capture-lifecycle.ts:36-38`); a start whose answer is lost, or a reload of the page,
  leaves a capture that a remount only observes.  Health is the address's, which may be
  a foreign process.  After a shutdown was accepted a start is still accepted until the
  server notices, where `docs/V0.1_TECH_VALIDATION.md:122` says new starts are refused;
  line 117 says the sidecar gets a parent-process identifier, and none is passed, so a
  killed shell leaves its runtime.
- The decoded store holds 4,096 entries under a viewport of up to 20,000 frames; the
  frames it evicts count as processed and are not asked for again.  The first work set
  that is refused blocks those behind it until the viewport changes
  (`decode-coordinator.ts:269-274`).
- A decode request that never settles ends decoding: `runtimeFetch` is a bare fetch
  (`runtime-http.ts:128-134`), neither the client (`dbc-decode-client.ts:358-375`) nor
  the workspace (`DockWorkspace.tsx:136-141`) adds a timeout, and `#inFlight` stays set
  until the workspace is mounted anew.

## 6. Not modelled

Audit record formats, identifier syntax, metrics, the MessagePack codec, DBC
grammar (cantools), rendering and styling, Tauri dialogs, wire formats and error
envelopes, the agents' read tools, development tooling and the CI scripts.  They keep no
state anything above decides on, are pure encodings, or are not part of the running
system.  The loss of power is not modelled: what a process wrote survives its crash.
A killed shell, a reload of the page and a listener that throws are left out of
`ControlPlane` and `RealtimeStream`; names, units, labels and the arithmetic of a
physical value out of `DbcDecode`; the worker's `configure`, `freeze` and `resume`, which
nobody sends, out of `RealtimeStream`.  `PROJECT.json` gives the reason per component.

## 7. Plan

Every part of the first plan is modelled: the safety kernel, the two halves of
capturing, the data session, the trace query, the realtime view, the decode loop, the
project and its documents, and the control plane.  Next would be:

1. `ControlPlane` over `RecorderFinalization`: a shutdown whose stop really takes the
   time it takes there.
2. The loss of power in `DataSession` and `DbcAssets`, with what is synced and what is
   not.
3. Abstract specifications that more components are shown to implement, as `DataSession`
   implements `SessionContract`: of a recording (`CapturePipeline` and
   `RecorderFinalization`, each of which has a half of it) and of a document store
   (`DbcAssets`).
