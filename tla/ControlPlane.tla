------------------------------ MODULE ControlPlane ------------------------------
(***************************************************************************)
(* Who runs the runtime, and who runs its capture: the desktop shell       *)
(* (src-tauri/src/lib.rs) and the child process it owns                    *)
(* (runtime_sidecar.rs), the control routes of that process (api/app.py,   *)
(* __main__.py) and the workspaces' CaptureLifecycle                       *)
(* (capture-lifecycle.ts over capture-client.ts).                          *)
(*                                                                         *)
(* The shell's calls run on its one main thread, under a mutex, so at most *)
(* one is in progress: it waits for a child to be healthy, or has posted a *)
(* shutdown, or polls for the exit it was promised.  Restart gives the     *)
(* mutex back between its shutdown and its start, when nothing else can    *)
(* run there (lib.rs:93-96).  Every way out of a call that is              *)
(* an error drops the sidecar, and dropping kills.  The address is fixed:  *)
(* whoever serves it answers, which may be a runtime started by hand       *)
(* (Foreign).  A request reaches the process that has the address when it  *)
(* is sent and fails when that process ends.  Clocks are left out: a       *)
(* deadline may pass at any time.  How a capture stops is the subject of   *)
(* RecorderFinalization and CapturePipeline; here it takes a while.        *)
(***************************************************************************)
EXTENDS Naturals, FiniteSets

CONSTANTS
  Children,     \* processes the shell may spawn
  Foreign,      \* a canx-runtime started by hand on the same address
  NoProcess,    \* no child, nobody at the address
  Clients,      \* workspaces, each with its CaptureLifecycle
  MaxCaptures,  \* bound on the captures that are started
  MaxAcquires,  \* bound on how often workspaces mount, all together
  MaxMishaps    \* bound on processes that end by themselves, or that are foreign

\* Who has the lock of a capture, but for a client.
Free == "free"
Closing == "close"
Shutting == "shutdown"

ASSUME ControlAssumption ==
  /\ Foreign \notin Children /\ NoProcess \notin Children \cup {Foreign}
  /\ IsFiniteSet(Children)
  /\ Clients \cap {Free, Closing, Shutting} = {}
  /\ MaxCaptures \in Nat /\ MaxAcquires \in Nat /\ MaxMishaps \in Nat

Processes == Children \cup {Foreign}
NoCapture == 0
Captures == 1..MaxCaptures

VARIABLES
  \* The shell.
  shell,      \* whether the application runs
  call,       \* where the call in progress is
  intent,     \* what that call is for
  sidecar,    \* inner.sidecar
  taken,      \* the sidecar that is a local of the call
  orderly,    \* children whose shutdown was reported as Ok
  \* Each process.
  process,    \* its stage
  code,       \* whether it exited with code 0
  leaving,    \* should_exit
  lock,       \* who has the capture's lifecycle lock
  capture,    \* the capture of has_session
  running,    \* whether that capture runs: it may also start or stop
  lost,       \* it ended under a capture
  \* The address.
  address,    \* who listens on it
  shutdown,   \* the POST /runtime/shutdown of the call
  \* Each workspace.
  wanted, phase, request,
  mine,       \* the capture that its start began
  \* How much happened.
  captures, acquires, mishaps

shellVars == <<shell, call, intent, sidecar, taken, orderly>>
captureVars == <<lock, capture, running>>
processVars == <<process, code, leaving, captureVars, lost>>
clientVars == <<wanted, phase, request, mine>>
bounds == <<captures, acquires, mishaps>>
vars == <<shellVars, processVars, address, shutdown, clientVars, bounds>>

NoRequest == [op |-> "none", to |-> NoProcess, held |-> FALSE]
Live == {p \in Processes : process[p] \in {"booting", "serving", "closing"}}

Init ==
  /\ shell = "running" /\ call = "start" /\ intent = "start"
  /\ sidecar = NoProcess /\ taken = NoProcess
  /\ orderly = {}
  /\ process = [p \in Processes |-> "none"]
  /\ code = [p \in Processes |-> FALSE]
  /\ leaving = [p \in Processes |-> FALSE]
  /\ lock = [p \in Processes |-> Free]
  /\ capture = [p \in Processes |-> NoCapture]
  /\ running = [p \in Processes |-> FALSE]
  /\ lost = [p \in Processes |-> FALSE]
  /\ address = NoProcess /\ shutdown = "none"
  /\ wanted = [c \in Clients |-> FALSE]
  /\ phase = [c \in Clients |-> "idle"]
  /\ request = [c \in Clients |-> NoRequest]
  /\ mine = [c \in Clients |-> NoCapture]
  /\ captures = 0 /\ acquires = 0 /\ mishaps = 0

---------------------------------------------------------------------------
(* Processes end. *)

\* What is left when the processes of P have gone, by themselves or not.
Gone(P, clean) ==
  /\ process' = [p \in Processes |-> IF p \in P THEN "exited" ELSE process[p]]
  /\ code' = [p \in Processes |-> IF p \in P THEN clean ELSE code[p]]
  /\ lost' = [p \in Processes |->
                lost[p] \/ (p \in P \cap Children /\ capture[p] # NoCapture)]
  /\ capture' = [p \in Processes |-> IF p \in P THEN NoCapture ELSE capture[p]]
  /\ running' = [p \in Processes |-> running[p] /\ p \notin P]
  /\ lock' = [p \in Processes |-> IF p \in P THEN Free ELSE lock[p]]
  /\ address' = IF address \in P THEN NoProcess ELSE address
  /\ leaving' = [p \in Processes |-> leaving[p] /\ p \notin P]

\* Mutant of Dropped: the sidecar is dropped without its destructor.
DroppedAlive ==
  /\ taken' = NoProcess
  /\ UNCHANGED <<processVars, address>>

\* Drop: a child that has not exited is killed and waited for.
Dropped ==
  /\ taken' = NoProcess
  /\ IF taken \in Live
     THEN Gone({taken}, FALSE)
     ELSE UNCHANGED <<processVars, address>>

\* The call returns; an Exit event ends the application with it.
Returned ==
  /\ call' = "none"
  /\ intent' = "none"
  /\ shell' = IF intent = "exit" THEN "gone" ELSE shell

---------------------------------------------------------------------------
(* The shell. *)

\* start, with no sidecar: the child is spawned ...
Spawn ==
  /\ call = "start" /\ sidecar = NoProcess
  /\ \E p \in Children :
       /\ process[p] = "none"
       /\ process' = [process EXCEPT ![p] = "booting"]
       /\ taken' = p
  /\ call' = "waiting"
  /\ UNCHANGED <<shell, intent, sidecar, orderly, code, leaving, captureVars,
                 lost, address, shutdown, clientVars, bounds>>

\* ... or cannot be.
SpawnFails ==
  /\ call = "start" /\ sidecar = NoProcess
  /\ Returned
  /\ UNCHANGED <<sidecar, taken, orderly, processVars, address, shutdown,
                 clientVars, bounds>>

\* poll_status of child p: its exit comes first, then the health of whoever
\* answers at the address.
Failed(p) == process[p] = "exited"
Ready(p) == ~Failed(p) /\ address # NoProcess

\* wait_until_ready: somebody is healthy, and the sidecar is kept.
StartReady ==
  /\ call = "waiting" /\ Ready(taken)
  /\ sidecar' = taken /\ taken' = NoProcess
  /\ Returned
  /\ UNCHANGED <<orderly, processVars, address, shutdown, clientVars, bounds>>

\* wait_until_ready: the child exited, or the deadline passed.
StartFails ==
  /\ call = "waiting"
  /\ Dropped
  /\ Returned
  /\ UNCHANGED <<sidecar, orderly, shutdown, clientVars, bounds>>

\* shutdown without an error: a restart goes on to start.
ShutDown(why) ==
  /\ call' = IF why = "restart" THEN "start" ELSE "none"
  /\ intent' = IF why = "restart" THEN "restart" ELSE "none"
  /\ shell' = IF why = "exit" THEN "gone" ELSE shell

\* restart_runtime, or the Exit event: the sidecar is taken and polled, and
\* POST /runtime/shutdown sent to whoever has the address.
Begin(why) ==
  /\ shell = "running" /\ call = "none"
  /\ sidecar' = NoProcess
  /\ IF sidecar = NoProcess \/ Failed(sidecar)
     THEN /\ taken' = NoProcess /\ ShutDown(why)
          /\ UNCHANGED shutdown
     ELSE /\ taken' = sidecar /\ call' = "posted" /\ intent' = why
          /\ shutdown' = IF address = NoProcess THEN "refused" ELSE "sent"
          /\ UNCHANGED shell
  /\ UNCHANGED <<orderly, processVars, address, clientVars, bounds>>
Restart == Begin("restart")
ExitEvent == Begin("exit")

\* runtime.network_error: nobody, an answer that takes more than a second or
\* never comes; runtime.shutdown_rejected: a status other than 202.  The
\* handler that was reached goes on.
ShutdownFails ==
  /\ call = "posted"
  /\ Dropped
  /\ Returned
  /\ shutdown' = "none"
  /\ UNCHANGED <<sidecar, orderly, clientVars, bounds>>

\* Mutant of Stops: on_child_exit takes any exit of a stopping child.
StopsAnyhow(p) == process[p] = "exited"

\* on_child_exit of a stopping child: only an exit with code 0 is a stop.
Stops(p) == process[p] = "exited" /\ code[p]

\* The child exited as asked.
ExitsInTime ==
  /\ call = "polling" /\ Stops(taken)
  /\ orderly' = orderly \cup {taken}
  /\ taken' = NoProcess
  /\ ShutDown(intent)
  /\ UNCHANGED <<sidecar, processVars, address, shutdown, clientVars, bounds>>

\* It exited otherwise, or has to be killed at the deadline.
ForcedTermination ==
  /\ call = "polling" /\ ~Stops(taken)
  /\ Dropped
  /\ Returned
  /\ UNCHANGED <<sidecar, orderly, shutdown, clientVars, bounds>>

ShellStep ==
  \/ Spawn \/ SpawnFails \/ StartReady \/ StartFails \/ ShutdownFails
  \/ ExitsInTime \/ ForcedTermination

---------------------------------------------------------------------------
(* A workspace's calls. *)

\* Mutant of Reconciled: #run returns after one call.
ReconciledOnce(want, state) ==
  IF want /\ state = "idle" THEN "starting"
  ELSE IF ~want /\ state = "observed" THEN "idle" ELSE state

\* #run until its next await: the intent against the phase.
Reconciled(want, state) ==
  IF want /\ state = "idle" THEN "starting"
  ELSE IF ~want /\ state = "owned" THEN "stopping"
  ELSE IF ~want /\ state = "observed" THEN "idle" ELSE state

RequestOf(state) ==
  IF state = "starting" THEN [op |-> "start", to |-> address, held |-> FALSE]
  ELSE IF state = "stopping" THEN [op |-> "stop", to |-> address, held |-> FALSE]
  ELSE NoRequest

\* The phase is set and reconciled, and its call sent.
Run(c, want, state) ==
  /\ phase' = [phase EXCEPT ![c] = Reconciled(want, state)]
  /\ request' = [request EXCEPT ![c] = RequestOf(Reconciled(want, state))]

\* The await of a call is over, with what startVirtualCapture or stopCapture
\* makes of the answer: the phase is set, and the intent read again.
Answered(c, state) ==
  /\ Run(c, wanted[c], state)
  /\ UNCHANGED <<wanted, mine>>

---------------------------------------------------------------------------
(* A runtime process. *)

\* The user starts a runtime by hand.
ForeignBoots ==
  /\ process[Foreign] = "none" /\ mishaps < MaxMishaps
  /\ mishaps' = mishaps + 1
  /\ process' = [process EXCEPT ![Foreign] = "booting"]
  /\ UNCHANGED <<shellVars, code, leaving, captureVars, lost, address, shutdown,
                 clientVars, captures, acquires>>

\* uvicorn binds the address ...
Serve(p) ==
  /\ process[p] = "booting" /\ address = NoProcess
  /\ process' = [process EXCEPT ![p] = "serving"]
  /\ address' = p
  /\ UNCHANGED <<shellVars, code, leaving, captureVars, lost, shutdown,
                 clientVars, bounds>>

\* ... or exits because it is taken.
BindFails(p) ==
  /\ process[p] = "booting" /\ address # NoProcess
  /\ Gone({p}, FALSE)
  /\ UNCHANGED <<shellVars, shutdown, clientVars, bounds>>

\* The process ends by itself, or is ended from outside.
Crash(p) ==
  /\ p \in Live /\ mishaps < MaxMishaps
  /\ mishaps' = mishaps + 1
  /\ Gone({p}, FALSE)
  /\ UNCHANGED <<shellVars, shutdown, clientVars, captures, acquires>>

\* A request of a client that p can begin to answer.
Received(p, c, op) ==
  /\ request[c].op = op /\ request[c].to = p /\ ~request[c].held
  /\ process[p] = "serving"

Held(c) == request' = [request EXCEPT ![c].held = TRUE]

\* POST /capture/start: a session there is, starting and stopping included.
StartRefused(p, c) ==
  /\ Received(p, c, "start") /\ capture[p] # NoCapture
  /\ Answered(c, "observed")
  /\ UNCHANGED <<shellVars, processVars, address, shutdown, bounds>>

\* start_capture takes the lock and builds the pipeline.
StartBegins(p, c) ==
  /\ Received(p, c, "start") /\ capture[p] = NoCapture /\ lock[p] = Free
  /\ captures < MaxCaptures
  /\ captures' = captures + 1
  /\ capture' = [capture EXCEPT ![p] = captures + 1]
  /\ lock' = [lock EXCEPT ![p] = c]
  /\ mine' = [mine EXCEPT ![c] = captures + 1]
  /\ Held(c)
  /\ UNCHANGED <<shellVars, process, code, leaving, running, lost, address,
                 shutdown, wanted, phase, acquires, mishaps>>

\* start_capture returns, or has undone what it did.
StartEnds(p, c) ==
  /\ lock[p] = c /\ request[c].op = "start"
  /\ lock' = [lock EXCEPT ![p] = Free]
  /\ \/ /\ running' = [running EXCEPT ![p] = TRUE]
        /\ Answered(c, "owned")
        /\ UNCHANGED capture
     \/ /\ capture' = [capture EXCEPT ![p] = NoCapture]
        /\ Answered(c, "failed")
        /\ UNCHANGED running
  /\ UNCHANGED <<shellVars, process, code, leaving, lost, address, shutdown,
                 bounds>>

\* stop_capture under the lock, for `who`.
StopBegins(p, who) ==
  /\ lock[p] = Free
  /\ lock' = [lock EXCEPT ![p] = who]
  /\ running' = [running EXCEPT ![p] = FALSE]
  /\ UNCHANGED capture
StopEnds(p, who) ==
  /\ lock[p] = who
  /\ lock' = [lock EXCEPT ![p] = Free]
  /\ capture' = [capture EXCEPT ![p] = NoCapture]
  /\ UNCHANGED running

\* POST /capture/stop: idempotent, and whosever capture it is.
ClientStops(p, c) ==
  /\ Received(p, c, "stop")
  /\ StopBegins(p, c)
  /\ Held(c)
  /\ UNCHANGED <<shellVars, process, code, leaving, lost, address, shutdown,
                 wanted, phase, mine, bounds>>
ClientStopped(p, c) ==
  /\ request[c].op = "stop"
  /\ StopEnds(p, c)
  /\ Answered(c, "idle")
  /\ UNCHANGED <<shellVars, process, code, leaving, lost, address, shutdown,
                 bounds>>

\* POST /runtime/shutdown: the token is that of the child, so a foreign runtime
\* refuses; the capture is stopped first.
ShutdownRefused ==
  /\ shutdown = "sent" /\ address # taken /\ address # NoProcess
  /\ shutdown' = "refused"
  /\ UNCHANGED <<shellVars, processVars, address, clientVars, bounds>>
ShutdownBegins(p) ==
  /\ shutdown = "sent" /\ address = p /\ taken = p
  /\ StopBegins(p, Shutting)
  /\ shutdown' = "stopping"
  /\ UNCHANGED <<shellVars, process, code, leaving, lost, address, clientVars,
                 bounds>>
\* shutdown_callback, and the answer 202: the shell polls for the exit.
ShutdownEnds(p) ==
  /\ StopEnds(p, Shutting)
  /\ leaving' = [leaving EXCEPT ![p] = TRUE]
  /\ shutdown' = "none" /\ call' = "polling"
  /\ UNCHANGED <<shell, intent, sidecar, taken, orderly, process, code, lost,
                 address, clientVars, bounds>>

\* The server's next tick: it no longer accepts.
Leave(p) ==
  /\ process[p] = "serving" /\ leaving[p]
  /\ process' = [process EXCEPT ![p] = "closing"]
  /\ address' = NoProcess
  /\ UNCHANGED <<shellVars, code, leaving, captureVars, lost, shutdown,
                 clientVars, bounds>>

Handling(p) == \E c \in Clients : lock[p] = c

\* Mutant of Quiet: the lifespan of the application closes nothing.
QuietAtOnce(p) == ~Handling(p)

\* What the process exits under: its requests are over and it has no capture.
Quiet(p) == lock[p] = Free /\ capture[p] = NoCapture

\* lifespan: aclose, once the requests are over.
CloseBegins(p) ==
  /\ process[p] = "closing" /\ capture[p] # NoCapture
  /\ StopBegins(p, Closing)
  /\ UNCHANGED <<shellVars, process, code, leaving, lost, address, shutdown,
                 clientVars, bounds>>
CloseEnds(p) ==
  /\ StopEnds(p, Closing)
  /\ UNCHANGED <<shellVars, process, code, leaving, lost, address, shutdown,
                 clientVars, bounds>>
Exit(p) ==
  /\ process[p] = "closing" /\ Quiet(p)
  /\ Gone({p}, TRUE)
  /\ UNCHANGED <<shellVars, shutdown, clientVars, bounds>>

RuntimeStep(p) ==
  \/ Serve(p) \/ BindFails(p) \/ ShutdownBegins(p) \/ ShutdownEnds(p) \/ Leave(p)
  \/ CloseBegins(p) \/ CloseEnds(p) \/ Exit(p)
  \/ \E c \in Clients :
       StartRefused(p, c) \/ StartBegins(p, c) \/ StartEnds(p, c)
       \/ ClientStops(p, c) \/ ClientStopped(p, c)

---------------------------------------------------------------------------
(* The workspaces, and how requests fail. *)

\* Mutant of Want: an acquire does not wait for the call in flight.
WantUnguarded(c, want) ==
  /\ wanted' = [wanted EXCEPT ![c] = want]
  /\ IF phase[c] \in {"starting", "stopping"} /\ ~want
     THEN UNCHANGED <<phase, request>>
     ELSE Run(c, want, IF want THEN "idle" ELSE phase[c])
  /\ UNCHANGED <<shellVars, processVars, address, shutdown, mine, captures, mishaps>>

\* acquire and release: a reconciliation in flight reads the intent later.
Want(c, want) ==
  /\ wanted' = [wanted EXCEPT ![c] = want]
  /\ IF phase[c] \in {"starting", "stopping"}
     THEN UNCHANGED <<phase, request>>
     ELSE Run(c, want, phase[c])
  /\ UNCHANGED <<shellVars, processVars, address, shutdown, mine, captures, mishaps>>

Acquire(c) ==
  /\ ~wanted[c] /\ acquires < MaxAcquires
  /\ acquires' = acquires + 1
  /\ Want(c, TRUE)
Release(c) ==
  /\ wanted[c]
  /\ Want(c, FALSE)
  /\ UNCHANGED acquires

\* The workspace mounts anew after a failure, with a lifecycle of its own.
Remount(c) ==
  /\ phase[c] = "failed" /\ ~wanted[c]
  /\ phase' = [phase EXCEPT ![c] = "idle"]
  /\ mine' = [mine EXCEPT ![c] = NoCapture]
  /\ UNCHANGED <<shellVars, processVars, address, shutdown, wanted, request,
                 bounds>>

\* The fetch rejects: nobody listened, or the process that did is gone, or it
\* left before it looked at the request.
Rejected(c) ==
  LET p == request[c].to
  IN /\ request[c].op # "none"
     /\ p \in Live => process[p] = "closing" /\ ~request[c].held
     /\ Answered(c, "failed")
     /\ UNCHANGED <<shellVars, processVars, address, shutdown, bounds>>

---------------------------------------------------------------------------
Next ==
  \/ ShellStep \/ Restart \/ ExitEvent
  \/ ForeignBoots \/ ShutdownRefused
  \/ \E p \in Processes : RuntimeStep(p) \/ Crash(p)
  \/ \E c \in Clients :
       Acquire(c) \/ Release(c) \/ Remount(c) \/ Rejected(c)

Spec == Init /\ [][Next]_vars

\* A process goes on with what it began, in some order, and a fetch that lost
\* its process settles.  The shell and the user need do nothing.
Fairness ==
  /\ WF_vars(\E p \in Processes : RuntimeStep(p))
  /\ WF_vars(\E c \in Clients : Rejected(c))
FairSpec == Spec /\ Fairness

---------------------------------------------------------------------------
TypeOK ==
  /\ shell \in {"running", "gone"}
  /\ call \in {"none", "start", "waiting", "posted", "polling"}
  /\ intent \in {"none", "start", "restart", "exit"}
  /\ sidecar \in Children \cup {NoProcess} /\ taken \in Children \cup {NoProcess}
  /\ orderly \subseteq Children
  /\ process \in [Processes -> {"none", "booting", "serving", "closing", "exited"}]
  /\ code \in [Processes -> BOOLEAN] /\ leaving \in [Processes -> BOOLEAN]
  /\ lock \in [Processes -> Clients \cup {Free, Closing, Shutting}]
  /\ capture \in [Processes -> Captures \cup {NoCapture}]
  /\ running \in [Processes -> BOOLEAN] /\ lost \in [Processes -> BOOLEAN]
  /\ address \in Processes \cup {NoProcess}
  /\ shutdown \in {"none", "sent", "stopping", "refused"}
  /\ wanted \in [Clients -> BOOLEAN]
  /\ phase \in [Clients -> {"idle", "starting", "owned", "observed", "stopping",
                            "failed"}]
  /\ request \in [Clients -> [op : {"none", "start", "stop"},
                              to : Processes \cup {NoProcess}, held : BOOLEAN]]
  /\ mine \in [Clients -> Captures \cup {NoCapture}]
  /\ captures \in Nat /\ acquires \in Nat /\ mishaps \in Nat

\* A child that lives is in the hands of the shell: kept, or of the call in
\* progress.  Whatever way a start, a restart or an exit goes wrong, no runtime
\* outlives it unowned with the address (runtime_sidecar.rs Drop), and no two
\* live at once.
NoOrphan == \A p \in Children \cap Live : p = sidecar \/ p = taken

\* A shutdown the shell reports as Ok has cost no capture its ending: one that
\* a client started between the stop and the exit was stopped too
\* (runtime_sidecar.rs shutdown, api/app.py shutdown and lifespan).
OkMeansStopped == \A p \in orderly : ~lost[p]

\* A capture that a workspace began and wants no more is over sometime, unless
\* the workspace was told that a call failed; the start may still have been in
\* flight when the workspace was unmounted (capture-lifecycle.ts #run).
ReleaseStops ==
  \A c \in Clients :
    (mine[c] # NoCapture /\ ~wanted[c]) ~>
      (wanted[c] \/ phase[c] = "failed" \/ \A p \in Processes : capture[p] # mine[c])
==================================================================================
