------------------------------ MODULE ControlProofs ------------------------------
(***************************************************************************)
(* Theorems about what may stop the runtime, for every value of the        *)
(* constants: ControlPlane, which ends its process, in the first part, and *)
(* SafetyKernel, which ends the authority to act, in the second.           *)
(***************************************************************************)
EXTENDS ControlPlane, SafetyKernel, TLAPS

Stages == {"none", "booting", "serving", "closing", "exited"}
Holders == Clients \cup {Free, Closing, Shutting}
ClientRequests == [op : {"none", "start", "stop"}, to : Processes \cup {NoProcess},
             held : BOOLEAN]
Phases == {"idle", "starting", "owned", "observed", "stopping", "failed"}

\* The processes of a state are well formed.
ProcessTypeOK ==
  /\ process \in [Processes -> Stages]
  /\ code \in [Processes -> BOOLEAN]
  /\ leaving \in [Processes -> BOOLEAN]
  /\ lock \in [Processes -> Holders]
  /\ capture \in [Processes -> Captures \cup {NoCapture}]
  /\ running \in [Processes -> BOOLEAN]
  /\ lost \in [Processes -> BOOLEAN]
  /\ address \in Processes \cup {NoProcess}
ClientTypeOK ==
  /\ wanted \in [Clients -> BOOLEAN]
  /\ phase \in [Clients -> Phases]
  /\ request \in [Clients -> ClientRequests]
  /\ mine \in [Clients -> Captures \cup {NoCapture}]
ShellTypeOK ==
  /\ shell \in {"running", "gone"}
  /\ call \in {"none", "start", "waiting", "posted", "polling"}
  /\ intent \in {"none", "start", "restart", "exit"}
  /\ sidecar \in Children \cup {NoProcess}
  /\ taken \in Children \cup {NoProcess}
  /\ orderly \subseteq Children
  /\ shutdown \in {"none", "sent", "stopping", "refused"}
BoundTypeOK ==
  /\ captures \in Nat /\ acquires \in Nat /\ mishaps \in Nat

LEMMA TypeParts ==
  /\ TypeOK <=> ProcessTypeOK /\ ClientTypeOK /\ ShellTypeOK /\ BoundTypeOK
  /\ TypeOK' <=> ProcessTypeOK' /\ ClientTypeOK' /\ ShellTypeOK' /\ BoundTypeOK'
BY DEF TypeOK, ProcessTypeOK, ClientTypeOK, ShellTypeOK, BoundTypeOK, Stages,
       Holders, ClientRequests, Phases

\* Processes that go stay well formed, and so do those a dropped sidecar was of.
LEMMA GoneType ==
  ASSUME ProcessTypeOK, NEW P \in SUBSET Processes, NEW clean \in BOOLEAN,
         Gone(P, clean)
  PROVE  ProcessTypeOK'
BY DEF ProcessTypeOK, Gone, Stages, Holders, Free, NoCapture

LEMMA DroppedType ==
  ASSUME ProcessTypeOK, ShellTypeOK, Dropped
  PROVE  ProcessTypeOK' /\ taken' = NoProcess
<1>1. CASE taken \in Live
  <2>1. {taken} \in SUBSET Processes /\ Gone({taken}, FALSE)
    BY <1>1 DEF Dropped, Live
  <2>2. QED
    BY <2>1, GoneType DEF Dropped
<1>2. CASE taken \notin Live
  BY <1>2 DEF Dropped, ProcessTypeOK, processVars, captureVars
<1>3. QED
  BY <1>1, <1>2

\* A client that runs its lifecycle stays well formed.
LEMMA RunType ==
  ASSUME ProcessTypeOK, ClientTypeOK, NEW c \in Clients, NEW want \in BOOLEAN,
         NEW state \in Phases, Run(c, want, state)
  PROVE  phase' \in [Clients -> Phases] /\ request' \in [Clients -> ClientRequests]
<1>1. Reconciled(want, state) \in Phases
  BY DEF Reconciled, Phases
<1>2. RequestOf(Reconciled(want, state)) \in ClientRequests
  BY DEF RequestOf, NoRequest, ClientRequests, ProcessTypeOK
<1>3. QED
  BY <1>1, <1>2 DEF Run, ClientTypeOK

LEMMA AnsweredType ==
  ASSUME ProcessTypeOK, ClientTypeOK, NEW c \in Clients, NEW state \in Phases,
         Answered(c, state)
  PROVE  ClientTypeOK'
<1>1. wanted[c] \in BOOLEAN
  BY DEF ClientTypeOK
<1>2. QED
  BY <1>1, RunType DEF Answered, ClientTypeOK

LEMMA HeldType ==
  ASSUME ClientTypeOK, NEW c \in Clients, Held(c)
  PROVE  request' \in [Clients -> ClientRequests]
<1>1. request[c] \in ClientRequests
  BY DEF ClientTypeOK
<1>2. [request[c] EXCEPT !.held = TRUE] \in ClientRequests
  BY <1>1 DEF ClientRequests
<1>3. request' = [request EXCEPT ![c] = [request[c] EXCEPT !.held = TRUE]]
  BY DEF Held
<1>4. QED
  BY <1>2, <1>3 DEF ClientTypeOK

\* A stop changes the lock, the capture and whether it runs, and no more.
LEMMA StopType ==
  ASSUME ProcessTypeOK, NEW p \in Processes, NEW who \in Holders,
         StopBegins(p, who) \/ StopEnds(p, who)
  PROVE  /\ lock' \in [Processes -> Holders]
         /\ capture' \in [Processes -> Captures \cup {NoCapture}]
         /\ running' \in [Processes -> BOOLEAN]
BY DEF ProcessTypeOK, StopBegins, StopEnds, Holders
-----------------------------------------------------------------------------
(***************************************************************************)
(* The strengthening.  One hand holds the sidecar; a capture's lock is     *)
(* held in a live process, and by a shutdown only while its call waits for *)
(* the answer; a capture that was lost and an orderly exit exclude each    *)
(* other by the exit code.                                                 *)
(***************************************************************************)
Handed == call \notin {"none", "start"} => taken \in Children
Hands ==
  /\ NoOrphan
  /\ Handed
  /\ call # "none" => sidecar = NoProcess
  /\ call \in {"none", "start"} => taken = NoProcess
Locks ==
  /\ address # NoProcess => process[address] = "serving"
  /\ \A p \in Processes : lock[p] # Free => p \in Live
  /\ \A p \in Processes : lock[p] = Shutting => call = "posted" /\ taken = p
  /\ shutdown # "none" => call = "posted"
Endings ==
  /\ \A p \in Processes : lost[p] => process[p] = "exited" /\ ~code[p]
  /\ \A p \in orderly : process[p] = "exited" /\ code[p]
IInv == TypeOK /\ Hands /\ Locks /\ Endings
-----------------------------------------------------------------------------
(***************************************************************************)
(* Type correctness.                                                       *)
(***************************************************************************)
LEMMA InitTypeOK == Init => TypeOK
<1>1. NoRequest \in ClientRequests
  BY DEF NoRequest, ClientRequests
<1>2. QED
  BY <1>1 DEF Init, TypeOK, ClientRequests

\* What an action leaves alone stays well formed.
LEMMA SameProcesses ==
  ASSUME ProcessTypeOK, UNCHANGED processVars, UNCHANGED address
  PROVE  ProcessTypeOK'
BY DEF ProcessTypeOK, processVars, captureVars

LEMMA SameClients ==
  ASSUME ClientTypeOK, UNCHANGED clientVars
  PROVE  ClientTypeOK'
BY DEF ClientTypeOK, clientVars

LEMMA SameShell ==
  ASSUME ShellTypeOK, UNCHANGED shellVars, UNCHANGED shutdown
  PROVE  ShellTypeOK'
BY DEF ShellTypeOK, shellVars

LEMMA SameBounds ==
  ASSUME BoundTypeOK, UNCHANGED bounds
  PROVE  BoundTypeOK'
BY DEF BoundTypeOK, bounds

LEMMA ShellTypeStep ==
  ASSUME TypeOK, Handed, ShellStep \/ Restart \/ ExitEvent
  PROVE  TypeOK'
<1>0. ProcessTypeOK /\ ClientTypeOK /\ ShellTypeOK /\ BoundTypeOK
  BY TypeParts
<1>1. CASE Spawn
  <2>1. ProcessTypeOK'
    <3>1. PICK p \in Children : process' = [process EXCEPT ![p] = "booting"]
      BY <1>1 DEF Spawn
    <3>2. process' \in [Processes -> Stages]
      BY <1>0, <3>1 DEF ProcessTypeOK, Stages
    <3>3. QED
      BY <1>0, <1>1, <3>2 DEF Spawn, ProcessTypeOK, captureVars
  <2>2. ClientTypeOK' /\ BoundTypeOK'
    BY <1>0, <1>1, SameClients, SameBounds DEF Spawn,
     clientVars, bounds
  <2>3. ShellTypeOK'
    BY <1>0, <1>1 DEF Spawn, ShellTypeOK
  <2>4. TypeOK'
    BY <2>1, <2>2, <2>3, TypeParts
  <2>5. QED
    BY <2>4
<1>2. CASE SpawnFails \/ StartReady \/ ExitsInTime
  <2>1. ProcessTypeOK' /\ ClientTypeOK' /\ BoundTypeOK'
    BY <1>0, <1>2, SameProcesses, SameClients, SameBounds
    DEF SpawnFails, StartReady, ExitsInTime,
     processVars, captureVars, clientVars, bounds
  <2>2. taken \in Children \/ ~ExitsInTime
    BY DEF ExitsInTime, Handed
  <2>3. ShellTypeOK'
    BY <1>0, <1>2, <2>2
    DEF SpawnFails, StartReady, ExitsInTime, Returned, ShutDown, ShellTypeOK
  <2>4. QED
    BY <2>1, <2>3, TypeParts
<1>3. CASE StartFails \/ ShutdownFails \/ ForcedTermination
  <2>1. ProcessTypeOK' /\ taken' = NoProcess
    BY <1>0, <1>3, DroppedType DEF StartFails, ShutdownFails, ForcedTermination
  <2>2. ClientTypeOK' /\ BoundTypeOK'
    BY <1>0, <1>3, SameClients, SameBounds
    DEF StartFails, ShutdownFails, ForcedTermination,
     clientVars, bounds
  <2>3. ShellTypeOK'
    BY <1>0, <1>3, <2>1
    DEF StartFails, ShutdownFails, ForcedTermination, Returned, ShellTypeOK
  <2>4. QED
    BY <2>1, <2>2, <2>3, TypeParts
<1>4. ASSUME NEW why \in {"restart", "exit"}, Begin(why) PROVE TypeOK'
  <2>1. ProcessTypeOK' /\ ClientTypeOK' /\ BoundTypeOK'
    BY <1>0, <1>4, SameProcesses, SameClients, SameBounds DEF Begin,
     processVars, captureVars, clientVars, bounds
  <2>2. ShellTypeOK'
    BY <1>0, <1>4 DEF Begin, ShutDown, ShellTypeOK
  <2>3. QED
    BY <2>1, <2>2, TypeParts
<1>5. QED
  BY <1>1, <1>2, <1>3, <1>4 DEF ShellStep, Restart, ExitEvent

\* The runtime's own steps, a crash and a foreign runtime's boot.
LEMMA StageTypeStep ==
  ASSUME TypeOK, NEW p \in Processes,
         \/ Serve(p) \/ BindFails(p) \/ Leave(p) \/ Exit(p) \/ Crash(p)
         \/ p = Foreign /\ ForeignBoots
  PROVE  TypeOK'
<1>0. ProcessTypeOK /\ ClientTypeOK /\ ShellTypeOK /\ BoundTypeOK
  BY TypeParts
<1>1. ClientTypeOK' /\ ShellTypeOK'
  BY <1>0, SameClients, SameShell
  DEF Serve, BindFails, Leave, Exit, Crash, ForeignBoots,
     clientVars, shellVars
<1>2. BoundTypeOK'
  <2>1. \/ UNCHANGED bounds
        \/ mishaps' = mishaps + 1 /\ captures' = captures /\ acquires' = acquires
    BY DEF Serve, BindFails, Leave, Exit, Crash, ForeignBoots, bounds
  <2>2. QED
    BY <1>0, <2>1 DEF BoundTypeOK, bounds
<1>3. ProcessTypeOK'
  <2>1. CASE BindFails(p) \/ Crash(p) \/ Exit(p)
    BY <1>0, <2>1, GoneType DEF BindFails, Crash, Exit
  <2>2. CASE ForeignBoots /\ p = Foreign
    BY <1>0, <2>2 DEF ForeignBoots, ProcessTypeOK, Stages, captureVars
  <2>3. CASE Serve(p) \/ Leave(p)
    BY <1>0, <2>3 DEF Serve, Leave, ProcessTypeOK, Stages, captureVars
  <2>4. QED
    BY <2>1, <2>2, <2>3
<1>4. QED
  BY <1>1, <1>2, <1>3, TypeParts

\* What a shutdown does in the process that has the capture.
LEMMA StopTypeStep ==
  ASSUME TypeOK, NEW p \in Processes,
         \/ ShutdownBegins(p) \/ ShutdownEnds(p) \/ CloseBegins(p) \/ CloseEnds(p)
         \/ ShutdownRefused
  PROVE  TypeOK'
<1>0. ProcessTypeOK /\ ClientTypeOK /\ ShellTypeOK /\ BoundTypeOK
  BY TypeParts
<1>1. ClientTypeOK' /\ BoundTypeOK'
  BY <1>0, SameClients, SameBounds
  DEF ShutdownBegins, ShutdownEnds, CloseBegins, CloseEnds, ShutdownRefused,
     clientVars, bounds
<1>2. ShellTypeOK'
  BY <1>0 DEF ShutdownBegins, ShutdownEnds, CloseBegins, CloseEnds,
     ShutdownRefused, ShellTypeOK, shellVars
<1>3. ProcessTypeOK'
  <2>1. CASE ShutdownRefused
    BY <1>0, <2>1, SameProcesses DEF ShutdownRefused,
     processVars, captureVars
  <2>2. Shutting \in Holders /\ Closing \in Holders
    BY DEF Holders
  <2>3. ASSUME ~ShutdownRefused
        PROVE  /\ lock' \in [Processes -> Holders]
               /\ capture' \in [Processes -> Captures \cup {NoCapture}]
               /\ running' \in [Processes -> BOOLEAN]
    BY <1>0, <2>2, <2>3, StopType
    DEF ShutdownBegins, ShutdownEnds, CloseBegins, CloseEnds
  <2>4. CASE ~ShutdownRefused
    BY <1>0, <2>3, <2>4 DEF ShutdownBegins, ShutdownEnds, CloseBegins, CloseEnds,
       ProcessTypeOK
  <2>5. QED
    BY <2>1, <2>4
<1>4. QED
  BY <1>1, <1>2, <1>3, TypeParts

\* The answers to a workspace, and what they change in the process.
LEMMA AnswerTypeStep ==
  ASSUME TypeOK, NEW p \in Processes, NEW c \in Clients,
         \/ StartRefused(p, c) \/ StartBegins(p, c) \/ StartEnds(p, c)
         \/ ClientStops(p, c) \/ ClientStopped(p, c) \/ Rejected(c)
  PROVE  TypeOK'
<1>0. ProcessTypeOK /\ ClientTypeOK /\ ShellTypeOK /\ BoundTypeOK
  BY TypeParts
<1>1. ShellTypeOK'
  BY <1>0, SameShell
  DEF StartRefused, StartBegins, StartEnds, ClientStops, ClientStopped, Rejected,
     shellVars
<1>2. {"observed", "owned", "failed", "idle"} \subseteq Phases /\ c \in Holders
  BY DEF Phases, Holders
<1>3. CASE StartBegins(p, c)
  <2>1. captures + 1 \in Captures /\ captures + 1 \in Nat
    BY <1>0, <1>3, ControlAssumption DEF StartBegins, BoundTypeOK, Captures
  <2>2. ProcessTypeOK'
    BY <1>0, <1>2, <1>3, <2>1 DEF StartBegins, ProcessTypeOK, Holders
  <2>3. ClientTypeOK'
    BY <1>0, <1>3, <2>1, HeldType DEF StartBegins, ClientTypeOK
  <2>4. BoundTypeOK'
    BY <1>0, <1>3, <2>1 DEF StartBegins, BoundTypeOK
  <2>5. QED
    BY <1>1, <2>2, <2>3, <2>4, TypeParts
<1>4. CASE ClientStops(p, c)
  <2>1. ProcessTypeOK'
    BY <1>0, <1>2, <1>4, StopType DEF ClientStops, ProcessTypeOK
  <2>2. ClientTypeOK' /\ BoundTypeOK'
    BY <1>0, <1>4, HeldType, SameBounds DEF ClientStops, ClientTypeOK,
     bounds
  <2>3. QED
    BY <1>1, <2>1, <2>2, TypeParts
<1>5. CASE StartRefused(p, c) \/ StartEnds(p, c) \/ ClientStopped(p, c) \/ Rejected(c)
  <2>1. \E state \in Phases : Answered(c, state)
    BY <1>2, <1>5 DEF StartRefused, StartEnds, ClientStopped, Rejected
  <2>2. ClientTypeOK'
    BY <1>0, <2>1, AnsweredType
  <2>3. BoundTypeOK'
    BY <1>0, <1>5, SameBounds DEF StartRefused, StartEnds, ClientStopped, Rejected,
     bounds
  <2>4. ProcessTypeOK'
    <3>1. CASE StartRefused(p, c) \/ Rejected(c)
      BY <1>0, <3>1, SameProcesses DEF StartRefused, Rejected,
     processVars, captureVars
    <3>2. CASE StartEnds(p, c)
      BY <1>0, <3>2 DEF StartEnds, ProcessTypeOK, Holders
    <3>3. CASE ClientStopped(p, c)
      BY <1>0, <1>2, <3>3, StopType DEF ClientStopped, ProcessTypeOK
    <3>4. QED
      BY <1>5, <3>1, <3>2, <3>3
  <2>5. QED
    BY <1>1, <2>2, <2>3, <2>4, TypeParts
<1>6. QED
  BY <1>3, <1>4, <1>5

\* A workspace mounts and unmounts.
LEMMA IntentTypeStep ==
  ASSUME TypeOK, NEW c \in Clients, Acquire(c) \/ Release(c) \/ Remount(c)
  PROVE  TypeOK'
<1>0. ProcessTypeOK /\ ClientTypeOK /\ ShellTypeOK /\ BoundTypeOK
  BY TypeParts
<1>1. ProcessTypeOK' /\ ShellTypeOK'
  BY <1>0, SameProcesses, SameShell DEF Acquire, Release, Remount, Want,
     processVars, captureVars, shellVars
<1>2. BoundTypeOK'
  <2>1. /\ captures' = captures /\ mishaps' = mishaps
        /\ \/ acquires' = acquires
           \/ acquires' = acquires + 1
    BY DEF Acquire, Release, Remount, Want, bounds
  <2>2. QED
    BY <1>0, <2>1 DEF BoundTypeOK
<1>3. CASE Remount(c)
  BY <1>0, <1>1, <1>2, <1>3, TypeParts DEF Remount, ClientTypeOK, Phases
<1>4. CASE Acquire(c) \/ Release(c)
  <2>1. PICK want \in BOOLEAN : Want(c, want)
    BY <1>4 DEF Acquire, Release
  <2>2. phase[c] \in Phases
    BY <1>0 DEF ClientTypeOK
  <2>3. phase' \in [Clients -> Phases] /\ request' \in [Clients -> ClientRequests]
    BY <1>0, <2>1, <2>2, RunType DEF Want, ClientTypeOK
  <2>4. ClientTypeOK'
    BY <1>0, <2>1, <2>3 DEF Want, ClientTypeOK
  <2>5. QED
    BY <1>1, <1>2, <2>4, TypeParts
<1>5. QED
  BY <1>3, <1>4

LEMMA NextTypeOK == TypeOK /\ Handed /\ [Next]_vars => TypeOK'
<1> SUFFICES ASSUME TypeOK, Handed, [Next]_vars PROVE TypeOK'
  OBVIOUS
<1>1. CASE ShellStep \/ Restart \/ ExitEvent
  BY <1>1, ShellTypeStep
<1>2. CASE ForeignBoots
  BY <1>2, StageTypeStep DEF Processes
<1>3. CASE ShutdownRefused
  BY <1>3, StopTypeStep DEF Processes
<1>4. ASSUME NEW p \in Processes, RuntimeStep(p) \/ Crash(p) PROVE TypeOK'
  BY <1>4, StageTypeStep, StopTypeStep, AnswerTypeStep DEF RuntimeStep
<1>5. ASSUME NEW c \in Clients, Acquire(c) \/ Release(c) \/ Remount(c)
      PROVE  TypeOK'
  BY <1>5, IntentTypeStep
<1>6. ASSUME NEW c \in Clients, Rejected(c) PROVE TypeOK'
  BY <1>6, AnswerTypeStep DEF Processes
<1>7. CASE UNCHANGED vars
  <2>1. /\ UNCHANGED processVars /\ UNCHANGED address /\ UNCHANGED clientVars
        /\ UNCHANGED shellVars /\ UNCHANGED shutdown /\ UNCHANGED bounds
    BY <1>7 DEF vars, processVars, captureVars, clientVars, shellVars, bounds
  <2>2. QED
    BY <2>1, TypeParts, SameProcesses, SameClients, SameShell, SameBounds
<1>8. QED
  BY <1>1, <1>2, <1>3, <1>4, <1>5, <1>6, <1>7 DEF Next
-----------------------------------------------------------------------------
(***************************************************************************)
(* The hands.                                                              *)
(***************************************************************************)
\* Processes that go, or a sidecar that is dropped, add no live process; and
\* a dropped child does not live.
LEMMA GoneLive ==
  ASSUME NEW P \in SUBSET Processes, NEW clean, Gone(P, clean)
  PROVE  Live' = Live \ P
BY DEF Gone, Live

LEMMA DroppedLive ==
  ASSUME ShellTypeOK, Dropped
  PROVE  Live' = Live \ {taken}
<1>1. CASE taken \in Live
  BY <1>1, GoneLive DEF Dropped, Live
<1>2. CASE taken \notin Live
  BY <1>2 DEF Dropped, Live, processVars
<1>3. QED
  BY <1>1, <1>2

\* A step of a runtime makes nothing live and leaves the shell alone, but for
\* the answer to its shutdown.
LEMMA RuntimeLive ==
  ASSUME ProcessTypeOK, NEW p \in Processes, RuntimeStep(p) \/ Crash(p)
  PROVE  /\ Live' \subseteq Live
         /\ UNCHANGED <<sidecar, taken>>
         /\ \/ UNCHANGED call
            \/ ShutdownEnds(p) /\ call' = "polling"
<1>1. CASE BindFails(p) \/ Exit(p) \/ Crash(p)
  BY <1>1, GoneLive DEF BindFails, Exit, Crash, shellVars
<1>2. CASE Serve(p) \/ Leave(p)
  BY <1>2 DEF Serve, Leave, Live, ProcessTypeOK, shellVars
<1>3. CASE ShutdownBegins(p) \/ ShutdownEnds(p) \/ CloseBegins(p) \/ CloseEnds(p)
  BY <1>3 DEF ShutdownBegins, ShutdownEnds, CloseBegins, CloseEnds, Live, shellVars
<1>4. ASSUME NEW c \in Clients,
             \/ StartRefused(p, c) \/ StartBegins(p, c) \/ StartEnds(p, c)
             \/ ClientStops(p, c) \/ ClientStopped(p, c)
      PROVE  Live' = Live /\ UNCHANGED <<sidecar, taken, call>>
  BY <1>4 DEF StartRefused, StartBegins, StartEnds, ClientStops, ClientStopped,
     Live, shellVars, processVars
<1>5. QED
  BY <1>1, <1>2, <1>3, <1>4 DEF RuntimeStep

LEMMA NextHands == TypeOK /\ Hands /\ Locks /\ [Next]_vars => Hands'
<1> SUFFICES ASSUME TypeOK, Hands, Locks, [Next]_vars PROVE Hands'
  OBVIOUS
<1>0. ShellTypeOK /\ ProcessTypeOK
  BY TypeParts
<1>1. CASE Spawn
  <2>1. PICK p \in Children : process' = [process EXCEPT ![p] = "booting"] /\ taken' = p
    BY <1>1 DEF Spawn
  <2>2. Live' \subseteq Live \cup {p}
    BY <1>0, <2>1 DEF Live, ProcessTypeOK
  <2>3. sidecar = NoProcess /\ taken = NoProcess /\ call' = "waiting"
        /\ sidecar' = sidecar
    BY <1>1 DEF Spawn, Hands
  <2>4. Children \cap Live = {}
    BY <2>3, ControlAssumption DEF Hands, NoOrphan
  <2>5. QED
    BY <2>1, <2>2, <2>3, <2>4 DEF Hands, Handed, NoOrphan
<1>2. CASE SpawnFails \/ StartReady \/ ExitsInTime
  <2>1. Live' = Live
    BY <1>2 DEF SpawnFails, StartReady, ExitsInTime, Live, processVars
  <2>2. CASE SpawnFails
    BY <2>1, <2>2 DEF SpawnFails, Returned, Hands, Handed, NoOrphan
  <2>3. CASE StartReady
    BY <2>1, <2>3 DEF StartReady, Returned, Hands, Handed, NoOrphan
  <2>4. CASE ExitsInTime
    <3>1. taken \notin Live
      BY <2>4 DEF ExitsInTime, Stops, Live
    <3>2. QED
      BY <2>1, <2>4, <3>1 DEF ExitsInTime, ShutDown, Hands, Handed, NoOrphan
  <2>5. QED
    BY <1>2, <2>2, <2>3, <2>4
<1>3. CASE StartFails \/ ShutdownFails \/ ForcedTermination
  <2>1. Live' = Live \ {taken} /\ taken' = NoProcess
    BY <1>0, <1>3, DroppedLive DEF StartFails, ShutdownFails, ForcedTermination, Dropped
  <2>2. call' = "none" /\ sidecar' = sidecar
    BY <1>3 DEF StartFails, ShutdownFails, ForcedTermination, Returned
  <2>3. QED
    BY <2>1, <2>2 DEF Hands, Handed, NoOrphan
<1>4. ASSUME NEW why \in {"restart", "exit"}, Begin(why) PROVE Hands'
  <2>1. Live' = Live /\ sidecar' = NoProcess /\ call = "none" /\ taken = NoProcess
    BY <1>4 DEF Begin, Live, processVars, Hands
  <2>2. CASE sidecar = NoProcess \/ Failed(sidecar)
    <3>1. sidecar \notin Children \cap Live
      BY <2>2, ControlAssumption DEF Failed, Live
    <3>2. taken' = NoProcess /\ call' \in {"start", "none"}
      BY <1>4, <2>2 DEF Begin, ShutDown
    <3>3. QED
      BY <2>1, <3>1, <3>2 DEF Hands, Handed, NoOrphan
  <2>3. CASE ~(sidecar = NoProcess \/ Failed(sidecar))
    <3>1. taken' = sidecar /\ call' = "posted" /\ sidecar \in Children
      BY <1>0, <1>4, <2>3 DEF Begin, ShellTypeOK
    <3>2. QED
      BY <2>1, <3>1, ControlAssumption DEF Hands, Handed, NoOrphan
  <2>4. QED
    BY <2>2, <2>3
<1>5. ASSUME NEW p \in Processes, RuntimeStep(p) \/ Crash(p) PROVE Hands'
  <2>1. /\ Live' \subseteq Live /\ UNCHANGED <<sidecar, taken>>
        /\ UNCHANGED call \/ (ShutdownEnds(p) /\ call' = "polling")
    BY <1>0, <1>5, RuntimeLive
  <2>2. ShutdownEnds(p) => call = "posted"
    BY DEF ShutdownEnds, StopEnds, Locks
  <2>3. QED
    BY <2>1, <2>2 DEF Hands, Handed, NoOrphan
<1>6. CASE ForeignBoots \/ ShutdownRefused
  <2>1. Live' \subseteq Live \cup {Foreign} /\ UNCHANGED <<sidecar, taken, call>>
    BY <1>0, <1>6 DEF ForeignBoots, ShutdownRefused, Live, processVars, shellVars,
       ProcessTypeOK
  <2>2. QED
    BY <2>1, ControlAssumption DEF Hands, Handed, NoOrphan
<1>7. ASSUME NEW c \in Clients,
             Acquire(c) \/ Release(c) \/ Remount(c) \/ Rejected(c)
      PROVE  Hands'
  <2>1. Live' = Live /\ UNCHANGED <<sidecar, taken, call>>
    BY <1>7 DEF Acquire, Release, Remount, Rejected, Want, Live, processVars, shellVars
  <2>2. QED
    BY <2>1 DEF Hands, Handed, NoOrphan
<1>8. CASE UNCHANGED vars
  BY <1>8 DEF vars, shellVars, processVars, Hands, Handed, NoOrphan, Live
<1>9. QED
  BY <1>1, <1>2, <1>3, <1>4, <1>5, <1>6, <1>7, <1>8
  DEF Next, ShellStep, Restart, ExitEvent
-----------------------------------------------------------------------------
(***************************************************************************)
(* The locks.                                                              *)
(***************************************************************************)
\* Where processes go, their locks and the address go with them.
LEMMA GoneLocks ==
  ASSUME ProcessTypeOK, Locks, NEW P \in SUBSET Processes, NEW clean,
         Gone(P, clean)
  PROVE  /\ address' # NoProcess => process'[address'] = "serving"
         /\ \A p \in Processes : lock'[p] # Free => p \in Live' /\ lock[p] = lock'[p]
         /\ \A p \in P : lock'[p] = Free
<1>1. address' # NoProcess => process'[address'] = "serving"
  BY DEF Gone, Locks, ProcessTypeOK
<1>2. \A p \in Processes : lock'[p] # Free => p \notin P /\ lock'[p] = lock[p]
  BY DEF Gone
<1>3. QED
  BY <1>1, <1>2, GoneLive DEF Locks, Gone

\* A call that drops its sidecar leaves no lock to a shutdown.
LEMMA DroppedLocks ==
  ASSUME ProcessTypeOK, ShellTypeOK, Locks, Dropped, shutdown' = "none"
  PROVE  Locks'
<1>1. CASE taken \in Live
  <2>1. {taken} \in SUBSET Processes /\ Gone({taken}, FALSE)
    BY <1>1 DEF Dropped, Live
  <2>2. QED
    BY <2>1, GoneLocks DEF Locks, Free, Shutting
<1>2. CASE taken \notin Live
  <2>1. UNCHANGED <<process, lock, address>>
    BY <1>2 DEF Dropped, processVars, captureVars
  <2>2. \A p \in Processes : lock[p] # Shutting
    BY <1>2 DEF Locks, Free, Shutting
  <2>3. QED
    BY <2>1, <2>2 DEF Locks, Live
<1>3. QED
  BY <1>1, <1>2

\* A step that leaves the processes alone, when no shutdown is under way before.
LEMMA SameLocks ==
  ASSUME Locks, UNCHANGED <<process, lock, address>>, shutdown' = shutdown,
         call # "posted" \/ (call' = call /\ taken' = taken)
  PROVE  Locks'
BY DEF Locks, Live

LEMMA NextLocks == TypeOK /\ Hands /\ Locks /\ [Next]_vars => Locks'
<1> SUFFICES ASSUME TypeOK, Hands, Locks, [Next]_vars PROVE Locks'
  OBVIOUS
<1>0. ShellTypeOK /\ ProcessTypeOK
  BY TypeParts
<1>1. CASE Spawn
  <2>1. PICK p \in Children : process[p] = "none" /\ process' = [process EXCEPT ![p] = "booting"]
    BY <1>1 DEF Spawn
  <2>2. p \in Processes /\ process' \in [Processes -> Stages]
    BY <1>0, <2>1 DEF Processes, ProcessTypeOK, Stages
  <2>3. \A q \in Processes : q # p => process'[q] = process[q]
    BY <1>0, <2>1 DEF ProcessTypeOK
  <2>4. address # p /\ p \notin Live
    BY <2>1, ControlAssumption DEF Locks, Live
  <2>5. UNCHANGED <<lock, address, shutdown>> /\ call = "start"
    BY <1>1 DEF Spawn, captureVars
  <2>6. address # NoProcess => process'[address] = "serving"
    BY <1>0, <2>3, <2>4 DEF Locks, ProcessTypeOK
  <2>7. \A q \in Processes : lock[q] # Free => q # p /\ q \in Live'
    BY <2>3, <2>4 DEF Locks, Live
  <2>8. QED
    BY <2>5, <2>6, <2>7 DEF Locks
<1>2. CASE SpawnFails \/ StartReady \/ ExitsInTime
  <2>1. UNCHANGED <<process, lock, address, shutdown>> /\ call # "posted"
    BY <1>2 DEF SpawnFails, StartReady, ExitsInTime, processVars, captureVars
  <2>2. QED
    BY <2>1, SameLocks
<1>3. CASE StartFails \/ ShutdownFails \/ ForcedTermination
  <2>1. Dropped /\ shutdown' = "none"
    BY <1>3 DEF StartFails, ShutdownFails, ForcedTermination, Locks
  <2>2. QED
    BY <1>0, <2>1, DroppedLocks
<1>4. ASSUME NEW why \in {"restart", "exit"}, Begin(why) PROVE Locks'
  <2>1. UNCHANGED <<process, lock, address>> /\ call = "none"
    BY <1>4 DEF Begin, processVars, captureVars
  <2>2. shutdown' # "none" => call' = "posted"
    BY <1>4, <2>1 DEF Begin, Locks
  <2>3. QED
    BY <2>1, <2>2 DEF Locks, Live
<1>5. ASSUME NEW p \in Processes, BindFails(p) \/ Exit(p) \/ Crash(p)
      PROVE  Locks'
  <2>1. \E clean \in BOOLEAN : Gone({p}, clean)
    BY <1>5 DEF BindFails, Exit, Crash
  <2>2. UNCHANGED <<call, taken, shutdown>>
    BY <1>5 DEF BindFails, Exit, Crash, shellVars
  <2>3. QED
    BY <1>0, <2>1, <2>2, GoneLocks DEF Locks, Free, Shutting
<1>6. ASSUME NEW p \in Processes, Serve(p) \/ Leave(p) PROVE Locks'
  <2>1. /\ process' = [process EXCEPT ![p] = process'[p]]
        /\ process[p] \in {"booting", "serving"}
        /\ \/ address = NoProcess /\ address' = p /\ process'[p] = "serving"
           \/ address' = NoProcess /\ process'[p] = "closing"
    BY <1>0, <1>6 DEF Serve, Leave, ProcessTypeOK
  <2>2. UNCHANGED <<call, taken, shutdown, lock>>
    BY <1>6 DEF Serve, Leave, shellVars, captureVars
  <2>3. \A q \in Live : q \in Live'
    BY <1>0, <2>1 DEF Live, ProcessTypeOK
  <2>4. QED
    BY <2>1, <2>2, <2>3 DEF Locks
<1>7. ASSUME NEW p \in Processes, NEW who \in Holders, StopBegins(p, who),
             UNCHANGED <<process, address, call, taken>>, p \in Live,
             who = Shutting => call = "posted" /\ taken = p,
             shutdown' # "none" => shutdown # "none"
      PROVE  Locks'
  <2>1. lock' = [lock EXCEPT ![p] = who] /\ Live' = Live
    BY <1>7 DEF StopBegins, Live
  <2>2. QED
    BY <1>0, <1>7, <2>1 DEF Locks, ProcessTypeOK
<1>8. ASSUME NEW p \in Processes, NEW who \in Holders,
             lock' = [lock EXCEPT ![p] = Free], lock[p] = who,
             UNCHANGED <<process, address, taken>>,
             IF who = Shutting THEN shutdown' = "none"
                               ELSE UNCHANGED <<call, shutdown>>
      PROVE  Locks'
  <2>1. Live' = Live
    BY <1>8 DEF Live
  <2>2. \A q \in Processes : lock'[q] # Free => q # p /\ lock[q] = lock'[q]
    BY <1>0, <1>8 DEF ProcessTypeOK
  <2>3. QED
    BY <1>8, <2>1, <2>2 DEF Locks, Free, Shutting
<1>9. ASSUME NEW p \in Processes, ShutdownBegins(p) \/ CloseBegins(p)
      PROVE  Locks'
  <2>1. CASE ShutdownBegins(p)
    <3>1. p \in Live /\ call = "posted"
      BY <2>1, ControlAssumption DEF ShutdownBegins, Locks, Live, Processes
    <3>2. QED
      BY <1>7, <2>1, <3>1 DEF ShutdownBegins, Holders, shellVars
  <2>2. CASE CloseBegins(p)
    BY <1>7, <2>2 DEF CloseBegins, Live, Holders, Shutting, Closing, shellVars
  <2>3. QED
    BY <1>9, <2>1, <2>2
<1>10. ASSUME NEW p \in Processes, ShutdownEnds(p) \/ CloseEnds(p)
       PROVE  Locks'
  BY <1>8, <1>10
  DEF ShutdownEnds, CloseEnds, StopEnds, Holders, Shutting, Closing, shellVars
<1>11. ASSUME NEW p \in Processes, NEW c \in Clients,
              \/ StartRefused(p, c) \/ StartBegins(p, c) \/ StartEnds(p, c)
              \/ ClientStops(p, c) \/ ClientStopped(p, c)
       PROVE  Locks'
  <2>1. c \in Holders /\ c # Shutting
    BY ControlAssumption DEF Holders
  <2>2. CASE StartRefused(p, c)
    BY <2>2, SameLocks DEF StartRefused, processVars, captureVars, shellVars
  <2>3. CASE StartBegins(p, c)
    <3>1. p \in Live /\ lock' = [lock EXCEPT ![p] = c]
      BY <2>3 DEF StartBegins, Received, Live
    <3>2. UNCHANGED <<process, address, call, taken, shutdown>>
      BY <2>3 DEF StartBegins, shellVars
    <3>3. QED
      BY <1>0, <2>1, <3>1, <3>2 DEF Locks, Live, ProcessTypeOK
  <2>4. CASE ClientStops(p, c)
    <3>1. p \in Live
      BY <2>4 DEF ClientStops, Received, Live
    <3>2. QED
      BY <1>7, <2>1, <2>4, <3>1 DEF ClientStops, shellVars
  <2>5. CASE StartEnds(p, c) \/ ClientStopped(p, c)
    BY <1>8, <2>1, <2>5 DEF StartEnds, ClientStopped, StopEnds, shellVars
  <2>6. QED
    BY <1>11, <2>2, <2>3, <2>4, <2>5
<1>12. CASE ForeignBoots
  <2>1. /\ process[Foreign] = "none" /\ process' = [process EXCEPT ![Foreign] = "booting"]
        /\ UNCHANGED <<lock, address, shutdown, call, taken>> /\ Foreign \in Processes
    BY <1>12 DEF ForeignBoots, captureVars, shellVars, Processes
  <2>2. \A q \in Processes : q # Foreign => process'[q] = process[q]
    BY <1>0, <2>1 DEF ProcessTypeOK
  <2>3. \A q \in Live : q \in Live'
    BY <2>1, <2>2 DEF Live
  <2>4. address # NoProcess => process'[address] = "serving"
    BY <1>0, <2>1, <2>2 DEF Locks, ProcessTypeOK
  <2>5. QED
    BY <2>1, <2>3, <2>4 DEF Locks
<1>13. CASE ShutdownRefused
  BY <1>13 DEF ShutdownRefused, processVars, captureVars, shellVars, Locks, Live
<1>14. ASSUME NEW c \in Clients,
              Acquire(c) \/ Release(c) \/ Remount(c) \/ Rejected(c)
       PROVE  Locks'
  <2>1. UNCHANGED <<process, lock, address, shutdown, call, taken>>
    BY <1>14 DEF Acquire, Release, Remount, Rejected, Want, processVars,
       captureVars, shellVars
  <2>2. QED
    BY <2>1, SameLocks
<1>15. CASE UNCHANGED vars
  BY <1>15, SameLocks DEF vars, shellVars, processVars, captureVars
<1>16. QED
  BY <1>1, <1>2, <1>3, <1>4, <1>5, <1>6, <1>9, <1>10, <1>11, <1>12, <1>13, <1>14,
     <1>15
  DEF Next, ShellStep, Restart, ExitEvent, RuntimeStep
-----------------------------------------------------------------------------
(***************************************************************************)
(* The endings.                                                            *)
(***************************************************************************)
\* Live processes go: one that ends with code 0 had no capture, so nothing was
\* lost with it; and none of them had ended before.
LEMMA GoneEndings ==
  ASSUME ProcessTypeOK, ShellTypeOK, Endings, NEW P \in SUBSET Live,
         NEW clean \in BOOLEAN, Gone(P, clean), UNCHANGED orderly,
         clean => \A p \in P : capture[p] = NoCapture
  PROVE  Endings'
<1>1. \A p \in P : process[p] # "exited" /\ ~lost[p] /\ p \notin orderly
  BY DEF Live, Endings
<1>2. ASSUME NEW p \in Processes, lost'[p]
      PROVE  process'[p] = "exited" /\ ~code'[p]
  <2>1. lost[p] \/ (p \in P /\ capture[p] # NoCapture)
    BY <1>2 DEF Gone
  <2>2. CASE p \in P
    BY <1>1, <2>1, <2>2 DEF Gone
  <2>3. CASE p \notin P
    BY <2>1, <2>3 DEF Gone, Endings
  <2>4. QED
    BY <2>2, <2>3
<1>3. ASSUME NEW p \in orderly PROVE process'[p] = "exited" /\ code'[p]
  BY <1>1 DEF Gone, Endings, ShellTypeOK, Processes
<1>4. QED
  BY <1>2, <1>3 DEF Endings

LEMMA DroppedEndings ==
  ASSUME ProcessTypeOK, ShellTypeOK, Endings, Dropped, UNCHANGED orderly
  PROVE  Endings'
<1>1. CASE taken \in Live
  BY <1>1, GoneEndings DEF Dropped
<1>2. CASE taken \notin Live
  BY <1>2 DEF Dropped, processVars, Endings
<1>3. QED
  BY <1>1, <1>2

\* A process that has not ended may change its stage.
LEMMA StageEndings ==
  ASSUME ProcessTypeOK, ShellTypeOK, Endings, UNCHANGED <<orderly, code, lost>>,
         NEW p \in Processes, process[p] # "exited",
         NEW stage, process' = [process EXCEPT ![p] = stage]
  PROVE  Endings'
BY DEF ProcessTypeOK, ShellTypeOK, Endings, Processes

LEMMA NextEndings == TypeOK /\ Endings /\ [Next]_vars => Endings'
<1> SUFFICES ASSUME TypeOK, Endings, [Next]_vars PROVE Endings'
  OBVIOUS
<1>0. ShellTypeOK /\ ProcessTypeOK
  BY TypeParts
<1>1. CASE Spawn
  <2>1. PICK p \in Children : process[p] = "none" /\ process' = [process EXCEPT ![p] = "booting"]
    BY <1>1 DEF Spawn
  <2>2. p \in Processes /\ UNCHANGED <<orderly, code, lost>>
    BY <1>1 DEF Spawn, Processes
  <2>3. QED
    BY <1>0, <2>1, <2>2, StageEndings
<1>2. CASE SpawnFails \/ StartReady
  BY <1>2 DEF SpawnFails, StartReady, processVars, Endings
<1>3. CASE ExitsInTime
  BY <1>3 DEF ExitsInTime, Stops, processVars, Endings
<1>4. CASE StartFails \/ ShutdownFails \/ ForcedTermination
  <2>1. Dropped /\ UNCHANGED orderly
    BY <1>4 DEF StartFails, ShutdownFails, ForcedTermination
  <2>2. QED
    BY <1>0, <2>1, DroppedEndings
<1>5. ASSUME NEW why \in {"restart", "exit"}, Begin(why) PROVE Endings'
  BY <1>5 DEF Begin, processVars, Endings
<1>6. ASSUME NEW p \in Processes, BindFails(p) \/ Exit(p) \/ Crash(p)
      PROVE  Endings'
  <2>1. p \in Live /\ UNCHANGED orderly
    BY <1>6 DEF BindFails, Exit, Crash, Live, shellVars
  <2>2. \E clean \in BOOLEAN : Gone({p}, clean) /\ (clean => capture[p] = NoCapture)
    BY <1>6 DEF BindFails, Exit, Crash, Quiet
  <2>3. QED
    BY <1>0, <2>1, <2>2, GoneEndings
<1>7. ASSUME NEW p \in Processes, Serve(p) \/ Leave(p) PROVE Endings'
  BY <1>0, <1>7, StageEndings DEF Serve, Leave, shellVars
<1>8. CASE ForeignBoots
  BY <1>0, <1>8, StageEndings DEF ForeignBoots, Processes, shellVars
<1>9. ASSUME NEW p \in Processes,
             \/ ShutdownBegins(p) \/ ShutdownEnds(p) \/ CloseBegins(p) \/ CloseEnds(p)
      PROVE  UNCHANGED <<process, code, lost, orderly>>
  BY <1>9 DEF ShutdownBegins, ShutdownEnds, CloseBegins, CloseEnds, shellVars
<1>10. ASSUME NEW p \in Processes, NEW c \in Clients,
              \/ StartRefused(p, c) \/ StartBegins(p, c) \/ StartEnds(p, c)
              \/ ClientStops(p, c) \/ ClientStopped(p, c)
       PROVE  UNCHANGED <<process, code, lost, orderly>>
  BY <1>10 DEF StartRefused, StartBegins, StartEnds, ClientStops, ClientStopped,
     shellVars, processVars
<1>11. ASSUME NEW c \in Clients,
              Acquire(c) \/ Release(c) \/ Remount(c) \/ Rejected(c)
       PROVE  UNCHANGED <<process, code, lost, orderly>>
  BY <1>11 DEF Acquire, Release, Remount, Rejected, Want, processVars, shellVars
<1>12. ShutdownRefused \/ UNCHANGED vars => UNCHANGED <<process, code, lost, orderly>>
  BY DEF ShutdownRefused, vars, shellVars, processVars
<1>13. ASSUME UNCHANGED <<process, code, lost, orderly>> PROVE Endings'
  BY <1>13 DEF Endings
<1>14. QED
  BY <1>1, <1>2, <1>3, <1>4, <1>5, <1>6, <1>7, <1>8, <1>9, <1>10, <1>11, <1>12, <1>13
  DEF Next, ShellStep, Restart, ExitEvent, RuntimeStep
-----------------------------------------------------------------------------
(***************************************************************************)
(* The theorems.                                                           *)
(***************************************************************************)
LEMMA InitIInv == Init => IInv
<1> SUFFICES ASSUME Init PROVE IInv
  OBVIOUS
<1>1. TypeOK
  BY InitTypeOK
<1>2. Hands
  BY DEF Init, Hands, Handed, NoOrphan, Live
<1>3. Locks
  BY DEF Init, Locks, Free, Shutting
<1>4. Endings
  BY DEF Init, Endings
<1>5. QED
  BY <1>1, <1>2, <1>3, <1>4 DEF IInv

LEMMA NextIInv == IInv /\ [Next]_vars => IInv'
BY NextTypeOK, NextHands, NextLocks, NextEndings DEF IInv, Hands

\* The invariant is inductive, and so holds of every reachable state: what the
\* two properties below rest on.
THEOREM Invariant == Spec => []IInv
BY InitIInv, NextIInv, PTL DEF Spec

\* The state of the shell, of the processes and of the workspaces has its type
\* at all times; that only a child is ever reported as stopped rests on who
\* holds the sidecar (runtime_sidecar.rs shutdown).
THEOREM TypeCorrect == Spec => []TypeOK
<1>1. IInv => TypeOK
  BY DEF IInv
<1>2. QED
  BY <1>1, Invariant, PTL

\* However many children are spawned, and in whatever way a start, a restart,
\* a shutdown or an exit of the application fails, a child that lives is held
\* by the shell or by its call in progress (runtime_sidecar.rs, Drop).
THEOREM NoOrphans == Spec => []NoOrphan
<1>1. IInv => NoOrphan
  BY DEF IInv, Hands
<1>2. QED
  BY <1>1, Invariant, PTL

\* A child whose shutdown was reported as Ok took no capture with it, however
\* many workspaces start and stop captures meanwhile (runtime_sidecar.rs
\* shutdown, api/app.py shutdown and lifespan).
THEOREM OkStopped == Spec => []OkMeansStopped
<1>1. IInv => OkMeansStopped
  BY DEF IInv, TypeOK, Endings, OkMeansStopped, Processes
<1>2. QED
  BY <1>1, Invariant, PTL

-----------------------------------------------------------------------------
(***************************************************************************)
(* SafetyKernel, for every set of callers, operations, approvals, scopes   *)
(* and cancellers and every bound.                                         *)
(***************************************************************************)

LEMMA IssuerType ==
  ASSUME NEW c \in AuthorityBearing
  PROVE  Issuer(c) \in {"human.operator", "host.system"}
BY DEF Issuer

\* A new approval and a spent one are well-formed stored approvals.
LEMMA NewApprovalType ==
  ASSUME KernelTypeOK, NEW c \in AuthorityBearing, NEW s \in ApprovalSpecs,
         NEW b \in {"kernel", "store", "gap"}
  PROVE  /\ NewApproval(s, c, b) \in Stored
         /\ NewApproval(s, c, b).epoch = epoch
         /\ NewApproval(s, c, b).uses = 0
         /\ NewApproval(s, c, b).via = b
BY IssuerType DEF NewApproval, Stored, KernelTypeOK

LEMMA SpentType ==
  ASSUME NEW a \in Stored, NEW ok \in BOOLEAN
  PROVE  /\ Spent(a, ok) \in Stored
         /\ Spent(a, ok).epoch = a.epoch
         /\ Spent(a, ok).via = a.via
         /\ Spent(a, ok).spec = a.spec
         /\ Spent(a, ok).issuer = a.issuer
         /\ Spent(a, ok).consumed = a.spec.single
         /\ Spent(a, ok).uses = IF ok /\ a.uses < 2 THEN a.uses + 1 ELSE a.uses
<1>1. a.spec \in ApprovalSpecs /\ a.uses \in 0..2 /\ a.epoch \in 0..MaxStops
      /\ a.issuer \in {"human.operator", "host.system"}
      /\ a.via \in {"kernel", "store", "gap"}
  BY DEF Stored
<1>2. a.spec.single \in BOOLEAN
  BY <1>1, KernelAssumption
<1>3. (IF ok /\ a.uses < 2 THEN a.uses + 1 ELSE a.uses) \in 0..2
  BY <1>1
<1>4. QED
  BY <1>1, <1>2, <1>3 DEF Stored, Spent
-----------------------------------------------------------------------------
(***************************************************************************)
(* Type correctness.                                                       *)
(***************************************************************************)
LEMMA InitKernelType == KernelInit => KernelTypeOK
<1>1. /\ NoApprovals \in [ApprovalIds -> SUBSET Stored]
      /\ NoSnapshot \in [engaged : BOOLEAN, failures : SUBSET Cancellers]
  BY DEF NoApprovals, NoSnapshot
<1>2. 0 \in 0..MaxTime /\ 0 \in 0..MaxStops
  BY KernelAssumption
<1>3. QED
  BY <1>1, <1>2 DEF KernelInit, KernelTypeOK

LEMMA NextKernelType == KernelTypeOK /\ [KernelNext]_safetyVars => KernelTypeOK'
<1> SUFFICES ASSUME KernelTypeOK, [KernelNext]_safetyVars PROVE KernelTypeOK'
  OBVIOUS
<1> USE KernelAssumption
<1>1. CASE Tick
  BY <1>1 DEF KernelTypeOK, Tick
<1>2. ASSUME NEW c \in Callers, NEW s \in ArmScopes, NEW ok \in BOOLEAN,
             Arm(c, s, ok)
      PROVE KernelTypeOK'
  BY <1>2 DEF KernelTypeOK, Arm, DisarmEffect, StopUntouched
<1>3. ASSUME NEW c \in Callers, NEW ok \in BOOLEAN, ConfirmArm(c, ok)
      PROVE KernelTypeOK'
  BY <1>3 DEF KernelTypeOK, ConfirmArm, DisarmEffect, StopUntouched
<1>4. ASSUME NEW ok \in BOOLEAN, Disarm(ok) PROVE KernelTypeOK'
  BY <1>4 DEF KernelTypeOK, Disarm, DisarmEffect, StopUntouched
<1>5. ASSUME NEW c \in Callers, NEW i \in ApprovalIds, NEW s \in ApprovalSpecs,
             NEW ok \in BOOLEAN, GrantApproval(c, i, s, ok)
      PROVE KernelTypeOK'
  <2>1. c \in AuthorityBearing
    BY <1>5 DEF GrantApproval
  <2>2. NewApproval(s, c, "kernel") \in Stored
    BY <2>1, NewApprovalType
  <2>3. approvals' \in [ApprovalIds -> SUBSET Stored]
    BY <1>5, <2>2 DEF KernelTypeOK, GrantApproval
  <2>4. QED
    BY <1>5, <2>3 DEF KernelTypeOK, GrantApproval, StopUntouched
<1>6. ASSUME NEW i \in ApprovalIds, RevokeApproval(i) PROVE KernelTypeOK'
  BY <1>6 DEF KernelTypeOK, RevokeApproval, StopUntouched
<1>7. ASSUME NEW r \in Requests, NEW later \in 0..MaxTime, NEW ok \in BOOLEAN,
             Evaluate(r, later, ok)
      PROVE KernelTypeOK'
  <2> DEFINE S == {Spent(a, ok) : a \in approvals[r.approval]}
  <2>0. r.approval \in ApprovalIds => S \in SUBSET Stored
    BY SpentType DEF KernelTypeOK
  <2>1. approvals' \in [ApprovalIds -> SUBSET Stored]
    <3>1. \/ approvals' = approvals
          \/ approvals' = [approvals EXCEPT ![r.approval] = S]
      BY <1>7 DEF Evaluate
    <3> HIDE DEF S
    <3>2. QED
      BY <2>0, <3>1 DEF KernelTypeOK
  <2>2. verdict' \in SUBSET Requests
    BY <1>7 DEF Evaluate
  <2>3. QED
    BY <1>7, <2>1, <2>2 DEF KernelTypeOK, Evaluate, StopUntouched
<1>8. ASSUME NEW k \in Cancellers, RegisterCanceller(k) PROVE KernelTypeOK'
  BY <1>8 DEF KernelTypeOK, RegisterCanceller
<1>9. CASE EngageBegin
  BY <1>9 DEF KernelTypeOK, EngageBegin
<1>10. CASE EngageDisarm
  BY <1>10 DEF KernelTypeOK, EngageDisarm, DisarmEffect
<1>11. ASSUME NEW k \in Cancellers, NEW answered \in BOOLEAN,
              RequestCancellation(k, answered)
       PROVE KernelTypeOK'
  BY <1>11 DEF KernelTypeOK, RequestCancellation
<1>12. ASSUME NEW ok \in BOOLEAN, EngageEnd(ok) PROVE KernelTypeOK'
  BY <1>12 DEF KernelTypeOK, EngageEnd, NoApprovals
<1>13. ASSUME NEW c \in Callers, ReleaseBegin(c) PROVE KernelTypeOK'
  BY <1>13 DEF KernelTypeOK, ReleaseBegin, DisarmEffect
<1>14. ASSUME NEW c \in Callers, NEW i \in ApprovalIds, NEW s \in ApprovalSpecs,
              StoreGrant(c, i, s)
       PROVE KernelTypeOK'
  <2>1. c \in AuthorityBearing
    BY <1>14 DEF StoreGrant
  <2>2. NewApproval(s, c, IF rel = "reset" THEN "gap" ELSE "store") \in Stored
    BY <2>1, NewApprovalType
  <2>3. approvals' \in [ApprovalIds -> SUBSET Stored]
    BY <1>14, <2>2 DEF KernelTypeOK, StoreGrant
  <2>4. QED
    BY <1>14, <2>3 DEF KernelTypeOK, StoreGrant, StopUntouched
<1>15. CASE UNCHANGED safetyVars
  BY <1>15 DEF KernelTypeOK, safetyVars, kernelVars
<1>16. CASE ReleaseClears
  BY <1>16 DEF KernelTypeOK, ReleaseClears, NoApprovals
<1>17. CASE ReleaseResets
  BY <1>17 DEF KernelTypeOK, ReleaseResets
<1>18. ASSUME NEW ok \in BOOLEAN, ReleaseEnds(ok) PROVE KernelTypeOK'
  BY <1>18 DEF KernelTypeOK, ReleaseEnds, NoSnapshot
<1>19. QED
  BY <1>1, <1>2, <1>3, <1>4, <1>5, <1>6, <1>7, <1>8, <1>9, <1>10, <1>11,
     <1>12, <1>13, <1>14, <1>15, <1>16, <1>17, <1>18 DEF KernelNext

\* The type invariant of the kernel and its controllers.
THEOREM KernelTypeCorrect == KernelSpec => []KernelTypeOK
BY InitKernelType, NextKernelType, PTL DEF KernelSpec
-----------------------------------------------------------------------------
(***************************************************************************)
(* The global stop as an epoch boundary.                                   *)
(*                                                                         *)
(* StopStripsAuthority and AllowIsOfThisEpoch are not inductive: while the *)
(* fan-out runs old approvals are still held, and what makes them harmless *)
(* is that the stop is engaged until it is released, and that a release    *)
(* clears them before it resets the stop, with nobody but the store        *)
(* granting in between (Releasing).  Elsewhere all authority is of the     *)
(* present epoch (ArmCurrent, ApprovalsCurrent).                           *)
(***************************************************************************)
EngageStarts == pc = "disarm" => engaged /\ rel = "none"

ArmCurrent == pc # "disarm" /\ armState # "DISARMED" => armEpoch = epoch

\* What was granted before this engagement may still be held.
Uncleared == pc # "idle" /\ engaged /\ rel \in {"none", "clear"}

ApprovalsCurrent ==
  ~ Uncleared => \A i \in ApprovalIds : \A a \in approvals[i] : a.epoch = epoch

\* StopStripsAuthority without the union.
Stripped ==
  engaged =>
    /\ pc # "disarm" => armState = "DISARMED"
    /\ pc = "idle" => \A i \in ApprovalIds : \A a \in approvals[i] : a.via # "kernel"

Releasing ==
  /\ rel # "none" => armState = "DISARMED"
  /\ rel = "reset" => \A i \in ApprovalIds : \A a \in approvals[i] : a.via = "gap"
  /\ rel = "audit" => ~ engaged /\ \A i \in ApprovalIds : \A a \in approvals[i] : a.via # "kernel"

KernelParts == EngageStarts /\ ArmCurrent /\ ApprovalsCurrent /\ Stripped /\ Releasing

Kernel == KernelTypeOK /\ KernelParts

LEMMA InitKernel == KernelInit => Kernel
BY InitKernelType DEF KernelInit, Kernel, KernelParts, EngageStarts, ArmCurrent,
   ApprovalsCurrent, Uncleared, Stripped, Releasing, NoApprovals

LEMMA NextKernel == Kernel /\ [KernelNext]_safetyVars => Kernel'
<1> SUFFICES ASSUME Kernel, [KernelNext]_safetyVars
             PROVE  KernelParts'
  BY NextKernelType DEF Kernel
<1> USE DEF Kernel, KernelParts, EngageStarts, ArmCurrent, ApprovalsCurrent, Uncleared,
            Stripped, Releasing
<1>1. CASE Tick
  BY <1>1 DEF Tick
<1>2. ASSUME NEW c \in Callers, NEW s \in ArmScopes, NEW ok \in BOOLEAN,
             Arm(c, s, ok)
      PROVE KernelParts'
  BY <1>2 DEF Arm, MayCall, DisarmEffect, StopUntouched
<1>3. ASSUME NEW c \in Callers, NEW ok \in BOOLEAN, ConfirmArm(c, ok)
      PROVE KernelParts'
  BY <1>3 DEF ConfirmArm, DisarmEffect, StopUntouched
<1>4. ASSUME NEW ok \in BOOLEAN, Disarm(ok)
      PROVE KernelParts'
  BY <1>4 DEF Disarm, DisarmEffect, StopUntouched
<1>5. ASSUME NEW c \in Callers, NEW i \in ApprovalIds, NEW s \in ApprovalSpecs,
             NEW ok \in BOOLEAN, GrantApproval(c, i, s, ok)
      PROVE KernelParts'
  <2>1. NewApproval(s, c, "kernel").epoch = epoch
    BY <1>5, NewApprovalType DEF GrantApproval
  <2>2. pc' = pc /\ engaged' = engaged /\ epoch' = epoch /\ ~ engaged
        /\ armState' = armState /\ armEpoch' = armEpoch /\ rel' = rel /\ rel = "none"
    BY <1>5 DEF GrantApproval, MayCall, StopUntouched
  <2>3. ApprovalsCurrent'
    BY <1>5, <2>1, <2>2 DEF GrantApproval, KernelTypeOK
  <2>4. QED
    BY <2>2, <2>3
<1>6. ASSUME NEW i \in ApprovalIds, RevokeApproval(i)
      PROVE KernelParts'
  BY <1>6 DEF RevokeApproval, StopUntouched, NoApprovals, KernelTypeOK
<1>7. ASSUME NEW r \in Requests, NEW later \in 0..MaxTime, NEW ok \in BOOLEAN,
             Evaluate(r, later, ok)
      PROVE KernelParts'
  <2> DEFINE S == {Spent(a, ok) : a \in approvals[r.approval]}
  <2>1. \/ approvals' = approvals
        \/ approvals' = [approvals EXCEPT ![r.approval] = S]
    BY <1>7 DEF Evaluate
  <2>2. pc' = pc /\ engaged' = engaged /\ epoch' = epoch
        /\ armState' = armState /\ armEpoch' = armEpoch /\ rel' = rel /\ rel = "none"
    BY <1>7 DEF Evaluate, MayCall, StopUntouched
  <2>3. ~ Uncleared /\ r.approval \in ApprovalIds => \A a \in S : a.epoch = epoch
    <3>1. SUFFICES ASSUME ~ Uncleared, r.approval \in ApprovalIds,
                          NEW a \in approvals[r.approval]
                   PROVE  Spent(a, ok).epoch = epoch
      OBVIOUS
    <3>2. a.epoch = epoch
      BY <3>1
    <3>3. Spent(a, ok).epoch = a.epoch
      BY DEF Spent
    <3>4. QED
      BY <3>2, <3>3
  <2>4. engaged /\ pc = "idle" /\ r.approval \in ApprovalIds =>
          \A a \in S : a.via # "kernel"
    <3>1. SUFFICES ASSUME engaged, pc = "idle", r.approval \in ApprovalIds,
                          NEW a \in approvals[r.approval]
                   PROVE  Spent(a, ok).via # "kernel"
      OBVIOUS
    <3>2. a.via # "kernel"
      BY <3>1
    <3>3. Spent(a, ok).via = a.via
      BY DEF Spent
    <3>4. QED
      BY <3>2, <3>3
  <2> HIDE DEF S
  <2>5. \A i \in ApprovalIds :
          approvals'[i] = approvals[i] \/ (i = r.approval /\ approvals'[i] = S)
    BY <2>1 DEF KernelTypeOK
  <2>6. ApprovalsCurrent'
    <3>1. Uncleared' = Uncleared
      BY <2>2
    <3>2. SUFFICES ASSUME ~ Uncleared, NEW i \in ApprovalIds, NEW a \in approvals'[i]
                   PROVE  a.epoch = epoch
      BY <2>2, <3>1
    <3>3. QED
      BY <2>3, <2>5, <3>2
  <2>7. Stripped'
    BY <2>2, <2>4, <2>5
  <2>8. QED
    BY <2>2, <2>6, <2>7
<1>8. ASSUME NEW k \in Cancellers, RegisterCanceller(k)
      PROVE KernelParts'
  BY <1>8 DEF RegisterCanceller
<1>9. CASE EngageBegin
  BY <1>9 DEF EngageBegin
<1>10. CASE EngageDisarm
  BY <1>10 DEF EngageDisarm, DisarmEffect
<1>11. ASSUME NEW k \in Cancellers, NEW answered \in BOOLEAN,
              RequestCancellation(k, answered)
       PROVE KernelParts'
  BY <1>11 DEF RequestCancellation
<1>12. ASSUME NEW ok \in BOOLEAN, EngageEnd(ok)
       PROVE KernelParts'
  BY <1>12 DEF EngageEnd, NoApprovals
<1>13. ASSUME NEW c \in Callers, ReleaseBegin(c) PROVE KernelParts'
  BY <1>13 DEF ReleaseBegin, MayCall, DisarmEffect
<1>14. ASSUME NEW c \in Callers, NEW i \in ApprovalIds, NEW s \in ApprovalSpecs,
              StoreGrant(c, i, s)
       PROVE KernelParts'
  <2> DEFINE via == IF rel = "reset" THEN "gap" ELSE "store"
             n == NewApproval(s, c, via)
  <2>1. n.epoch = epoch /\ n.via = via
    BY <1>14, NewApprovalType DEF StoreGrant
  <2>2. pc' = pc /\ engaged' = engaged /\ epoch' = epoch
        /\ armState' = armState /\ armEpoch' = armEpoch /\ rel' = rel
    BY <1>14 DEF StoreGrant, StopUntouched
  <2>3. approvals' = [approvals EXCEPT ![i] = {n}]
    BY <1>14 DEF StoreGrant
  <2> HIDE DEF n
  <2>4. ApprovalsCurrent'
    BY <2>1, <2>2, <2>3 DEF KernelTypeOK
  <2>5. Stripped'
    BY <2>1, <2>2, <2>3 DEF KernelTypeOK
  <2>6. Releasing'
    BY <2>1, <2>2, <2>3 DEF KernelTypeOK
  <2>7. QED
    BY <2>2, <2>4, <2>5, <2>6
<1>15. CASE UNCHANGED safetyVars
  BY <1>15 DEF safetyVars, kernelVars
<1>16. CASE ReleaseClears
  BY <1>16 DEF ReleaseClears, NoApprovals
<1>17. CASE ReleaseResets
  BY <1>17 DEF ReleaseResets
<1>18. ASSUME NEW ok \in BOOLEAN, ReleaseEnds(ok) PROVE KernelParts'
  BY <1>18 DEF ReleaseEnds
<1>19. QED
  BY <1>1, <1>2, <1>3, <1>4, <1>5, <1>6, <1>7, <1>8, <1>9, <1>10, <1>11,
     <1>12, <1>13, <1>14, <1>15, <1>16, <1>17, <1>18 DEF KernelNext

LEMMA KernelInvariant == KernelSpec => []Kernel
BY InitKernel, NextKernel, PTL DEF KernelSpec

\* An engaged stop leaves no authority behind it: disarmed from the fan-out on,
\* no approval of the kernel's once engage_emergency_stop has returned.
THEOREM StopStrips == KernelSpec => []StopStripsAuthority
<1>1. Kernel => StopStripsAuthority
  BY DEF Kernel, KernelParts, Stripped, StopStripsAuthority, HeldApprovals
<1>2. QED
  BY <1>1, KernelInvariant, PTL

\* The step that ends an engagement finds nothing to resume with but what the
\* store was granted after the release had cleared the approvals: whatever was
\* held before, and whoever calls the release, also a canceller inside the
\* engagement (kernel.py release_emergency_stop).
THEOREM ReleaseResumesNothing == KernelSpec => ReleaseIsNoResume
<1>1. Kernel /\ [KernelNext]_safetyVars =>
        (engaged /\ ~ engaged' =>
           armState' = "DISARMED" /\ \A a \in HeldApprovals' : a.via = "gap")
  <2> SUFFICES ASSUME Kernel, [KernelNext]_safetyVars, engaged, ~ engaged'
               PROVE  armState' = "DISARMED" /\ \A a \in HeldApprovals' : a.via = "gap"
    OBVIOUS
  <2>1. ReleaseResets \/ \E ok \in BOOLEAN : ReleaseEnds(ok)
    BY DEF KernelNext, Tick, Arm, ConfirmArm, Disarm, GrantApproval, RevokeApproval,
           StoreGrant, Evaluate, RegisterCanceller, EngageBegin, EngageDisarm,
           RequestCancellation, EngageEnd, ReleaseBegin, ReleaseClears, StopUntouched,
           safetyVars, kernelVars
  <2>2. ReleaseResets
    BY <2>1 DEF ReleaseEnds, Kernel, KernelParts, Releasing
  <2>3. armState = "DISARMED" /\ \A a \in HeldApprovals : a.via = "gap"
    BY <2>2 DEF ReleaseResets, Kernel, KernelParts, Releasing, HeldApprovals
  <2>4. armState' = armState /\ HeldApprovals' = HeldApprovals
    BY <2>2 DEF ReleaseResets, HeldApprovals
  <2>5. QED
    BY <2>3, <2>4
<1>2. QED
  BY <1>1, KernelInvariant, PTL DEF KernelSpec, ReleaseIsNoResume

\* While the fan-out runs, who was registered when it began has been asked or is
\* still to be, and only who was asked has failed.
FanOut == pc # "idle" => asked \cup pending = summoned /\ failing \subseteq asked

LEMMA NextFanOut == FanOut /\ [KernelNext]_safetyVars => FanOut'
<1> SUFFICES ASSUME FanOut, [KernelNext]_safetyVars PROVE FanOut'
  OBVIOUS
<1>1. CASE EngageBegin
  BY <1>1 DEF EngageBegin, FanOut
<1>2. ASSUME NEW k \in Cancellers, NEW answered \in BOOLEAN,
             RequestCancellation(k, answered)
      PROVE  FanOut'
  BY <1>2 DEF RequestCancellation, FanOut
<1>3. ASSUME NEW ok \in BOOLEAN, EngageEnd(ok) PROVE FanOut'
  BY <1>3 DEF EngageEnd, FanOut
<1>4. ASSUME pc # "idle" \/ pc' = "idle", UNCHANGED <<asked, pending, summoned, failing>>
      PROVE  FanOut'
  BY <1>4 DEF FanOut
<1>5. QED
  BY <1>1, <1>2, <1>3, <1>4
     DEF KernelNext, Tick, Arm, ConfirmArm, Disarm, GrantApproval,
         RevokeApproval, StoreGrant, Evaluate, RegisterCanceller,
         EngageDisarm, ReleaseBegin, ReleaseClears, ReleaseResets, ReleaseEnds,
         StopUntouched, safetyVars, kernelVars

\* When engage_emergency_stop returns, whoever was registered when it began has
\* been asked, also behind a canceller that raised (emergency.py engage).
THEOREM FanOutReaches == KernelSpec => FanOutReachesAll
<1>1. KernelInit => FanOut
  BY DEF KernelInit, FanOut
<1>2. FanOut /\ [KernelNext]_safetyVars =>
        (pc = "cancel" /\ pc' = "idle" => asked = summoned /\ failures' \subseteq asked)
  <2> SUFFICES ASSUME FanOut, [KernelNext]_safetyVars, pc = "cancel", pc' = "idle"
               PROVE  asked = summoned /\ failures' \subseteq asked
    OBVIOUS
  <2>1. PICK ok \in BOOLEAN : EngageEnd(ok)
    BY DEF KernelNext, Tick, Arm, ConfirmArm, Disarm, GrantApproval,
           RevokeApproval, StoreGrant, Evaluate, RegisterCanceller,
           EngageBegin, EngageDisarm, RequestCancellation, ReleaseBegin,
           ReleaseClears, ReleaseResets, ReleaseEnds, StopUntouched, safetyVars,
           kernelVars
  <2>2. QED
    BY <2>1 DEF EngageEnd, FanOut
<1>3. QED
  BY <1>1, <1>2, NextFanOut, PTL DEF KernelSpec, FanOutReachesAll
-----------------------------------------------------------------------------
(***************************************************************************)
(* What stands behind a verdict.  Only Evaluate hands one out, and it      *)
(* leaves the arm machine and the stop alone, so what held when it decided *)
(* holds in the state it leaves.                                           *)
(***************************************************************************)
\* An ALLOW for an operation that needs an approval spent one that passed the
\* check, and it is what the store now holds under the identifier presented.
LEMMA AllowSpends ==
  ASSUME KernelTypeOK, NEW r \in Requests, NEW later \in 0..MaxTime,
         NEW ok \in BOOLEAN, Evaluate(r, later, ok), Allowed(r, later),
         NeedsApproval(r)
  PROVE  \E a \in Stored :
           /\ r.approval \in ApprovalIds
           /\ a \in approvals[r.approval]
           /\ ApprovalCheck(a, r, later)
           /\ ~ a.consumed
           /\ Spent(a, ok) \in approvals'[r.approval]
<1>1. PICK a \in Spendable(r, later) : TRUE
  BY DEF Allowed
<1>2. r.approval \in ApprovalIds
  BY <1>1 DEF Spendable, Requests
<1>3. a \in approvals[r.approval] /\ ApprovalCheck(a, r, later) /\ ~ a.consumed
  BY <1>1, <1>2, KernelAssumption DEF Spendable
<1>4. a \in Stored
  BY <1>2, <1>3 DEF KernelTypeOK
<1>5. approvals' = [approvals EXCEPT
                      ![r.approval] = {Spent(b, ok) : b \in approvals[r.approval]}]
  BY DEF Evaluate
<1>6. approvals'[r.approval] = {Spent(b, ok) : b \in approvals[r.approval]}
  BY <1>2, <1>5 DEF KernelTypeOK
<1>7. QED
  BY <1>2, <1>3, <1>4, <1>6

\* Every step but Evaluate and stuttering takes the last verdict away.
LEMMA VerdictSource ==
  ASSUME KernelNext, verdict' # {}
  PROVE  \E r \in Requests, later \in 0..MaxTime, ok \in BOOLEAN :
           /\ Evaluate(r, later, ok)
           /\ ok
           /\ Allowed(r, later)
           /\ verdict' = {r}
BY DEF KernelNext, Tick, Arm, ConfirmArm, Disarm, GrantApproval, RevokeApproval,
       StoreGrant, Evaluate, RegisterCanceller, EngageBegin, EngageDisarm,
       RequestCancellation, EngageEnd, ReleaseBegin, ReleaseClears, ReleaseResets,
       ReleaseEnds

\* Nothing that transmits is allowed on authority from before a stop.
THEOREM AllowEpoch == KernelSpec => []AllowIsOfThisEpoch
<1>1. KernelInit => AllowIsOfThisEpoch
  BY DEF KernelInit, AllowIsOfThisEpoch
<1>2. Kernel /\ AllowIsOfThisEpoch /\ [KernelNext]_safetyVars => AllowIsOfThisEpoch'
  <2>1. CASE UNCHANGED safetyVars
    BY <2>1 DEF AllowIsOfThisEpoch, safetyVars, kernelVars
  <2>2. ASSUME Kernel, KernelNext, verdict' # {} PROVE AllowIsOfThisEpoch'
    <3>1. PICK r \in Requests, later \in 0..MaxTime, ok \in BOOLEAN :
            Evaluate(r, later, ok) /\ Allowed(r, later) /\ verdict' = {r}
      BY <2>2, VerdictSource
    <3> SUFFICES ASSUME RequiresArm(r.op)
                 PROVE  /\ ~ engaged' /\ armState' = "ARMED" /\ armEpoch' = epoch'
                        /\ NeedsApproval(r) =>
                             \E a \in approvals'[r.approval] : a.epoch = epoch'
      BY <3>1 DEF AllowIsOfThisEpoch
    <3>2. ~ engaged /\ armState = "ARMED"
      BY <3>1 DEF Allowed, RequireArm, ActiveScope
    <3>3. armEpoch = epoch
      BY <2>2, <3>2 DEF Kernel, KernelParts, EngageStarts, ArmCurrent
    <3>4. /\ ~ engaged' /\ armState' = "ARMED" /\ armEpoch' = epoch'
          /\ epoch' = epoch
      BY <3>1, <3>2, <3>3 DEF Evaluate, StopUntouched
    <3>5. ASSUME NeedsApproval(r)
          PROVE  \E a \in approvals'[r.approval] : a.epoch = epoch'
      <4>1. PICK a \in Stored :
              /\ r.approval \in ApprovalIds
              /\ a \in approvals[r.approval]
              /\ Spent(a, ok) \in approvals'[r.approval]
        BY <2>2, <3>1, <3>5, AllowSpends DEF Kernel
      <4>2. a.epoch = epoch
        BY <2>2, <3>2, <4>1 DEF Kernel, KernelParts, ApprovalsCurrent, Uncleared
      <4>3. Spent(a, ok).epoch = epoch'
        BY <3>4, <4>2, SpentType
      <4>4. QED
        BY <4>1, <4>3
    <3>6. QED
      BY <3>4, <3>5
  <2>3. ASSUME verdict' = {} PROVE AllowIsOfThisEpoch'
    BY <2>3 DEF AllowIsOfThisEpoch
  <2>4. QED
    BY <2>1, <2>2, <2>3
<1>3. QED
  BY <1>1, <1>2, KernelInvariant, PTL DEF KernelSpec

\* An ALLOW of the highest classes was bought from a human, for exactly this
\* target, and it was bought only once.
THEOREM CriticalHuman == KernelSpec => []CriticalAllowIsHuman
<1>1. KernelInit => CriticalAllowIsHuman
  BY DEF KernelInit, CriticalAllowIsHuman
<1>2. KernelTypeOK /\ CriticalAllowIsHuman /\ [KernelNext]_safetyVars => CriticalAllowIsHuman'
  <2>1. CASE UNCHANGED safetyVars
    BY <2>1 DEF CriticalAllowIsHuman, safetyVars, kernelVars
  <2>2. ASSUME KernelTypeOK, KernelNext, verdict' # {} PROVE CriticalAllowIsHuman'
    <3>1. PICK r \in Requests, later \in 0..MaxTime, ok \in BOOLEAN :
            Evaluate(r, later, ok) /\ Allowed(r, later) /\ verdict' = {r}
      BY <2>2, VerdictSource
    <3> SUFFICES ASSUME HumanIssuerRequired(EffectRisk(r.op))
                 PROVE  /\ \E a \in approvals'[r.approval] :
                             /\ a.issuer = "human.operator"
                             /\ a.spec.target = r.target
                             /\ a.consumed
                        /\ \E s \in armScope' :
                             now' < s.expires /\ TargetCovers(s.target, r.target)
      BY <3>1 DEF CriticalAllowIsHuman
    <3>2. /\ NeedsApproval(r) /\ RequiresArm(r.op)
          /\ SingleUseRequired(EffectRisk(r.op))
          /\ ExactTargetRequired(EffectRisk(r.op))
      BY DEF HumanIssuerRequired, NeedsApproval, RequiresArm, IsDangerous,
             ApprovalRequired, SingleUseRequired, ExactTargetRequired,
             EffectRisk, RiskLevel
    <3>3. PICK a \in Stored :
            /\ ApprovalCheck(a, r, later)
            /\ Spent(a, ok) \in approvals'[r.approval]
      BY <2>2, <3>1, <3>2, AllowSpends
    <3>4. a.issuer = "human.operator" /\ a.spec.target = r.target /\ a.spec.single
      BY <3>2, <3>3 DEF ApprovalCheck
    <3>5. /\ Spent(a, ok).issuer = "human.operator"
          /\ Spent(a, ok).spec.target = r.target
          /\ Spent(a, ok).consumed
      BY <3>4, SpentType
    <3>6. PICK s \in ActiveScope(later) :
            \A cap \in RequiredCapabilities(r.op) \cap DangerousCapabilities :
              ScopeCovers(s, cap, r.target, now)
      BY <3>1, <3>2 DEF Allowed, RequireArm
    <3>7. TargetCovers(s.target, r.target)
      BY <3>3, <3>4, <3>6 DEF ApprovalCheck
    <3>8. s \in armScope' /\ now' < s.expires
      BY <3>1, <3>6 DEF ActiveScope, HasLapsed, Evaluate
    <3>9. QED
      BY <3>3, <3>5, <3>7, <3>8
  <2>3. ASSUME verdict' = {} PROVE CriticalAllowIsHuman'
    BY <2>3 DEF CriticalAllowIsHuman
  <2>4. QED
    BY <2>1, <2>2, <2>3
<1>3. QED
  BY <1>1, <1>2, KernelTypeCorrect, PTL DEF KernelSpec
-----------------------------------------------------------------------------
\* Arm authority is always accounted for by the audit trail.
THEOREM ArmAudited == KernelSpec => []ArmIsAudited
<1>1. KernelInit => ArmIsAudited
  BY DEF KernelInit, ArmIsAudited
<1>2. ArmIsAudited /\ [KernelNext]_safetyVars => ArmIsAudited'
  BY DEF ArmIsAudited, KernelNext, Tick, Arm, ConfirmArm, Disarm, GrantApproval,
         RevokeApproval, StoreGrant, Evaluate, RegisterCanceller, EngageBegin, EngageDisarm,
         RequestCancellation, EngageEnd, ReleaseBegin, ReleaseClears, ReleaseResets,
         ReleaseEnds, DisarmEffect, StopUntouched, safetyVars, kernelVars
<1>3. QED
  BY <1>1, <1>2, PTL DEF KernelSpec

\* SingleUseBacksOne for the approvals under each identifier.  An identifier
\* names at most one approval: spending it could otherwise spend another again.
Accounted(a) == a.spec.single => a.uses <= 1 /\ (a.uses = 1 => a.consumed)

SpentOnce ==
  \A i \in ApprovalIds :
    /\ \A a, b \in approvals[i] : a = b
    /\ \A a \in approvals[i] : Accounted(a)

\* A single-use approval backs at most one ALLOW.
THEOREM SingleUse == KernelSpec => []SingleUseBacksOne
<1>1. KernelInit => SpentOnce
  BY DEF KernelInit, SpentOnce, NoApprovals
<1>2. KernelTypeOK /\ SpentOnce /\ [KernelNext]_safetyVars => SpentOnce'
  <2> SUFFICES ASSUME KernelTypeOK, SpentOnce, [KernelNext]_safetyVars PROVE SpentOnce'
    OBVIOUS
  <2>1. CASE approvals' = approvals
    BY <2>1 DEF SpentOnce
  <2>2. ASSUME NEW i, NEW T,
               approvals' = [approvals EXCEPT ![i] = T],
               \A a, b \in T : a = b,
               \A a \in T : Accounted(a)
        PROVE  SpentOnce'
    BY <2>2 DEF SpentOnce, KernelTypeOK
  <2>3. CASE approvals' = NoApprovals
    BY <2>3 DEF SpentOnce, NoApprovals
  <2>4. ASSUME NEW c \in Callers, NEW i \in ApprovalIds,
               NEW s \in ApprovalSpecs, NEW ok \in BOOLEAN,
               GrantApproval(c, i, s, ok)
        PROVE  SpentOnce'
    <3> DEFINE T == IF ok THEN {NewApproval(s, c, "kernel")} ELSE {}
    <3>1. approvals' = [approvals EXCEPT ![i] = T]
      BY <2>4 DEF GrantApproval
    <3>2. Accounted(NewApproval(s, c, "kernel"))
      BY <2>4, NewApprovalType DEF GrantApproval, Accounted
    <3>3. (\A a, b \in T : a = b) /\ (\A a \in T : Accounted(a))
      BY <3>2
    <3> HIDE DEF T
    <3>4. QED
      BY <3>1, <3>3, <2>2
  <2>5. ASSUME NEW i \in ApprovalIds, RevokeApproval(i) PROVE SpentOnce'
    BY <2>5 DEF RevokeApproval, SpentOnce, KernelTypeOK
  <2>6. ASSUME NEW r \in Requests, NEW later \in 0..MaxTime, NEW ok \in BOOLEAN,
               Evaluate(r, later, ok)
        PROVE  SpentOnce'
    <3>1. CASE ~ (Allowed(r, later) /\ NeedsApproval(r))
      BY <3>1, <2>1, <2>6 DEF Evaluate
    <3>2. CASE Allowed(r, later) /\ NeedsApproval(r)
      <4> DEFINE T == {Spent(b, ok) : b \in approvals[r.approval]}
      <4>1. PICK a \in Stored : /\ r.approval \in ApprovalIds
                                /\ a \in approvals[r.approval]
                                /\ ~ a.consumed
        BY <2>6, <3>2, AllowSpends
      <4>2. T = {Spent(a, ok)}
        BY <4>1 DEF SpentOnce
      <4>3. a.spec.single => a.uses = 0
        BY <4>1 DEF SpentOnce, Accounted, Stored
      <4>4. Accounted(Spent(a, ok))
        BY <4>3, SpentType DEF Accounted
      <4>5. approvals' = [approvals EXCEPT ![r.approval] = T]
        BY <2>6, <3>2 DEF Evaluate
      <4> HIDE DEF T
      <4>6. QED
        BY <2>2, <4>2, <4>4, <4>5
    <3>3. QED
      BY <3>1, <3>2
  <2>7. ASSUME NEW c \in Callers, NEW i \in ApprovalIds,
               NEW s \in ApprovalSpecs, StoreGrant(c, i, s)
        PROVE  SpentOnce'
    <3> DEFINE via == IF rel = "reset" THEN "gap" ELSE "store"
               T == {NewApproval(s, c, via)}
    <3>1. approvals' = [approvals EXCEPT ![i] = T]
      BY <2>7 DEF StoreGrant
    <3>2. Accounted(NewApproval(s, c, via))
      BY <2>7, NewApprovalType DEF StoreGrant, Accounted
    <3>3. (\A a, b \in T : a = b) /\ (\A a \in T : Accounted(a))
      BY <3>2
    <3> HIDE DEF T
    <3>4. QED
      BY <3>1, <3>3, <2>2
  <2>8. QED
    BY <2>1, <2>3, <2>4, <2>5, <2>6, <2>7
       DEF KernelNext, Tick, Arm, ConfirmArm, Disarm, RegisterCanceller, EngageBegin,
           EngageDisarm, RequestCancellation, EngageEnd, ReleaseBegin, ReleaseClears,
           ReleaseResets, ReleaseEnds, safetyVars, kernelVars
<1>3. SpentOnce => SingleUseBacksOne
  BY DEF SpentOnce, SingleUseBacksOne, Accounted, HeldApprovals
<1>4. QED
  BY <1>1, <1>2, <1>3, KernelTypeCorrect, PTL DEF KernelSpec

\* No authority outlives a stop, and none is spent after it.
THEOREM NoneAcrossStop == KernelSpec => []NoAuthorityAcrossStop
BY StopStrips, AllowEpoch, PTL DEF NoAuthorityAcrossStop

\* All authority is accounted for.
THEOREM Accounts == KernelSpec => []AuthorityIsAccounted
BY ArmAudited, SingleUse, CriticalHuman, PTL DEF AuthorityIsAccounted
=============================================================================
