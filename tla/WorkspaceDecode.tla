---------------------------- MODULE WorkspaceDecode ----------------------------
(***************************************************************************)
(* The decode loop of a desktop workspace: the session (session.ts), which *)
(* asset decodes which channel of which project; the coordinator           *)
(* (decode-coordinator.ts, decode-partition.ts), the only issuer of        *)
(* decode-frames requests; and the decoded store (decoded-realtime.ts)     *)
(* that Trace and Plot read.                                               *)
(*                                                                         *)
(* Both stores call their listeners synchronously, so a change of the      *)
(* session or of the viewport and what the coordinator does about it are   *)
(* one step.  An answer arrives later, when everything may have changed,   *)
(* and its promise runs on in two steps: then, or catch, records it        *)
(* (Answer, Refuse), and finally lets the next request go (Finish).  In    *)
(* between another promise may change the session.                         *)
(* A generation is compared for equality alone: a request is live until    *)
(* it is recorded, as long as the generation it was issued under is the    *)
(* coordinator's.                                                          *)
(*                                                                         *)
(* A frame is its number; its channel is fixed.  What an answer says about *)
(* a frame is left out: a decoded frame and a refused one are recorded the *)
(* same way.                                                               *)
(***************************************************************************)
EXTENDS RealtimeView, FiniteSets

CONSTANTS
  Channels, Assets, Projects,
  None,              \* null
  ChannelOf,         \* the channel of each frame
  MaxWorkSetFrames,  \* frames of one request
  StoreCapacity,     \* entries of the decoded store
  Outlives           \* whether the realtime store has a consumer outside
                     \* of the workspace

ASSUME WorkspaceAssumption ==
  /\ None \notin Channels \cup Assets \cup Projects
  /\ {MaxWorkSetFrames, StoreCapacity} \subseteq Nat \ {0}
  /\ ChannelOf \in [Numbers -> Channels]
  /\ Outlives \in BOOLEAN

VARIABLES
  session,      \* the WorkspaceSessionStore
  realtime,     \* stream and viewport of the RealtimeStreamStore
  coordinator,  \* the WorkspaceDecodeCoordinator
  decoded,      \* the DecodedRealtimeStore
  requests      \* decode-frames requests whose promise has not run to its end

workspaceVars == <<session, realtime, coordinator, decoded, requests>>

Selections == [channel : Channels, asset : Assets]
Signatures == [stream : 1..MaxStreams, frames : SUBSET Numbers]

\* untouched tells the shared NO_BINDINGS from a map of the session's own; the
\* coordinator compares identities.
EmptySession ==
  [project |-> None, bound |-> [c \in Channels |-> None], untouched |-> TRUE,
   selected |-> None]

\* The project of an entry is the one its request named.
EmptyDecoded == [stream |-> 0, entries |-> <<>>, status |-> "idle"]

Request == [stream : 1..MaxStreams, project : Projects, asset : Assets,
            frames : SUBSET Numbers, pending : SUBSET Numbers, live : BOOLEAN,
            recorded : BOOLEAN]

---------------------------------------------------------------------------
(* The coordinator. *)

\* partitionDecodeWorkSets, its first work set: the asset of the first bound
\* frame, and as many of that asset's frames as a request takes.
BoundFrames(frames, s) == {n \in frames : s.bound[ChannelOf[n]] # None}
Cut(frames) == {n \in frames : Cardinality({m \in frames : m <= n}) <= MaxWorkSetFrames}
WorkSet(frames, s) ==
  LET first == CHOOSE n \in BoundFrames(frames, s) :
                 \A m \in BoundFrames(frames, s) : n <= m
      asset == s.bound[ChannelOf[first]]
  IN [asset |-> asset,
      frames |-> Cut({n \in frames : s.bound[ChannelOf[n]] = asset})]

\* Mutant of Busy: the pass does not look at #inFlight.
NeverBusy(co) == FALSE

Busy(co) == co.inFlight

\* #pump, on what its caller leaves: forgets the markers of frames that are
\* gone, and asks for the first work set of the others unless these very
\* frames have just failed.
Pump(co, dec, reqs) ==
  LET ready == ~Busy(co) /\ co.project # None /\ realtime'.stream # 0
      seen == co.processed \cap realtime'.view
      pending == realtime'.view \ seen
      signature == [stream |-> realtime'.stream, frames |-> pending]
      asks == ready /\ signature # co.blocked /\ BoundFrames(pending, session') # {}
  IN /\ coordinator' = [co EXCEPT !.processed = IF ready THEN seen ELSE @,
                                  !.inFlight = @ \/ asks]
     /\ decoded' = IF asks THEN [dec EXCEPT !.status = "pending"] ELSE dec
     /\ requests' =
          IF asks
          THEN LET work == WorkSet(pending, session')
               IN reqs \cup {[stream |-> realtime'.stream, project |-> co.project,
                              asset |-> work.asset, frames |-> work.frames,
                              pending |-> pending, live |-> TRUE,
                              recorded |-> FALSE]}
          ELSE reqs

\* The generation moves on.
Superseded(reqs) == {[r EXCEPT !.live = FALSE] : r \in reqs}

\* Nothing recorded so far is comparable.
NewEpoch(co) == [co EXCEPT !.processed = {}, !.blocked = None]

\* #onRealtime; reset of the decoded store keeps it if it is of the stream and
\* has no entries.
OnRealtime(co) ==
  IF realtime'.stream # co.stream
  THEN Pump([NewEpoch(co) EXCEPT !.stream = realtime'.stream],
            IF decoded.stream = realtime'.stream /\ decoded.entries = <<>>
            THEN decoded
            ELSE [EmptyDecoded EXCEPT !.stream = realtime'.stream],
            Superseded(requests))
  ELSE Pump(co, decoded, requests)

\* Mutant of BindingsChanged: only another project is an epoch.
ProjectChanged(co) == session'.project # co.project

BindingsChanged(co) ==
  \/ session'.project # co.project
  \/ session'.bound # session.bound
  \/ session'.untouched # session.untouched

\* #onSession.
OnSession ==
  IF coordinator.phase # "running"
  THEN UNCHANGED <<coordinator, decoded, requests>>
  ELSE IF BindingsChanged(coordinator)
  THEN Pump([NewEpoch(coordinator) EXCEPT !.project = session'.project],
            EmptyDecoded, Superseded(requests))
  ELSE Pump(coordinator, decoded, requests)

Start ==
  /\ coordinator.phase = "new"
  /\ UNCHANGED <<session, realtime>>
  /\ OnRealtime([coordinator EXCEPT !.phase = "running",
                                    !.project = session.project])

\* The workspace is unmounted: the coordinator is stopped, and the realtime
\* store, if nobody else listens to it, lets go of its stream.
Unmount ==
  /\ coordinator.phase = "running"
  /\ coordinator' = [coordinator EXCEPT !.phase = "gone", !.inFlight = FALSE]
  /\ requests' = Superseded(requests)
  /\ realtime' = IF Outlives THEN realtime ELSE [stream |-> 0, view |-> {}]
  /\ UNCHANGED <<session, decoded>>

---------------------------------------------------------------------------
(* An answer. *)

\* applyBatch sets an entry in its place or appends it, then evicts the oldest.
SetEntry(entries, e) ==
  IF \E i \in DOMAIN entries : entries[i].frame = e.frame
  THEN [i \in DOMAIN entries |-> IF entries[i].frame = e.frame THEN e ELSE entries[i]]
  ELSE Append(entries, e)

SetEntries(entries, r) ==
  LET set[k \in 0..MaxFrames] ==
        IF k = 0 THEN entries
        ELSE IF k \in r.frames
        THEN SetEntry(set[k - 1], [frame |-> k, asset |-> r.asset, project |-> r.project])
        ELSE set[k - 1]
  IN set[MaxFrames]

Newest(entries) ==
  SubSeq(entries,
         IF Len(entries) > StoreCapacity THEN Len(entries) - StoreCapacity + 1 ELSE 1,
         Len(entries))

ApplyBatch(dec, r) ==
  [stream |-> r.stream,
   entries |-> Newest(SetEntries(IF dec.stream = r.stream THEN dec.entries ELSE <<>>, r)),
   status |-> "ready"]

\* Mutant of IsLive: whatever is answered is published.
AlwaysLive(r) == TRUE

\* The guard of an answer.
IsLive(r) == r.live

\* Mutant of Marked: an answered frame is not remembered.
Unmarked(co, r) == [co EXCEPT !.blocked = None]

Marked(co, r) == [co EXCEPT !.processed = @ \cup r.frames, !.blocked = None]

\* What becomes of the requests when the answer of r is recorded.
Record(r) == (requests \ {r}) \cup {[r EXCEPT !.live = FALSE, !.recorded = TRUE]}

\* then: applyBatch, unless the answer is of another generation.
Answer(r) ==
  /\ ~r.recorded
  /\ requests' = Record(r)
  /\ \/ /\ IsLive(r)
        /\ coordinator' = Marked(coordinator, r)
        /\ decoded' = ApplyBatch(decoded, r)
     \/ ~IsLive(r) /\ UNCHANGED <<coordinator, decoded>>
  /\ UNCHANGED <<session, realtime>>

\* catch: a transport error, a refusal or a contract mismatch of the whole request.
Refuse(r) ==
  /\ ~r.recorded
  /\ requests' = Record(r)
  /\ \/ /\ IsLive(r)
        /\ coordinator' = [coordinator EXCEPT
                             !.blocked = [stream |-> r.stream, frames |-> r.pending]]
        /\ decoded' = [decoded EXCEPT !.status = "failed"]
     \/ ~IsLive(r) /\ UNCHANGED <<coordinator, decoded>>
  /\ UNCHANGED <<session, realtime>>

\* Mutant of Finish: the pass does not run again.
FinishOnly(r) ==
  /\ r.recorded
  /\ coordinator' = [coordinator EXCEPT !.inFlight = FALSE]
  /\ requests' = requests \ {r}
  /\ UNCHANGED <<session, realtime, decoded>>

\* finally: the pass runs again.
Finish(r) ==
  /\ r.recorded
  /\ UNCHANGED <<session, realtime>>
  /\ Pump([coordinator EXCEPT !.inFlight = FALSE], decoded, requests \ {r})

---------------------------------------------------------------------------
(* The session and the viewport. *)

\* Whatever was selected does not survive another project, nor the same again.
OpenProject(p) ==
  /\ session' = [EmptySession EXCEPT !.project = p]
  /\ UNCHANGED realtime
  /\ OnSession

CloseProject ==
  /\ session # EmptySession
  /\ session' = EmptySession
  /\ UNCHANGED realtime
  /\ OnSession

\* #selectionUnder: a selection stands as long as its channel is bound to its asset.
Rebound(bound) ==
  [session EXCEPT
     !.bound = bound, !.untouched = FALSE,
     !.selected = IF @ # None /\ bound[@.channel] = @.asset THEN @ ELSE None]

BindChannel(c, a) ==
  /\ session.project # None /\ session.bound[c] # a
  /\ session' = Rebound([session.bound EXCEPT ![c] = a])
  /\ UNCHANGED realtime
  /\ OnSession

UnbindChannel(c) ==
  /\ session.bound[c] # None
  /\ session' = Rebound([session.bound EXCEPT ![c] = None])
  /\ UNCHANGED realtime
  /\ OnSession

ClearBindings ==
  /\ session.selected # None \/ \E c \in Channels : session.bound[c] # None
  /\ session' = [EmptySession EXCEPT !.project = session.project]
  /\ UNCHANGED realtime
  /\ OnSession

SelectSignal(s) ==
  /\ s # session.selected
  /\ s # None => session.bound[s.channel] = s.asset
  /\ session' = [session EXCEPT !.selected = s]
  /\ UNCHANGED realtime
  /\ OnSession

\* The worker's next snapshot: another stream, or this one further on.
Further(view, later) ==
  /\ \A n \in view : \E m \in later : n <= m
  /\ \A m \in later : \E n \in view : n <= m

ShowFrames ==
  /\ coordinator.phase = "running" \/ Outlives
  /\ \E stream \in {realtime.stream, realtime.stream + 1} \cap 1..MaxStreams :
     \E first, last \in Numbers :
       /\ first <= last /\ last - first < ViewCapacity
       /\ stream = realtime.stream => Further(realtime.view, first..last)
       /\ realtime' = [stream |-> stream, view |-> first..last]
       /\ realtime' # realtime
  /\ UNCHANGED session
  /\ IF coordinator.phase = "running"
     THEN OnRealtime(coordinator)
     ELSE UNCHANGED <<coordinator, decoded, requests>>

---------------------------------------------------------------------------
WorkspaceInit ==
  /\ session = EmptySession
  /\ realtime = [stream |-> 0, view |-> {}]
  /\ coordinator = [phase |-> "new", inFlight |-> FALSE, stream |-> 0,
                    project |-> None, processed |-> {}, blocked |-> None]
  /\ decoded = EmptyDecoded
  /\ requests = {}

SessionStep ==
  \/ \E p \in Projects : OpenProject(p)
  \/ CloseProject
  \/ \E c \in Channels, a \in Assets : BindChannel(c, a)
  \/ \E c \in Channels : UnbindChannel(c)
  \/ ClearBindings
  \/ \E s \in Selections \cup {None} : SelectSignal(s)

WorkspaceNext ==
  \/ Start \/ Unmount
  \/ SessionStep
  \/ ShowFrames
  \/ \E r \in requests : Answer(r) \/ Refuse(r) \/ Finish(r)

WorkspaceSpec == WorkspaceInit /\ [][WorkspaceNext]_workspaceVars

---------------------------------------------------------------------------
(* Properties. *)

Running == coordinator.phase = "running"
Recorded == {decoded.entries[i].frame : i \in DOMAIN decoded.entries}

WorkspaceTypeOK ==
  /\ session \in [project : Projects \cup {None},
                  bound : [Channels -> Assets \cup {None}],
                  untouched : BOOLEAN, selected : Selections \cup {None}]
  /\ realtime \in [stream : 0..MaxStreams, view : SUBSET Numbers]
  /\ coordinator \in [phase : {"new", "running", "gone"}, inFlight : BOOLEAN,
                      stream : 0..MaxStreams, project : Projects \cup {None},
                      processed : SUBSET Numbers,
                      blocked : Signatures \cup {None}]
  /\ decoded \in [stream : 0..MaxStreams,
                  entries : Seq([frame : Numbers, asset : Assets, project : Projects]),
                  status : {"idle", "pending", "ready", "failed"}]
  /\ requests \in SUBSET Request

\* What Trace and Plot show was decoded for the stream on screen, in the open
\* project, with the document that is bound to the frame's channel now; and
\* the selected signal is of a document its channel is bound to.
ShownIsCurrent ==
  /\ Running =>
       \A i \in DOMAIN decoded.entries :
         LET e == decoded.entries[i]
         IN /\ decoded.stream = realtime.stream
            /\ e.project = session.project
            /\ e.asset = session.bound[ChannelOf[e.frame]]
  /\ session.selected # None =>
       session.bound[session.selected.channel] = session.selected.asset
  /\ Len(decoded.entries) <= StoreCapacity

\* At most one request is out; until it is answered it asks for nothing that is
\* answered; and the store says pending only while one is out.
RequestsAreNeeded ==
  /\ Cardinality(requests) <= 1
  /\ \A r \in requests : r.live => r.frames \cap Recorded = {}
  /\ Running /\ decoded.status = "pending" => requests # {}

\* No bound frame on screen is forgotten: one that is not answered is in a request
\* that is out or has one before it whose end asks again, unless the request for
\* just these frames has failed.  Nothing else would ever ask for it when neither
\* the viewport nor the session changes again (decode-coordinator.ts finally).
Waiting ==
  /\ Running /\ session.project # None /\ realtime.stream # 0
  /\ LET pending == realtime.view \ coordinator.processed
     IN /\ BoundFrames(pending, session) # {}
        /\ coordinator.blocked # [stream |-> realtime.stream, frames |-> pending]
NothingForgotten == Waiting => requests # {}

\* Once stopped, the coordinator asks for nothing and publishes nothing.
DisposalIsFinal ==
  [][coordinator.phase = "gone" => requests' \subseteq requests /\ decoded' = decoded]_workspaceVars
================================================================================
