------------------------------- MODULE TraceQuery -------------------------------
(***************************************************************************)
(* The historical trace: query/service.py, query/planning.py and           *)
(* query/engine.py behind api/trace.py, and a client that pages through a  *)
(* session while its writer goes on committing segments.                   *)
(*                                                                         *)
(* A call reads the rows of the committed segments once, leaves out those  *)
(* the filter cannot match, validates each file that is left, and then     *)
(* scans them.  The call runs on a worker thread: a commit, or a file that *)
(* disappears, may fall between any two of its steps.  A page ends at its  *)
(* limit and names the cursor the next one starts from.                    *)
(*                                                                         *)
(* A segment is the sequence of its frames; that a registered file is      *)
(* whole and that segments continue each other is DataSession's business.  *)
(* Sequence numbers and times are counted from 1 so that 0 is None.  The   *)
(* axes of a filter that look at one frame only (channel, identifier, its  *)
(* range and mask, direction, flags) are the set of the kinds of frames    *)
(* they accept; a kind is what the histogram groups by.  A page is the set *)
(* of its frames: SQL orders them by sequence, which is unique.            *)
(***************************************************************************)
EXTENDS Naturals, Sequences, FiniteSets

CONSTANTS
  Kinds,        \* the (arbitration_id, is_extended) pairs frames come with
  IdOf,         \* the arbitration_id of a kind
  Filters,      \* the filters asked for
  Limits,       \* the page sizes asked for
  TopNs,        \* the histogram sizes asked for
  MaxSegments,  \* bound on the segments of the session
  MaxFrames,    \* bound on the frames of the session
  MaxTime       \* bound on timestamps

None == 0
Segments == 1..MaxSegments
Numbers == 1..MaxFrames
Times == 1..MaxTime
Frame == [seq : Numbers, ts : Times, kind : Kinds]

\* A FrameFilter that __post_init__ lets through.
Filter == [from : Numbers \cup {None}, to : Numbers \cup {None},
           since : Times \cup {None}, until : Times \cup {None},
           kinds : SUBSET Kinds]

ASSUME QueryAssumption ==
  /\ MaxSegments \in Nat /\ MaxFrames \in Nat /\ MaxTime \in Nat
  /\ IdOf \in [Kinds -> Nat]
  /\ Filters \subseteq Filter
  /\ Limits \subseteq Nat \ {0}
  /\ TopNs \subseteq Nat \ {0}

VARIABLES
  registered, \* whether the session has a row in this project
  segments,   \* its committed segments, in order
  files,      \* what the file of each segment is now
  call,       \* the step the worker thread is at, and what it computes
  filter,     \* the filter of the view the client reads
  limit,      \* its page size
  cursor,     \* after_sequence of the next page
  known,      \* how many segments the snapshot of the call has
  checked,    \* the candidates whose file the call has validated
  page,       \* the page it was last given, {} while it waits
  delivered,  \* every frame it was given for this filter
  reached,    \* the highest sequence number the pages so far account for
  summary,    \* the summary it was last given, with the segments it knew
  histogram   \* the histogram, with those segments and its top_n

storeVars == <<registered, segments, files>>
viewVars == <<filter, limit, cursor, page, delivered, reached>>
answerVars == <<summary, histogram>>
vars == <<storeVars, call, viewVars, known, checked, answerVars>>

FramesOf(s) == {s[i] : i \in DOMAIN s}
First(s) == s[1]
Last(s) == s[Len(s)]

\* The last sequence number committed.
Stored == IF segments = <<>> THEN 0 ELSE Last(Last(segments)).seq

\* The frames of the first n committed segments.
Committed(n) == UNION {FramesOf(segments[i]) : i \in 1..n}

---------------------------------------------------------------------------
(* The predicates. *)

\* _frame_predicates: the axes are AND-ed.
Matches(f, flt) ==
  /\ flt.from # None => f.seq >= flt.from
  /\ flt.to # None => f.seq =< flt.to
  /\ flt.since # None => f.ts >= flt.since
  /\ flt.until # None => f.ts =< flt.until
  /\ f.kind \in flt.kinds

\* A planning that trusts the first and the last timestamp too.
MayMatchTimes(s, flt, after) ==
  /\ flt.from # None => Last(s).seq >= flt.from
  /\ flt.to # None => First(s).seq =< flt.to
  /\ flt.since # None => Last(s).ts >= flt.since
  /\ flt.until # None => First(s).ts =< flt.until
  /\ after # None => Last(s).seq > after

\* _may_match: only the sequence bounds of a segment may leave it out.
MayMatch(s, flt, after) ==
  /\ flt.from # None => Last(s).seq >= flt.from
  /\ flt.to # None => First(s).seq =< flt.to
  /\ after # None => Last(s).seq > after

\* plan_segments: the indexes of the candidates among the n segments known.
PlanSegments(n, flt, after) == {i \in 1..n : MayMatch(segments[i], flt, after)}

\* after_sequence of a call: only a page has one.
AfterAlways(op) == cursor
After(op) == IF op = "page" THEN cursor ELSE None

Plan == PlanSegments(known, filter, After(call.op))

\* The engine's predicate: the filter, and sequence > ? under a cursor.
SelectedFrom(f, op) ==
  Matches(f, filter) /\ (After(op) # None => f.seq >= After(op))
Selected(f, op) == Matches(f, filter) /\ (After(op) # None => f.seq > After(op))

\* The rows the scan of the validated files yields.
Rows == {f \in UNION {FramesOf(segments[i]) : i \in checked} : Selected(f, call.op)}

\* ORDER BY sequence LIMIT n: the n rows with the lowest sequence numbers.
IsHead(head, rows, n) ==
  /\ head \subseteq rows
  /\ IF Cardinality(rows) =< n
     THEN head = rows
     ELSE /\ Cardinality(head) = n
          /\ \A f \in head, g \in rows \ head : f.seq < g.seq

\* The frame that ends a page.
IsNewest(f, head) == f \in head /\ \A g \in head : g.seq =< f.seq

\* count, min, max of the sequence and of the timestamp.
Aggregate(rows) ==
  IF rows = {} THEN [count |-> 0]
  ELSE [count |-> Cardinality(rows),
        first |-> CHOOSE n \in {f.seq : f \in rows} : \A f \in rows : n =< f.seq,
        last |-> CHOOSE n \in {f.seq : f \in rows} : \A f \in rows : n >= f.seq,
        since |-> CHOOSE t \in {f.ts : f \in rows} : \A f \in rows : t =< f.ts,
        until |-> CHOOSE t \in {f.ts : f \in rows} : \A f \in rows : t >= f.ts]

Group(rows, k) == {f \in rows : f.kind = k}
Present(rows) == {k \in Kinds : Group(rows, k) # {}}

\* ORDER BY frame_count DESC, arbitration_id ASC: j never comes before k.
Precedes(rows, k, j) ==
  \/ Cardinality(Group(rows, k)) > Cardinality(Group(rows, j))
  \/ /\ Cardinality(Group(rows, k)) = Cardinality(Group(rows, j))
     /\ IdOf[k] =< IdOf[j]

\* GROUP BY ... LIMIT ?: the engine may answer with any such list.
IsHistogram(h, rows, top) ==
  /\ \A i, j \in DOMAIN h : h[i].kind = h[j].kind => i = j
  /\ \A i \in DOMAIN h :
       /\ h[i].kind \in Present(rows)
       /\ h[i].count = Cardinality(Group(rows, h[i].kind))
  /\ \A i, j \in DOMAIN h : i < j => Precedes(rows, h[i].kind, h[j].kind)
  /\ \A k \in Present(rows) \ {h[i].kind : i \in DOMAIN h} :
       /\ Len(h) = top
       /\ \A i \in DOMAIN h : Precedes(rows, h[i].kind, k)
  /\ Len(h) =< top

---------------------------------------------------------------------------
(* The session's writer and its files. *)

Register ==
  /\ ~registered
  /\ registered' = TRUE
  /\ UNCHANGED <<segments, files, call, viewVars, known, checked, answerVars>>

\* A segment is committed.  Its numbers continue the session's.  A batch is
\* refused when it ends before it begins, or begins before the last one
\* ended; a frame inside it may carry any time.
Commit ==
  /\ registered
  /\ Len(segments) < MaxSegments
  /\ \E n \in 1..(MaxFrames - Stored) :
     \E ts \in [1..n -> Times], kind \in [1..n -> Kinds] :
       /\ ts[1] =< ts[n]
       /\ segments # <<>> => Last(Last(segments)).ts =< ts[1]
       /\ segments' = Append(segments, [j \in 1..n |->
              [seq |-> Stored + j, ts |-> ts[j], kind |-> kind[j]]])
  /\ UNCHANGED <<registered, files, call, viewVars, known, checked, answerVars>>

\* A file is lost, or one that is not the registered segment takes its place.
\* Nobody replaces a file between its validation and the scan.
Spoil(i) ==
  /\ i \in DOMAIN segments
  /\ files[i] = "whole"
  /\ \E what \in {"missing", "foreign"} :
       /\ what = "foreign" => i \notin checked
       /\ files' = [files EXCEPT ![i] = what]
  /\ UNCHANGED <<registered, segments, call, viewVars, known, checked, answerVars>>

---------------------------------------------------------------------------
(* The client. *)

Idle == [at |-> "idle", op |-> "none", top |-> 0]

\* It begins another view.
OpenView ==
  /\ call = Idle
  /\ filter' \in Filters
  /\ limit' \in Limits
  /\ cursor' = None /\ page' = {} /\ delivered' = {} /\ reached' = 0
  /\ summary' = <<>> /\ histogram' = <<>>
  /\ UNCHANGED <<storeVars, call, known, checked>>

\* It asks for the next page, under the cursor the last one named.
AskPage ==
  /\ call = Idle
  /\ cursor = None => delivered = {}
  /\ call' = [at |-> "snapshot", op |-> "page", top |-> 0]
  /\ page' = {} /\ summary' = <<>> /\ histogram' = <<>>
  /\ UNCHANGED <<storeVars, filter, limit, cursor, delivered, reached, known,
                 checked>>

\* It asks for a summary or for a histogram.
AskAggregate(op, top) ==
  /\ call = Idle
  /\ call' = [at |-> "snapshot", op |-> op, top |-> top]
  /\ page' = {} /\ summary' = <<>> /\ histogram' = <<>>
  /\ UNCHANGED <<storeVars, filter, limit, cursor, delivered, reached, known,
                 checked>>

\* After the final page it may go on from the last frame it has.
Resume ==
  /\ call = Idle /\ cursor = None /\ delivered # {}
  /\ \E f \in delivered : IsNewest(f, delivered) /\ cursor' = f.seq
  /\ UNCHANGED <<storeVars, call, filter, limit, page, delivered, reached, known,
                 checked, answerVars>>

---------------------------------------------------------------------------
(* The call, on its worker thread. *)

\* Any typed error: the client gets nothing and keeps its cursor.
Fail ==
  /\ call' = Idle /\ known' = 0 /\ checked' = {}
  /\ UNCHANGED <<storeVars, viewVars, answerVars>>

\* _snapshot: the rows of the session and of its segments, once.
Snapshot ==
  /\ call.at = "snapshot" /\ registered
  /\ known' = Len(segments) /\ checked' = {}
  /\ call' = [call EXCEPT !.at = "validate"]
  /\ UNCHANGED <<storeVars, viewVars, answerVars>>

\* QuerySessionError.
SnapshotFails == call.at = "snapshot" /\ ~registered /\ Fail

\* _resolve and _validate, one candidate after the other.
Validate(i) ==
  /\ call.at = "validate"
  /\ i \in Plan \ checked
  /\ \A j \in Plan \ checked : i =< j
  /\ files[i] = "whole"
  /\ checked' = checked \cup {i}
  /\ UNCHANGED <<storeVars, call, viewVars, known, answerVars>>

\* QueryDataUnavailableError or QueryIntegrityError.
ValidateFails(i) ==
  /\ call.at = "validate"
  /\ i \in Plan \ checked
  /\ \A j \in Plan \ checked : i =< j
  /\ files[i] # "whole"
  /\ Fail

\* Every candidate is validated and none has gone since.
ScanReady ==
  /\ call.at = "validate" /\ Plan \subseteq checked
  /\ \A i \in checked : files[i] = "whole"

\* QueryExecutionError: a file vanished after its validation.
ScanFails ==
  /\ call.at = "validate" /\ Plan \subseteq checked
  /\ \E i \in checked : files[i] # "whole"
  /\ Fail

\* query_frames: a page, and the cursor when there is more.
ScanPage ==
  /\ ScanReady /\ call.op = "page"
  /\ page' \in SUBSET Rows
  /\ IsHead(page', Rows, limit)
  /\ delivered' = delivered \cup page'
  /\ \/ /\ page' # Rows
        /\ \E f \in page' :
             IsNewest(f, page') /\ cursor' = f.seq /\ reached' = f.seq
     \/ /\ page' = Rows
        /\ cursor' = None
        /\ reached' = IF known = 0 THEN 0 ELSE Last(segments[known]).seq
  /\ call' = Idle /\ known' = 0 /\ checked' = {}
  /\ UNCHANGED <<storeVars, filter, limit, answerVars>>

\* summarize: the segments it covered are kept with the answer.
ScanSummary ==
  /\ ScanReady /\ call.op = "summary"
  /\ summary' = <<known, Aggregate(Rows)>>
  /\ call' = Idle /\ known' = 0 /\ checked' = {}
  /\ UNCHANGED <<storeVars, viewVars, histogram>>

\* count_by_arbitration_id.
ScanHistogram ==
  /\ ScanReady /\ call.op = "histogram"
  /\ \E n \in 0..call.top :
     \E h \in [1..n -> [kind : Present(Rows), count : 1..Cardinality(Rows)]] :
       /\ IsHistogram(h, Rows, call.top)
       /\ histogram' = <<known, call.top, h>>
  /\ call' = Idle /\ known' = 0 /\ checked' = {}
  /\ UNCHANGED <<storeVars, viewVars, summary>>

---------------------------------------------------------------------------
Init ==
  /\ registered = FALSE /\ segments = <<>>
  /\ files = [i \in Segments |-> "whole"]
  /\ call = Idle /\ known = 0 /\ checked = {}
  /\ filter \in Filters /\ limit \in Limits
  /\ cursor = None /\ page = {} /\ delivered = {} /\ reached = 0
  /\ summary = <<>> /\ histogram = <<>>

Next ==
  \/ Register \/ Commit
  \/ \E i \in Segments : Spoil(i) \/ Validate(i) \/ ValidateFails(i)
  \/ OpenView \/ Resume
  \/ AskPage \/ AskAggregate("summary", 0)
  \/ \E top \in TopNs : AskAggregate("histogram", top)
  \/ Snapshot \/ SnapshotFails \/ ScanFails
  \/ ScanPage \/ ScanSummary \/ ScanHistogram

Spec == Init /\ [][Next]_vars

---------------------------------------------------------------------------
(* What the trace promises. *)

\* The frames of the first n segments the filter accepts.
Matching(n) == {f \in Committed(n) : Matches(f, filter)}

\* The type of the state.
TypeOK ==
  /\ registered \in BOOLEAN
  /\ segments \in Seq(Seq(Frame)) /\ Len(segments) =< MaxSegments
  /\ files \in [Segments -> {"whole", "missing", "foreign"}]
  /\ call \in [at : {"idle", "snapshot", "validate"},
               op : {"none", "page", "summary", "histogram"},
               top : TopNs \cup {0}]
  /\ filter \in Filters /\ limit \in Limits
  /\ cursor \in Numbers \cup {None} /\ reached \in Numbers \cup {0}
  /\ page \subseteq Frame /\ delivered \subseteq Frame
  /\ known \in 0..MaxSegments /\ checked \subseteq Segments

\* What a client has paged through is the filter's answer up to the point it
\* reached: no matching frame was left out by the planning, by a limit, by a
\* call that failed and was repeated, or by the segments committed meanwhile,
\* and a final page reaches the end of its own snapshot (planning.py
\* plan_segments, engine.py query_frames).
PagesAreExact ==
  delivered = {f \in Matching(Len(segments)) : f.seq =< reached}

\* A summary and a histogram cover every matching frame of the segments their
\* snapshot had, whatever the planning left out and whatever page the client
\* is at; the groups a histogram leaves out are no larger than those it shows
\* (engine.py summarize, count_by_arbitration_id).
AggregatesCoverSnapshot ==
  /\ summary # <<>> => summary[2] = Aggregate(Matching(summary[1]))
  /\ histogram # <<>> =>
       IsHistogram(histogram[3], Matching(histogram[1]), histogram[2])

\* Each page lies beyond everything delivered before it, so the client sees
\* the frames once and in order, also when it asks again after an error or
\* goes on after a final page (engine.py query_frames: sequence > ?).
PagesAdvance ==
  [][\A f \in page' \ page, g \in delivered : g.seq < f.seq]_vars

================================================================================
