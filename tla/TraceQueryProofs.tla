-------------------------- MODULE TraceQueryProofs --------------------------
(***************************************************************************)
(* Proofs about TraceQuery, for every set of kinds, filters, page sizes    *)
(* and histogram sizes and every bound on a session.                       *)
(***************************************************************************)
EXTENDS TraceQuery, TLAPS

\* The sequence number with which the first n segments end.
End(n) == IF n = 0 THEN 0 ELSE Last(segments[n]).seq

(***************************************************************************)
(* The strengthening.  Segments are not empty and their numbers ascend; a  *)
(* call knows a prefix of them and has validated only what its plan names; *)
(* what the pages account for ends within what is stored, within what a    *)
(* call in progress knows, and at the cursor or after it.                  *)
(***************************************************************************)
SegmentsOK ==
  /\ \A i \in 1..Len(segments) : Len(segments[i]) >= 1
  /\ \A i \in 1..Len(segments) : \A a, b \in 1..Len(segments[i]) :
       a < b => segments[i][a].seq < segments[i][b].seq
  /\ \A i, j \in 1..Len(segments) :
       i < j => Last(segments[i]).seq < First(segments[j]).seq
CallOK ==
  /\ known =< Len(segments)
  /\ call.at = "validate" => checked \subseteq Plan /\ reached =< End(known)
  /\ call.op = "page" /\ cursor = None => delivered = {}
CursorOK ==
  /\ reached =< End(Len(segments))
  /\ cursor # None =>
       cursor =< reached /\ \A f \in delivered : f.seq =< cursor
AnswersOK ==
  /\ summary # <<>> => summary[1] \in 0..Len(segments)
  /\ histogram # <<>> => histogram[1] \in 0..Len(segments)
IInv ==
  /\ TypeOK /\ SegmentsOK /\ CallOK /\ CursorOK /\ AnswersOK
  /\ PagesAreExact /\ AggregatesCoverSnapshot
-----------------------------------------------------------------------------
(***************************************************************************)
(* Segments.                                                               *)
(***************************************************************************)
\* The frames of a segment lie between its first and its last one.
LEMMA SegmentBounds ==
  ASSUME TypeOK, SegmentsOK, NEW i \in 1..Len(segments),
         NEW f \in FramesOf(segments[i])
  PROVE  /\ f \in Frame
         /\ First(segments[i]).seq \in Numbers /\ Last(segments[i]).seq \in Numbers
         /\ First(segments[i]).seq =< f.seq /\ f.seq =< Last(segments[i]).seq
<1>1. segments[i] \in Seq(Frame) /\ Len(segments[i]) >= 1
  BY DEF TypeOK, SegmentsOK
<1>2. PICK a \in 1..Len(segments[i]) : f = segments[i][a]
  BY <1>1 DEF FramesOf
<1>3. ASSUME NEW b \in 1..Len(segments[i])
      PROVE  segments[i][b] \in Frame /\ segments[i][b].seq \in Numbers
             /\ segments[i][b].seq \in Nat
  <2>1. segments[i][b] \in Frame
    BY <1>1
  <2>2. QED
    BY <2>1, QueryAssumption DEF Frame, Numbers
<1>4. 1 \in 1..Len(segments[i]) /\ Len(segments[i]) \in 1..Len(segments[i])
  BY <1>1
<1>5. /\ 1 < a => segments[i][1].seq < segments[i][a].seq
      /\ a < Len(segments[i]) => segments[i][a].seq < segments[i][Len(segments[i])].seq
  BY <1>2, <1>4 DEF SegmentsOK
<1>6. segments[i][1].seq =< segments[i][a].seq
  <2>1. a = 1 \/ 1 < a
    BY <1>1, <1>2
  <2>2. QED
    BY <1>3, <1>4, <1>2, <1>5, <2>1
<1>7. segments[i][a].seq =< segments[i][Len(segments[i])].seq
  <2>1. a = Len(segments[i]) \/ a < Len(segments[i])
    BY <1>1, <1>2
  <2>2. QED
    BY <1>3, <1>4, <1>2, <1>5, <2>1
<1>8. QED
  BY <1>2, <1>3, <1>4, <1>6, <1>7 DEF First, Last, Frame

\* A segment that is there has its first and its last frame.
LEMMA SegmentEnds ==
  ASSUME TypeOK, SegmentsOK, NEW i \in 1..Len(segments)
  PROVE  /\ First(segments[i]) \in FramesOf(segments[i])
         /\ Last(segments[i]) \in FramesOf(segments[i])
         /\ First(segments[i]).seq \in Numbers /\ Last(segments[i]).seq \in Numbers
         /\ First(segments[i]).seq =< Last(segments[i]).seq
<1>1. segments[i] \in Seq(Frame) /\ Len(segments[i]) >= 1
  BY DEF TypeOK, SegmentsOK
<1>2. First(segments[i]) \in FramesOf(segments[i])
      /\ Last(segments[i]) \in FramesOf(segments[i])
  BY <1>1 DEF First, Last, FramesOf
<1>3. QED
  BY <1>2, SegmentBounds

LEMMA EndType ==
  ASSUME TypeOK, SegmentsOK, NEW n \in 0..Len(segments)
  PROVE  End(n) \in 0..MaxFrames
<1>1. CASE n = 0
  BY <1>1, QueryAssumption DEF End
<1>2. CASE n # 0
  <2>1. n \in 1..Len(segments)
    BY <1>2 DEF TypeOK
  <2>2. QED
    BY <1>2, <2>1, SegmentEnds, QueryAssumption DEF End, Numbers
<1>3. QED
  BY <1>1, <1>2

LEMMA StoredType == TypeOK /\ SegmentsOK => End(Len(segments)) \in Nat
<1>1. TypeOK => Len(segments) \in 0..Len(segments)
  BY DEF TypeOK
<1>2. QED
  BY <1>1, EndType, QueryAssumption

LEMMA StoredTypeNext ==
  (TypeOK /\ SegmentsOK)' => (End(Len(segments)) \in Nat)'
BY StoredType, PTL

LEMMA EndIsMonotone ==
  ASSUME TypeOK, SegmentsOK, NEW n \in 0..Len(segments), NEW m \in 0..n
  PROVE  End(m) =< End(n)
<1>0. Len(segments) \in Nat
  BY DEF TypeOK
<1>1. CASE m = 0
  BY <1>1, EndType, QueryAssumption DEF End
<1>2. CASE m = n
  BY <1>2, EndType, QueryAssumption
<1>3. CASE m # 0 /\ m # n
  <2>1. m \in 1..Len(segments) /\ n \in 1..Len(segments) /\ m < n
    BY <1>0, <1>3
  <2>2. Last(segments[m]).seq < First(segments[n]).seq
    BY <2>1 DEF SegmentsOK
  <2>3. /\ First(segments[n]).seq \in Nat /\ Last(segments[n]).seq \in Nat
        /\ Last(segments[m]).seq \in Nat
        /\ First(segments[n]).seq =< Last(segments[n]).seq
    BY <2>1, SegmentEnds, QueryAssumption DEF Numbers
  <2>4. End(m) = Last(segments[m]).seq /\ End(n) = Last(segments[n]).seq
    BY <2>1 DEF End
  <2>5. QED
    BY <2>2, <2>3, <2>4
<1>4. QED
  BY <1>1, <1>2, <1>3

\* The first n segments are what is stored up to their end.
LEMMA CommittedUpTo ==
  ASSUME TypeOK, SegmentsOK, NEW n \in 0..Len(segments),
         NEW f \in Committed(Len(segments))
  PROVE  /\ f \in Frame /\ f.seq \in Numbers
         /\ f \in Committed(n) <=> f.seq =< End(n)
<1>0. Len(segments) \in Nat
  BY DEF TypeOK
<1>1. PICK i \in 1..Len(segments) : f \in FramesOf(segments[i])
  BY DEF Committed
<1>2. /\ f \in Frame /\ f.seq \in Nat /\ f.seq \in Numbers
      /\ First(segments[i]).seq =< f.seq /\ f.seq =< Last(segments[i]).seq
  BY <1>1, SegmentBounds, QueryAssumption DEF Frame, Numbers
<1>3. ASSUME NEW j \in 1..n, f \in FramesOf(segments[j]) PROVE f.seq =< End(n)
  <2>1. j \in 1..Len(segments) /\ j \in 0..n /\ j # 0
    BY <1>0
  <2>2. f.seq =< Last(segments[j]).seq /\ End(j) = Last(segments[j]).seq
    BY <1>3, <2>1, SegmentBounds DEF End
  <2>3. End(j) =< End(n) /\ End(j) \in Nat /\ End(n) \in Nat
    <3>1. j \in 0..Len(segments)
      BY <2>1
    <3>2. End(j) \in 0..MaxFrames /\ End(n) \in 0..MaxFrames
      BY <3>1, EndType
    <3>3. QED
      BY <2>1, <3>2, EndIsMonotone, QueryAssumption
  <2>4. QED
    BY <1>2, <2>2, <2>3
<1>4. ASSUME i > n PROVE f.seq > End(n)
  <2>1. CASE n = 0
    BY <1>2, <2>1, QueryAssumption DEF End, Numbers
  <2>2. CASE n # 0
    <3>1. n \in 1..Len(segments) /\ n < i
      BY <1>0, <1>4, <2>2
    <3>2. Last(segments[n]).seq < First(segments[i]).seq
      BY <3>1 DEF SegmentsOK
    <3>3. Last(segments[n]).seq \in Nat /\ First(segments[i]).seq \in Nat
      BY <3>1, SegmentEnds, QueryAssumption DEF Numbers
    <3>4. QED
      BY <1>2, <2>2, <3>2, <3>3 DEF End
  <2>3. QED
    BY <2>1, <2>2
<1>5. End(n) \in Nat
  BY EndType, QueryAssumption
<1>6. CASE i > n
  <2>1. ~(f.seq =< End(n))
    BY <1>2, <1>4, <1>5, <1>6
  <2>2. f \notin Committed(n)
    BY <1>3, <2>1 DEF Committed
  <2>3. QED
    BY <1>2, <2>1, <2>2
<1>7. CASE ~(i > n)
  <2>1. i \in 1..n
    BY <1>0, <1>7
  <2>2. QED
    BY <1>1, <1>2, <1>3, <2>1 DEF Committed
<1>8. QED
  BY <1>6, <1>7

LEMMA StoredIsEnd ==
  ASSUME TypeOK
  PROVE  Stored = End(Len(segments))
BY DEF TypeOK, Stored, End, Last
-----------------------------------------------------------------------------
(***************************************************************************)
(* Planning.                                                               *)
(***************************************************************************)
\* What a call has to read: the matching frames its snapshot has, under a
\* cursor those beyond it.
Wanted == {f \in Matching(known) : After(call.op) # None => f.seq > After(call.op)}

\* The planning leaves no frame out, so the scan of the candidates yields what
\* a scan of every segment would (planning.py _may_match).
LEMMA RowsAreWanted ==
  ASSUME TypeOK, SegmentsOK, known =< Len(segments), checked = Plan
  PROVE  Rows = Wanted
<1>0. known \in Nat /\ Len(segments) \in Nat
  BY DEF TypeOK
<1>1. Plan \subseteq 1..known
  BY DEF Plan, PlanSegments
<1>2. Rows \subseteq Wanted
  BY <1>1 DEF Rows, Wanted, Matching, Committed, Selected
<1>3. ASSUME NEW f \in Wanted PROVE f \in Rows
  <2>1. PICK i \in 1..known : f \in FramesOf(segments[i])
    BY DEF Wanted, Matching, Committed
  <2>2. i \in 1..Len(segments)
    BY <1>0
  <2>3. /\ f.seq \in Nat /\ First(segments[i]).seq \in Nat /\ Last(segments[i]).seq \in Nat
        /\ First(segments[i]).seq =< f.seq /\ f.seq =< Last(segments[i]).seq
    BY <2>1, <2>2, SegmentBounds, QueryAssumption DEF Frame, Numbers
  <2>4. filter.from \in Nat /\ filter.to \in Nat /\ After(call.op) \in Nat
    BY QueryAssumption DEF TypeOK, Filter, Numbers, None, After
  <2>5. /\ filter.from # None => f.seq >= filter.from
        /\ filter.to # None => f.seq =< filter.to
        /\ After(call.op) # None => f.seq > After(call.op)
    BY DEF Wanted, Matching, Matches
  <2>6. MayMatch(segments[i], filter, After(call.op))
    BY <2>3, <2>4, <2>5 DEF MayMatch
  <2>7. i \in checked
    BY <2>6 DEF Plan, PlanSegments
  <2>8. QED
    BY <2>1, <2>7 DEF Rows, Wanted, Matching, Selected
<1>4. QED
  BY <1>2, <1>3
-----------------------------------------------------------------------------
(***************************************************************************)
(* Commits: what is stored grows at its end.                               *)
(***************************************************************************)
LEMMA CommitGrows ==
  ASSUME TypeOK, SegmentsOK, Commit
  PROVE  /\ segments' \in Seq(Seq(Frame))
         /\ Len(segments') = Len(segments) + 1 /\ Len(segments') =< MaxSegments
         /\ \A i \in 1..Len(segments) : segments'[i] = segments[i]
         /\ SegmentsOK'
         /\ \A f \in FramesOf(segments'[Len(segments')]) :
              f.seq \in Nat /\ f.seq > End(Len(segments))
         /\ End(Len(segments))' > End(Len(segments))
<1> DEFINE L == Len(segments)
<1>0. L \in Nat /\ Stored = End(L) /\ Stored \in 0..MaxFrames /\ MaxFrames \in Nat
  <2>1. L \in Nat /\ L \in 0..Len(segments)
    BY DEF TypeOK
  <2>2. QED
    BY <2>1, StoredIsEnd, EndType, QueryAssumption
<1>a. PICK n \in 1..(MaxFrames - Stored) :
        \E ts \in [1..n -> Times], kind \in [1..n -> Kinds] :
          segments' = Append(segments, [j \in 1..n |->
                        [seq |-> Stored + j, ts |-> ts[j], kind |-> kind[j]]])
  BY DEF Commit
<1>1. PICK ts \in [1..n -> Times], kind \in [1..n -> Kinds] :
        segments' = Append(segments, [j \in 1..n |->
                      [seq |-> Stored + j, ts |-> ts[j], kind |-> kind[j]]])
  BY <1>a
<1> DEFINE new == [j \in 1..n |->
                     [seq |-> Stored + j, ts |-> ts[j], kind |-> kind[j]]]
<1>2. n \in Nat /\ n >= 1 /\ Stored + n =< MaxFrames
  BY <1>0
<1>3. new \in Seq(Frame) /\ Len(new) = n
  <2>1. ASSUME NEW j \in 1..n
        PROVE  [seq |-> Stored + j, ts |-> ts[j], kind |-> kind[j]] \in Frame
    <3>1. Stored + j \in Numbers
      BY <1>0, <1>2 DEF Numbers
    <3>2. QED
      BY <3>1 DEF Frame
  <2>2. QED
    BY <1>2, <2>1
<1>4. \A j \in 1..n : new[j].seq = Stored + j
  OBVIOUS
<1> HIDE DEF new
<1>5. segments \in Seq(Seq(Frame)) /\ segments' = Append(segments, new)
  BY <1>1 DEF new, TypeOK
<1>6. /\ segments' \in Seq(Seq(Frame)) /\ Len(segments') = L + 1
      /\ \A i \in 1..L : segments'[i] = segments[i]
      /\ segments'[L + 1] = new
  BY <1>3, <1>5
<1>7. Len(segments') =< MaxSegments
  BY <1>0, <1>6, QueryAssumption DEF Commit
<1>8. First(new).seq = Stored + 1 /\ Last(new).seq = Stored + n
  BY <1>2, <1>3, <1>4 DEF First, Last
<1>9. SegmentsOK'
  <2>1. ASSUME NEW i \in 1..Len(segments') PROVE Len(segments'[i]) >= 1
    <3>1. i \in 1..L \/ i = L + 1
      BY <1>0, <1>6
    <3>2. QED
      BY <1>2, <1>3, <1>6, <3>1 DEF SegmentsOK
  <2>2. ASSUME NEW i \in 1..Len(segments'),
               NEW a \in 1..Len(segments'[i]), NEW b \in 1..Len(segments'[i]), a < b
        PROVE  segments'[i][a].seq < segments'[i][b].seq
    <3>1. i \in 1..L \/ i = L + 1
      BY <1>0, <1>6
    <3>2. CASE i \in 1..L
      BY <1>6, <2>2, <3>2 DEF SegmentsOK
    <3>3. CASE i = L + 1
      <4>1. a \in 1..n /\ b \in 1..n
        BY <1>3, <1>6, <3>3
      <4>2. new[a].seq = Stored + a /\ new[b].seq = Stored + b
        BY <1>4, <4>1
      <4>3. Stored + a < Stored + b
        BY <1>0, <1>2, <2>2, <4>1
      <4>4. QED
        BY <1>6, <3>3, <4>2, <4>3
    <3>4. QED
      BY <3>1, <3>2, <3>3
  <2>3. ASSUME NEW i \in 1..Len(segments'), NEW j \in 1..Len(segments'), i < j
        PROVE  Last(segments'[i]).seq < First(segments'[j]).seq
    <3>0. L \in Nat /\ i \in 1..(L + 1) /\ j \in 1..(L + 1)
      BY <1>0, <1>6
    <3>1. i \in 1..L /\ (j \in 1..L \/ j = L + 1)
      <4> HIDE DEF L
      <4>1. QED
        BY <2>3, <3>0
    <3>2. CASE j \in 1..L
      BY <1>6, <2>3, <3>1, <3>2 DEF SegmentsOK
    <3>3. CASE j = L + 1
      <4>1. End(i) = Last(segments[i]).seq
        BY <3>1 DEF End
      <4>2. i \in 0..L /\ L \in 0..L
        BY <1>0, <3>1
      <4>3. End(i) =< End(L) /\ End(i) \in Nat /\ End(L) \in Nat
        BY <1>0, <4>2, EndIsMonotone, EndType
      <4>4. First(segments'[j]).seq = Stored + 1 /\ segments'[i] = segments[i]
        BY <1>6, <1>8, <3>1, <3>3
      <4>5. QED
        BY <1>0, <4>1, <4>3, <4>4
    <3>4. QED
      BY <3>1, <3>2, <3>3
  <2>4. QED
    BY <2>1, <2>2, <2>3 DEF SegmentsOK
<1>10. ASSUME NEW f \in FramesOf(segments'[Len(segments')])
       PROVE  f.seq \in Nat /\ f.seq > End(L)
  <2>1. PICK j \in 1..n : f = new[j]
    BY <1>3, <1>6 DEF FramesOf
  <2>2. f.seq = Stored + j
    BY <1>4, <2>1
  <2>3. QED
    BY <1>0, <1>2, <2>2
<1>11. End(Len(segments))' > End(Len(segments))
  <2>1. End(Len(segments))' = Last(new).seq
    BY <1>0, <1>6 DEF End
  <2>2. QED
    BY <1>0, <1>2, <1>8, <2>1
<1>12. QED
  BY <1>6, <1>7, <1>9, <1>10, <1>11

\* Only a commit changes the segments, and only a new view the filter.
LEMMA StoreStep ==
  ASSUME [Next]_vars
  PROVE  Commit \/ segments' = segments
BY DEF Next, vars, storeVars, Register, Spoil, Validate, ValidateFails, OpenView,
   Resume, AskPage, AskAggregate, Snapshot, SnapshotFails, ScanFails, ScanPage,
   ScanSummary, ScanHistogram, Fail

LEMMA Growth ==
  ASSUME TypeOK, SegmentsOK, [Next]_vars
  PROVE  /\ segments' \in Seq(Seq(Frame)) /\ Len(segments') =< MaxSegments
         /\ SegmentsOK'
         /\ Len(segments') \in Nat /\ Len(segments) =< Len(segments')
         /\ \A i \in 1..Len(segments) : segments'[i] = segments[i]
         /\ \A i \in 1..Len(segments') \ 1..Len(segments) :
              \A f \in FramesOf(segments'[i]) :
                f.seq \in Nat /\ f.seq > End(Len(segments))
         /\ End(Len(segments)) =< End(Len(segments))'
<1>0. Len(segments) \in Nat /\ End(Len(segments)) \in Nat
  <2>1. Len(segments) \in Nat /\ Len(segments) \in 0..Len(segments)
    BY DEF TypeOK
  <2>2. QED
    BY <2>1, EndType, QueryAssumption
<1>1. CASE Commit
  <2>1. Len(segments') = Len(segments) + 1 /\ segments' \in Seq(Seq(Frame))
        /\ Len(segments') =< MaxSegments /\ SegmentsOK'
        /\ \A i \in 1..Len(segments) : segments'[i] = segments[i]
    BY <1>1, CommitGrows
  <2>2. \A i \in 1..Len(segments') \ 1..Len(segments) : i = Len(segments')
    BY <1>0, <2>1
  <2>3. \A f \in FramesOf(segments'[Len(segments')]) :
          f.seq \in Nat /\ f.seq > End(Len(segments))
    BY <1>1, CommitGrows
  <2>4. End(Len(segments)) < End(Len(segments))'
    BY <1>1, CommitGrows
  <2>5. Len(segments') \in Nat
    BY <1>0, <2>1
  <2>6. End(Len(segments))' \in Nat
    <3>1. Last(segments'[Len(segments')]) \in FramesOf(segments'[Len(segments')])
      <4>1. Len(segments') \in 1..Len(segments')
        BY <1>0, <2>1
      <4>2. segments'[Len(segments')] \in Seq(Frame)
            /\ Len(segments'[Len(segments')]) >= 1
        BY <2>1, <4>1 DEF SegmentsOK
      <4>3. QED
        BY <4>2 DEF Last, FramesOf
    <3>2. QED
      BY <1>0, <2>1, <2>3, <3>1 DEF End
  <2>7. QED
    BY <1>0, <2>1, <2>2, <2>3, <2>4, <2>5, <2>6
<1>2. CASE segments' = segments
  BY <1>0, <1>2 DEF TypeOK, SegmentsOK, End
<1>3. QED
  BY <1>1, <1>2, StoreStep

\* The first n segments stay what they are.
LEMMA PrefixKept ==
  ASSUME TypeOK, SegmentsOK, [Next]_vars, NEW n \in 0..Len(segments)
  PROVE  Committed(n)' = Committed(n) /\ End(n)' = End(n)
<1>1. \A i \in 1..n : segments'[i] = segments[i]
  <2>1. 1..n \subseteq 1..Len(segments)
    BY DEF TypeOK
  <2>2. QED
    BY <2>1, Growth
<1>2. Committed(n)' = Committed(n)
  BY <1>1 DEF Committed
<1>3. n = 0 \/ n \in 1..n
  OBVIOUS
<1>4. QED
  BY <1>1, <1>2, <1>3 DEF End

\* What matches up to a number that is stored stays what it is.
LEMMA StoredKept ==
  ASSUME TypeOK, SegmentsOK, [Next]_vars, NEW r \in Nat, r =< End(Len(segments)),
         filter' = filter
  PROVE  {f \in Matching(Len(segments)) : f.seq =< r}'
           = {f \in Matching(Len(segments)) : f.seq =< r}
<1> DEFINE L == Len(segments)
<1>0. L \in Nat /\ L \in 0..Len(segments) /\ End(L) \in Nat
  <2>1. L \in Nat /\ L \in 0..Len(segments)
    BY DEF TypeOK
  <2>2. QED
    BY <2>1, EndType, QueryAssumption
<1>1. /\ Len(segments') \in Nat /\ L =< Len(segments')
      /\ \A i \in 1..L : segments'[i] = segments[i]
      /\ \A i \in 1..Len(segments') \ 1..L : \A f \in FramesOf(segments'[i]) :
           f.seq \in Nat /\ f.seq > End(L)
  BY Growth
<1>2. Committed(L) \subseteq Committed(Len(segments))'
  <2>1. 1..L \subseteq 1..Len(segments')
    BY <1>0, <1>1
  <2>2. QED
    BY <1>1, <2>1 DEF Committed
<1>3. ASSUME NEW f \in Committed(Len(segments))', f.seq =< r
      PROVE  f \in Committed(L)
  <2>1. PICK i \in 1..Len(segments') : f \in FramesOf(segments'[i])
    BY DEF Committed
  <2>2. i \in 1..L
    <3>1. SUFFICES ASSUME i \notin 1..L PROVE FALSE
      OBVIOUS
    <3>2. f.seq \in Nat /\ f.seq > End(L)
      BY <1>1, <2>1, <3>1
    <3>3. QED
      BY <1>0, <1>3, <3>2
  <2>3. QED
    BY <1>1, <2>1, <2>2 DEF Committed
<1>4. \A f : Matches(f, filter)' = Matches(f, filter)
  BY DEF Matches
<1>5. QED
  BY <1>2, <1>3, <1>4 DEF Matching, Matches
-----------------------------------------------------------------------------
(***************************************************************************)
(* Type correctness.                                                       *)
(***************************************************************************)
Calls == [at : {"idle", "snapshot", "validate"},
          op : {"none", "page", "summary", "histogram"}, top : TopNs \cup {0}]

LEMMA InitTypeOK == Init => TypeOK
<1> SUFFICES ASSUME Init PROVE TypeOK
  OBVIOUS
<1>1. segments \in Seq(Seq(Frame)) /\ Len(segments) =< MaxSegments
  BY QueryAssumption DEF Init
<1>2. files \in [Segments -> {"whole", "missing", "foreign"}]
  BY DEF Init
<1>3. call \in Calls
  BY DEF Init, Idle, Calls
<1>4. known \in 0..MaxSegments /\ checked \subseteq Segments
  BY QueryAssumption DEF Init
<1>5. QED
  BY <1>1, <1>2, <1>3, <1>4 DEF Init, TypeOK, Calls

\* What is scanned are frames.
LEMMA RowsType ==
  ASSUME TypeOK, CallOK, call.at = "validate"
  PROVE  Rows \subseteq Frame /\ \A f \in Rows : f.seq \in Numbers
<1>1. \A i \in checked : i \in 1..Len(segments)
  BY DEF CallOK, Plan, PlanSegments, TypeOK
<1>2. \A i \in checked : segments[i] \in Seq(Frame)
  BY <1>1 DEF TypeOK
<1>3. Rows \subseteq Frame
  BY <1>2 DEF Rows, FramesOf
<1>4. QED
  BY <1>3 DEF Frame

\* What a complete page accounts for.
LEMMA KnownEnd ==
  ASSUME TypeOK, SegmentsOK, CallOK
  PROVE  (IF known = 0 THEN 0 ELSE Last(segments[known]).seq) \in Numbers \cup {0}
<1>1. known \in 0..Len(segments)
  BY DEF TypeOK, CallOK
<1>2. known # 0 => known \in 1..Len(segments)
  BY <1>1
<1>3. QED
  BY <1>2, SegmentEnds

LEMMA NextTypeOK ==
  TypeOK /\ SegmentsOK /\ CallOK /\ [Next]_vars => TypeOK'
<1> SUFFICES ASSUME TypeOK, SegmentsOK, CallOK, [Next]_vars PROVE TypeOK'
  OBVIOUS
<1>0. segments' \in Seq(Seq(Frame)) /\ Len(segments') =< MaxSegments
  BY Growth
<1>1. registered' \in BOOLEAN
  BY DEF Next, vars, storeVars, Register, Commit, Spoil, Validate, ValidateFails,
     OpenView, Resume, AskPage, AskAggregate, Snapshot, SnapshotFails, ScanFails,
     ScanPage, ScanSummary, ScanHistogram, Fail, TypeOK
<1>2. files' \in [Segments -> {"whole", "missing", "foreign"}]
  <2>1. \/ files' = files
        \/ \E i \in Segments, what \in {"missing", "foreign"} :
             files' = [files EXCEPT ![i] = what]
    BY DEF Next, vars, storeVars, Register, Commit, Spoil, Validate, ValidateFails,
       OpenView, Resume, AskPage, AskAggregate, Snapshot, SnapshotFails, ScanFails,
       ScanPage, ScanSummary, ScanHistogram, Fail
  <2>2. QED
    BY <2>1 DEF TypeOK
<1>3. call' \in Calls
  <2>1. \/ call' = call \/ call' = Idle
        \/ \E op \in {"page", "summary", "histogram"}, top \in TopNs \cup {0} :
             call' = [at |-> "snapshot", op |-> op, top |-> top]
        \/ call' = [call EXCEPT !.at = "validate"]
    BY DEF Next, vars, storeVars, Register, Commit, Spoil, Validate, ValidateFails,
       OpenView, Resume, AskPage, AskAggregate, Snapshot, SnapshotFails, ScanFails,
       ScanPage, ScanSummary, ScanHistogram, Fail
  <2>2. call \in Calls
    BY DEF TypeOK, Calls
  <2>3. QED
    BY <2>1, <2>2 DEF Calls, Idle
<1>4. filter' \in Filters /\ limit' \in Limits
  BY DEF Next, vars, viewVars, Register, Commit, Spoil, Validate, ValidateFails,
     OpenView, Resume, AskPage, AskAggregate, Snapshot, SnapshotFails, ScanFails,
     ScanPage, ScanSummary, ScanHistogram, Fail, TypeOK
<1>5. known' \in 0..MaxSegments /\ checked' \subseteq Segments
  <2>1. \/ known' = known /\ checked' = checked
        \/ known' \in {0, Len(segments)} /\ checked' = {}
        \/ known' = known /\ \E i \in Segments : checked' = checked \cup {i}
    BY DEF Next, vars, Register, Commit, Spoil, Validate, ValidateFails,
       OpenView, Resume, AskPage, AskAggregate, Snapshot, SnapshotFails, ScanFails,
       ScanPage, ScanSummary, ScanHistogram, Fail
  <2>2. Len(segments) \in 0..MaxSegments /\ 0 \in 0..MaxSegments
    BY QueryAssumption DEF TypeOK
  <2>3. QED
    BY <2>1, <2>2 DEF TypeOK
<1>6. CASE ScanPage
  <2>1. page' \subseteq Frame /\ \A f \in page' : f.seq \in Numbers
    BY <1>6, RowsType DEF ScanPage, ScanReady
  <2>2. delivered' \subseteq Frame
    BY <1>6, <2>1 DEF ScanPage, TypeOK
  <2>3. cursor' \in Numbers \cup {None} /\ reached' \in Numbers \cup {0}
    <3>1. CASE page' # Rows
      <4>1. PICK f \in page' : cursor' = f.seq /\ reached' = f.seq
        BY <1>6, <3>1 DEF ScanPage
      <4>2. QED
        BY <2>1, <4>1
    <3>2. CASE page' = Rows
      <4>1. cursor' = None
            /\ reached' = IF known = 0 THEN 0 ELSE Last(segments[known]).seq
        BY <1>6, <3>2 DEF ScanPage
      <4>2. QED
        BY <4>1, KnownEnd
    <3>3. QED
      BY <3>1, <3>2
  <2>4. QED
    BY <1>0, <1>1, <1>2, <1>3, <1>4, <1>5, <2>1, <2>2, <2>3 DEF TypeOK, Calls
<1>7. CASE Resume
  <2>1. PICK f \in delivered : cursor' = f.seq
    BY <1>7 DEF Resume
  <2>2. cursor' \in Numbers \cup {None}
    BY <2>1 DEF TypeOK, Frame
  <2>3. UNCHANGED <<page, delivered, reached>>
    BY <1>7 DEF Resume
  <2>4. QED
    BY <1>0, <1>1, <1>2, <1>3, <1>4, <1>5, <2>2, <2>3 DEF TypeOK, Calls
<1>8. CASE ~ScanPage /\ ~Resume
  <2>1. /\ cursor' = cursor \/ cursor' = None
        /\ page' = page \/ page' = {}
        /\ delivered' = delivered \/ delivered' = {}
        /\ reached' = reached \/ reached' = 0
    BY <1>8 DEF Next, vars, viewVars, Register, Commit, Spoil, Validate,
       ValidateFails, OpenView, AskPage, AskAggregate, Snapshot, SnapshotFails,
       ScanFails, ScanSummary, ScanHistogram, Fail
  <2>2. QED
    BY <1>0, <1>1, <1>2, <1>3, <1>4, <1>5, <2>1 DEF TypeOK, Calls
<1>9. QED
  BY <1>6, <1>7, <1>8
-----------------------------------------------------------------------------
(***************************************************************************)
(* The call, the cursor and the answers' snapshots.                        *)
(***************************************************************************)
\* What a call that is validated changes nothing of: the plan it works on.
LEMMA PlanKept ==
  ASSUME TypeOK, SegmentsOK, CallOK, [Next]_vars, known' = known, filter' = filter,
         cursor' = cursor, call' = call
  PROVE  Plan' = Plan
<1>1. \A i \in 1..known : segments'[i] = segments[i]
  <2>1. 1..known \subseteq 1..Len(segments)
    BY DEF TypeOK, CallOK
  <2>2. QED
    BY <2>1, Growth
<1>2. QED
  BY <1>1 DEF Plan, PlanSegments, MayMatch, After

LEMMA NextCallOK ==
  TypeOK /\ SegmentsOK /\ CallOK /\ CursorOK /\ [Next]_vars => CallOK'
<1> SUFFICES ASSUME TypeOK, SegmentsOK, CallOK, CursorOK, [Next]_vars PROVE CallOK'
  OBVIOUS
<1>0. /\ Len(segments) \in Nat /\ Len(segments') \in Nat
      /\ Len(segments) =< Len(segments') /\ known \in 0..Len(segments)
  BY Growth DEF TypeOK, CallOK
<1>1. CASE Snapshot
  <2>1. known' = Len(segments) /\ checked' = {} /\ segments' = segments
        /\ call'.op = call.op /\ UNCHANGED <<cursor, delivered, reached>>
    BY <1>1 DEF Snapshot, storeVars, viewVars, TypeOK
  <2>2. End(known)' = End(Len(segments))
    BY <2>1 DEF End
  <2>3. QED
    BY <1>0, <2>1, <2>2 DEF CallOK, CursorOK
<1>2. ASSUME call'.at # "validate", known' \in {0, known},
             call'.op = "page" /\ cursor' = None => delivered' = {}
      PROVE  CallOK'
  <2>1. known' \in Nat /\ known' =< Len(segments')
    BY <1>0, <1>2
  <2>2. QED
    BY <1>2, <2>1 DEF CallOK
<1>3. CASE Fail \/ ScanPage \/ ScanSummary \/ ScanHistogram
  BY <1>2, <1>3 DEF Fail, ScanPage, ScanSummary, ScanHistogram, Idle
<1>4. CASE OpenView \/ Resume
  BY <1>2, <1>4 DEF OpenView, Resume, Idle
<1>5. CASE AskPage
  <2>1. call' = [at |-> "snapshot", op |-> "page", top |-> 0]
        /\ UNCHANGED <<cursor, delivered, known>> /\ (cursor = None => delivered = {})
    BY <1>5 DEF AskPage
  <2>2. QED
    BY <1>2, <2>1
<1>6. ASSUME NEW op \in {"summary", "histogram"}, NEW top, AskAggregate(op, top)
      PROVE  CallOK'
  <2>1. call' = [at |-> "snapshot", op |-> op, top |-> top] /\ known' = known
    BY <1>6 DEF AskAggregate
  <2>2. QED
    BY <1>2, <2>1
<1>7. ASSUME UNCHANGED <<call, filter, cursor, delivered, reached, known>>,
             checked' = checked \/ \E i \in Plan : checked' = checked \cup {i}
      PROVE  CallOK'
  <2>1. Plan' = Plan /\ End(known)' = End(known)
    BY <1>0, <1>7, PlanKept, PrefixKept
  <2>2. QED
    BY <1>0, <1>7, <2>1 DEF CallOK
<1>8. CASE Register \/ Commit \/ UNCHANGED vars \/ \E i \in Segments : Spoil(i) \/ Validate(i)
  BY <1>7, <1>8 DEF Register, Commit, Spoil, Validate, vars, viewVars
<1>9. QED
  BY <1>1, <1>3, <1>4, <1>5, <1>6, <1>8
  DEF Next, SnapshotFails, ScanFails, ValidateFails

LEMMA NextAnswersOK ==
  TypeOK /\ SegmentsOK /\ CallOK /\ AnswersOK /\ [Next]_vars => AnswersOK'
<1> SUFFICES ASSUME TypeOK, SegmentsOK, CallOK, AnswersOK, [Next]_vars
    PROVE  AnswersOK'
  OBVIOUS
<1>0. /\ Len(segments) \in Nat /\ Len(segments') \in Nat
      /\ Len(segments) =< Len(segments') /\ known \in 0..Len(segments)
  BY Growth DEF TypeOK, CallOK
<1>1. 0..Len(segments) \subseteq 0..Len(segments')
  BY <1>0
<1>2. /\ summary' \in {summary, <<>>} \/ \E a : summary' = <<known, a>>
      /\ histogram' \in {histogram, <<>>} \/ \E a, b : histogram' = <<known, a, b>>
  BY DEF Next, vars, answerVars, Register, Commit, Spoil, Validate, ValidateFails,
     OpenView, Resume, AskPage, AskAggregate, Snapshot, SnapshotFails, ScanFails,
     ScanPage, ScanSummary, ScanHistogram, Fail
<1>3. QED
  BY <1>0, <1>1, <1>2 DEF AnswersOK
-----------------------------------------------------------------------------
(***************************************************************************)
(* The pages.                                                              *)
(***************************************************************************)
\* What the pages account for, up to a number.
UpTo(r) == {f \in Matching(Len(segments)) : f.seq =< r}

\* A page that was cut off accounts for everything up to its newest frame, and
\* a final one for everything its call knew.
LEMMA PageIsExact ==
  ASSUME IInv, ScanPage
  PROVE  /\ delivered' = UpTo(reached')
         /\ reached' =< End(Len(segments))
         /\ cursor' # None =>
              cursor' = reached' /\ \A f \in delivered' : f.seq =< cursor'
         /\ \A f \in page', g \in delivered : g.seq < f.seq
<1>0. /\ TypeOK /\ SegmentsOK /\ CallOK /\ CursorOK
      /\ delivered = UpTo(reached)
  BY DEF IInv, PagesAreExact, UpTo
<1>1. /\ known \in 0..Len(segments) /\ Len(segments) \in 0..Len(segments)
      /\ known \in Nat /\ Len(segments) \in Nat
  BY <1>0 DEF TypeOK, CallOK
<1>2. /\ End(known) \in Nat /\ End(Len(segments)) \in Nat
      /\ End(known) =< End(Len(segments)) /\ reached =< End(known)
      /\ reached \in Nat /\ cursor \in Nat
  <2>1. End(known) \in 0..MaxFrames /\ End(Len(segments)) \in 0..MaxFrames
    BY <1>0, <1>1, EndType
  <2>2. End(known) =< End(Len(segments))
    BY <1>0, <1>1, EndIsMonotone
  <2>3. reached =< End(known)
    BY <1>0 DEF CallOK, ScanPage, ScanReady
  <2>4. reached \in Nat /\ cursor \in Nat
    BY <1>0, QueryAssumption DEF TypeOK, Numbers, None
  <2>5. QED
    BY <2>1, <2>2, <2>3, <2>4, QueryAssumption
<1>3. \A f \in Matching(Len(segments)) :
        f.seq \in Nat /\ f.seq >= 1 /\ (f \in Matching(known) <=> f.seq =< End(known))
  <2>1. SUFFICES ASSUME NEW f \in Matching(Len(segments))
                 PROVE  /\ f.seq \in Nat /\ f.seq >= 1
                        /\ f \in Matching(known) <=> f.seq =< End(known)
    OBVIOUS
  <2>2. f \in Committed(Len(segments)) /\ Matches(f, filter)
    BY DEF Matching
  <2>3. f.seq \in Numbers /\ (f \in Committed(known) <=> f.seq =< End(known))
    BY <1>0, <1>1, <2>2, CommittedUpTo
  <2>4. QED
    BY <2>2, <2>3, QueryAssumption DEF Matching, Numbers
<1>4. Matching(known) \subseteq Matching(Len(segments))
  BY <1>1 DEF Matching, Committed
<1>5. Rows = {f \in Matching(known) : cursor # None => f.seq > cursor}
  <2>1. checked = Plan
    BY <1>0 DEF CallOK, ScanPage, ScanReady
  <2>2. Rows = Wanted
    BY <1>0, <2>1, RowsAreWanted DEF CallOK
  <2>3. After(call.op) = cursor
    BY DEF ScanPage, After
  <2>4. QED
    BY <2>2, <2>3 DEF Wanted
<1>6. \A f \in delivered : cursor # None /\ f.seq =< cursor
  BY <1>0 DEF CallOK, CursorOK, ScanPage
<1>7. \A f \in Matching(Len(segments)) :
        cursor # None /\ f.seq =< cursor => f \in delivered
  BY <1>0, <1>2, <1>3 DEF CursorOK, UpTo
<1>8. page' \subseteq Rows /\ delivered' = delivered \cup page'
  BY DEF ScanPage
<1>9. ASSUME NEW f \in page', NEW g \in delivered PROVE g.seq < f.seq
  <2>1. f \in Matching(Len(segments)) /\ f.seq > cursor
    BY <1>4, <1>5, <1>6, <1>8
  <2>2. g.seq =< cursor /\ g \in Matching(Len(segments))
    BY <1>0, <1>6 DEF UpTo
  <2>3. QED
    BY <1>2, <1>3, <2>1, <2>2
<1>10. CASE page' = Rows
  <2>1. cursor' = None /\ reached' = End(known)
    BY <1>10 DEF ScanPage, End
  <2>2. ASSUME NEW f \in UpTo(End(known)) PROVE f \in delivered'
    <3>1. f \in Matching(Len(segments)) /\ f \in Matching(known)
      BY <1>3 DEF UpTo
    <3>2. CASE cursor # None /\ f.seq =< cursor
      BY <1>7, <1>8, <3>1, <3>2
    <3>3. CASE ~(cursor # None /\ f.seq =< cursor)
      <4>1. cursor # None => f.seq > cursor
        BY <1>2, <1>3, <3>1, <3>3
      <4>2. QED
        BY <1>5, <1>8, <1>10, <3>1, <4>1
    <3>4. QED
      BY <3>2, <3>3
  <2>3. ASSUME NEW f \in delivered' PROVE f \in UpTo(End(known))
    <3>1. CASE f \in delivered
      <4>1. f \in Matching(Len(segments)) /\ f.seq =< reached
        BY <1>0, <3>1 DEF UpTo
      <4>2. f.seq =< End(known)
        BY <1>2, <1>3, <4>1
      <4>3. QED
        BY <4>1, <4>2 DEF UpTo
    <3>2. CASE f \in page'
      <4>1. f \in Matching(known) /\ f \in Matching(Len(segments))
        BY <1>4, <1>5, <1>8, <3>2
      <4>2. QED
        BY <1>3, <4>1 DEF UpTo
    <3>3. QED
      BY <1>8, <3>1, <3>2
  <2>4. delivered' = UpTo(End(known))
    BY <2>2, <2>3
  <2>5. QED
    BY <1>2, <1>9, <2>1, <2>4
<1>11. CASE page' # Rows
  <2>1. PICK m \in page' : IsNewest(m, page') /\ cursor' = m.seq /\ reached' = m.seq
    BY <1>11 DEF ScanPage
  <2>2. \A f \in page' : f.seq =< m.seq
    BY <2>1 DEF IsNewest
  <2>3. \A f \in page', g \in Rows \ page' : f.seq < g.seq
    BY <1>11 DEF ScanPage, IsHead
  <2>4. m \in Matching(Len(segments)) /\ m \in Matching(known) /\ m.seq \in Nat
        /\ m.seq =< End(known) /\ m.seq >= 1
    BY <1>3, <1>4, <1>5, <1>8, <2>1
  <2>5. ASSUME NEW f \in UpTo(m.seq) PROVE f \in delivered'
    <3>1. f \in Matching(Len(segments)) /\ f.seq =< m.seq /\ f.seq \in Nat
      BY <1>3 DEF UpTo
    <3>2. CASE cursor # None /\ f.seq =< cursor
      BY <1>7, <1>8, <3>1, <3>2
    <3>3. CASE ~(cursor # None /\ f.seq =< cursor)
      <4>1. cursor # None => f.seq > cursor
        BY <1>2, <3>1, <3>3
      <4>2. f.seq =< End(known)
        BY <1>2, <2>4, <3>1
      <4>3. f \in Rows
        BY <1>3, <1>5, <3>1, <4>1, <4>2
      <4>4. ~(m.seq < f.seq)
        BY <2>4, <3>1
      <4>5. QED
        BY <1>8, <2>1, <2>3, <4>3, <4>4
    <3>4. QED
      BY <3>2, <3>3
  <2>6. ASSUME NEW f \in delivered' PROVE f \in Matching(Len(segments)) /\ f.seq =< m.seq
    <3>1. CASE f \in delivered
      <4>1. f \in Matching(Len(segments)) /\ f.seq < m.seq
        BY <1>0, <1>9, <2>1, <3>1 DEF UpTo
      <4>2. QED
        BY <1>3, <2>4, <4>1
    <3>2. CASE f \in page'
      BY <1>4, <1>5, <1>8, <2>2, <3>2
    <3>3. QED
      BY <1>8, <3>1, <3>2
  <2>7. delivered' = UpTo(m.seq)
    BY <2>5, <2>6 DEF UpTo
  <2>8. m.seq =< End(Len(segments))
    BY <1>2, <2>4
  <2>9. QED
    BY <1>9, <2>1, <2>6, <2>7, <2>8
<1>12. QED
  BY <1>10, <1>11

\* The steps that leave alone what the pages account for.
LEMMA AccountedKept ==
  ASSUME [Next]_vars, ~OpenView, ~ScanPage
  PROVE  /\ UNCHANGED <<filter, limit, delivered, reached>>
         /\ page' \in {page, {}}
         /\ Resume \/ cursor' = cursor
BY DEF Next, vars, viewVars, Register, Commit, Spoil, Validate, ValidateFails,
   Resume, AskPage, AskAggregate, Snapshot, SnapshotFails, ScanFails,
   ScanSummary, ScanHistogram, Fail

LEMMA NextPages == IInv /\ [Next]_vars => PagesAreExact' /\ CursorOK'
<1> SUFFICES ASSUME IInv, [Next]_vars PROVE PagesAreExact' /\ CursorOK'
  OBVIOUS
<1>0. /\ TypeOK /\ SegmentsOK /\ CursorOK /\ delivered = UpTo(reached)
      /\ reached \in Nat /\ cursor \in Nat
      /\ Len(segments) \in 0..Len(segments)
  BY QueryAssumption DEF IInv, PagesAreExact, UpTo, TypeOK, Numbers, None
<1>1. CASE OpenView
  <2>1. /\ segments' = segments /\ delivered' = {} /\ reached' = 0 /\ cursor' = None
    BY <1>1 DEF OpenView, storeVars
  <2>2. End(Len(segments))' = End(Len(segments)) /\ End(Len(segments)) \in 0..MaxFrames
    BY <1>0, <2>1, EndType DEF End
  <2>3. CursorOK'
    BY <2>1, <2>2, QueryAssumption DEF CursorOK
  <2>4. \A f \in Matching(Len(segments))' : f \in Committed(Len(segments))
    BY <2>1 DEF Matching, Committed
  <2>5. \A f \in Committed(Len(segments)) : f.seq \in Numbers
    BY <1>0, CommittedUpTo
  <2>6. \A f \in Matching(Len(segments))' : ~(f.seq =< 0)
    BY <2>4, <2>5, QueryAssumption DEF Numbers
  <2>7. QED
    BY <2>1, <2>3, <2>6 DEF PagesAreExact
<1>2. CASE ScanPage
  <2>1. /\ delivered' = UpTo(reached') /\ reached' =< End(Len(segments))
        /\ cursor' # None =>
             cursor' = reached' /\ \A f \in delivered' : f.seq =< cursor'
    BY <1>2, PageIsExact
  <2>2. segments' = segments /\ filter' = filter
    BY <1>2 DEF ScanPage, storeVars
  <2>3. PagesAreExact'
    BY <2>1, <2>2 DEF PagesAreExact, UpTo, Matching, Matches, Committed
  <2>4. End(Len(segments))' = End(Len(segments))
    BY <2>2 DEF End
  <2>5. cursor' # None => cursor' =< reached'
    <3>1. reached' \in Nat
      <4>1. TypeOK'
        BY NextTypeOK DEF IInv
      <4>2. QED
        BY <4>1, QueryAssumption DEF TypeOK, Numbers
    <3>2. QED
      BY <2>1, <3>1
  <2>6. QED
    BY <2>1, <2>3, <2>4, <2>5 DEF CursorOK
<1>3. CASE ~OpenView /\ ~ScanPage
  <2>1. UNCHANGED <<filter, limit, delivered, reached>> /\ (Resume \/ cursor' = cursor)
    BY <1>3, AccountedKept
  <2>2. UpTo(reached)' = UpTo(reached)
    <3>1. reached =< End(Len(segments))
      BY <1>0 DEF CursorOK
    <3>2. {f \in Matching(Len(segments)) : f.seq =< reached}'
            = {f \in Matching(Len(segments)) : f.seq =< reached}
      <4>1. \A r \in Nat : r =< End(Len(segments)) =>
              {f \in Matching(Len(segments))' : f.seq =< r}
                = {f \in Matching(Len(segments)) : f.seq =< r}
        BY <1>0, <2>1, StoredKept
      <4>2. QED
        BY <1>0, <2>1, <3>1, <4>1
    <3>3. QED
      BY <3>2 DEF UpTo
  <2>3. PagesAreExact'
    BY <1>0, <2>1, <2>2 DEF PagesAreExact, UpTo
  <2>4. reached' =< End(Len(segments))'
    <3>1. End(Len(segments)) \in Nat /\ End(Len(segments))' \in Nat
          /\ End(Len(segments)) =< End(Len(segments))'
      <4>1. End(Len(segments)) \in Nat
        BY <1>0, EndType, QueryAssumption
      <4>2. End(Len(segments)) =< End(Len(segments))'
        BY <1>0, Growth
      <4>3. End(Len(segments))' \in Nat
        <5>1. TypeOK' /\ SegmentsOK'
          BY <1>0, NextTypeOK, Growth DEF IInv
        <5>2. QED
          BY <5>1, StoredTypeNext
      <4>4. QED
        BY <4>1, <4>2, <4>3
    <3>2. QED
      BY <1>0, <2>1, <3>1 DEF CursorOK
  <2>5. CASE cursor' = cursor
    BY <1>0, <2>1, <2>3, <2>4, <2>5 DEF CursorOK
  <2>6. CASE Resume
    <3>1. PICK f \in delivered : IsNewest(f, delivered) /\ cursor' = f.seq
      BY <2>6 DEF Resume
    <3>2. f.seq =< reached /\ \A g \in delivered : g.seq =< f.seq
      BY <1>0, <3>1 DEF IsNewest, UpTo
    <3>3. QED
      BY <2>1, <2>3, <2>4, <3>1, <3>2 DEF CursorOK
  <2>7. QED
    BY <2>1, <2>5, <2>6
<1>4. QED
  BY <1>1, <1>2, <1>3
-----------------------------------------------------------------------------
(***************************************************************************)
(* The aggregates.                                                         *)
(***************************************************************************)
\* An aggregate has no cursor: its call scans every matching frame it knows.
LEMMA AggregateRows ==
  ASSUME TypeOK, SegmentsOK, CallOK, ScanReady, call.op # "page"
  PROVE  Rows = Matching(known)
<1>1. checked = Plan /\ known =< Len(segments)
  BY DEF CallOK, ScanReady
<1>2. Rows = Wanted
  BY <1>1, RowsAreWanted
<1>3. QED
  BY <1>2 DEF Wanted, After

LEMMA NextAggregates ==
  IInv /\ [Next]_vars => AggregatesCoverSnapshot'
<1> SUFFICES ASSUME IInv, [Next]_vars PROVE AggregatesCoverSnapshot'
  OBVIOUS
<1>0. TypeOK /\ SegmentsOK /\ CallOK /\ AnswersOK /\ AggregatesCoverSnapshot
  BY DEF IInv
<1>1. ASSUME NEW n \in 0..Len(segments), filter' = filter
      PROVE  /\ summary'[1] = n => Matching(summary[1])' = Matching(n)
             /\ histogram'[1] = n => Matching(histogram[1])' = Matching(n)
  <2>1. Committed(n)' = Committed(n)
    BY <1>0, PrefixKept
  <2>2. /\ summary'[1] = n => Committed(summary[1])' = Committed(n)'
        /\ histogram'[1] = n => Committed(histogram[1])' = Committed(n)'
    BY DEF Committed
  <2>3. QED
    BY <1>1, <2>1, <2>2 DEF Matching, Matches
\* An answer in the next state is about what matches in it.
<1>2. Aggregate(Matching(summary[1]))' = Aggregate(Matching(summary[1])')
  BY DEF Aggregate
<1>3. IsHistogram(histogram[3], Matching(histogram[1]), histogram[2])'
        <=> IsHistogram(histogram'[3], Matching(histogram[1])', histogram'[2])
  BY DEF IsHistogram, Present, Group, Precedes
<1>4. known \in 0..Len(segments)
  BY <1>0 DEF TypeOK, CallOK
<1>5. ASSUME filter' = filter, summary' = summary, summary # <<>>
      PROVE  summary'[2] = Aggregate(Matching(summary[1]))'
  <2>1. summary[1] \in 0..Len(segments) /\ summary[2] = Aggregate(Matching(summary[1]))
    BY <1>0, <1>5 DEF AnswersOK, AggregatesCoverSnapshot
  <2>2. PICK n \in 0..Len(segments) : n = summary[1]
    BY <2>1
  <2>3. Matching(summary[1])' = Matching(n)
    BY <1>1, <1>5, <2>2
  <2>4. summary[2] = Aggregate(Matching(n))
    BY <2>1, <2>2
  <2>5. QED
    BY <1>2, <1>5, <2>3, <2>4
<1>6. ASSUME filter' = filter, histogram' = histogram, histogram # <<>>
      PROVE  IsHistogram(histogram[3], Matching(histogram[1]), histogram[2])'
  <2>1. histogram[1] \in 0..Len(segments)
        /\ IsHistogram(histogram[3], Matching(histogram[1]), histogram[2])
    BY <1>0, <1>6 DEF AnswersOK, AggregatesCoverSnapshot
  <2>2. PICK n \in 0..Len(segments) : n = histogram[1]
    BY <2>1
  <2>3. Matching(histogram[1])' = Matching(n)
    BY <1>1, <1>6, <2>2
  <2>4. IsHistogram(histogram[3], Matching(n), histogram[2])
    BY <2>1, <2>2
  <2>5. QED
    BY <1>3, <1>6, <2>3, <2>4
<1>7. CASE ScanSummary
  <2>1. /\ summary' = <<known, Aggregate(Rows)>> /\ filter' = filter
        /\ histogram' = histogram /\ Rows = Matching(known)
    BY <1>0, <1>7, AggregateRows DEF ScanSummary, viewVars
  <2>2. summary'[2] = Aggregate(Matching(known)) /\ summary'[1] = known
    BY <2>1
  <2>3. Matching(summary[1])' = Matching(known)
    BY <1>1, <1>4, <2>1, <2>2
  <2>4. summary'[2] = Aggregate(Matching(summary[1]))'
    BY <1>2, <2>2, <2>3
  <2>5. QED
    BY <1>6, <2>1, <2>4 DEF AggregatesCoverSnapshot
<1>8. CASE ScanHistogram
  <2>1. PICK h : IsHistogram(h, Rows, call.top) /\ histogram' = <<known, call.top, h>>
    BY <1>8 DEF ScanHistogram
  <2>2. filter' = filter /\ summary' = summary /\ Rows = Matching(known)
    BY <1>0, <1>8, AggregateRows DEF ScanHistogram, viewVars
  <2>3. /\ histogram'[1] = known /\ histogram'[2] = call.top /\ histogram'[3] = h
    BY <2>1
  <2>4. Matching(histogram[1])' = Matching(known)
    BY <1>1, <1>4, <2>2, <2>3
  <2>5. IsHistogram(histogram'[3], Matching(histogram[1])', histogram'[2])
    BY <2>1, <2>2, <2>3, <2>4
  <2>6. QED
    BY <1>3, <1>5, <2>2, <2>5 DEF AggregatesCoverSnapshot
<1>9. CASE ~ScanSummary /\ ~ScanHistogram
  <2>1. \/ UNCHANGED <<filter, summary, histogram>>
        \/ summary' = <<>> /\ histogram' = <<>>
    BY <1>9 DEF Next, vars, viewVars, answerVars, Register, Commit, Spoil, Validate,
       ValidateFails, OpenView, Resume, AskPage, AskAggregate, Snapshot,
       SnapshotFails, ScanFails, ScanPage, Fail
  <2>2. CASE UNCHANGED <<filter, summary, histogram>>
    BY <1>5, <1>6, <2>2 DEF AggregatesCoverSnapshot
  <2>3. CASE summary' = <<>> /\ histogram' = <<>>
    BY <2>3 DEF AggregatesCoverSnapshot
  <2>4. QED
    BY <2>1, <2>2, <2>3
<1>10. QED
  BY <1>7, <1>8, <1>9
-----------------------------------------------------------------------------
(***************************************************************************)
(* The theorems.                                                           *)
(***************************************************************************)
LEMMA InitIInv == Init => IInv
<1> SUFFICES ASSUME Init PROVE IInv
  OBVIOUS
<1>1. TypeOK
  BY InitTypeOK
<1>2. SegmentsOK /\ CallOK /\ CursorOK /\ AnswersOK
  BY DEF Init, SegmentsOK, CallOK, CursorOK, AnswersOK, End, Idle, None
<1>3. PagesAreExact /\ AggregatesCoverSnapshot
  BY DEF Init, PagesAreExact, AggregatesCoverSnapshot, Matching, Committed
<1>4. QED
  BY <1>1, <1>2, <1>3 DEF IInv

LEMMA NextIInv == IInv /\ [Next]_vars => IInv'
<1> SUFFICES ASSUME IInv, [Next]_vars PROVE IInv'
  OBVIOUS
<1>1. TypeOK' /\ CallOK' /\ AnswersOK'
  BY NextTypeOK, NextCallOK, NextAnswersOK DEF IInv
<1>2. SegmentsOK'
  BY Growth DEF IInv
<1>3. PagesAreExact' /\ CursorOK' /\ AggregatesCoverSnapshot'
  BY NextPages, NextAggregates
<1>4. QED
  BY <1>1, <1>2, <1>3 DEF IInv

\* The invariant is inductive, and so holds of every reachable state: what the
\* properties below rest on.
THEOREM Invariant == Spec => []IInv
BY InitIInv, NextIInv, PTL DEF Spec

\* The state of the session, of the client's view and of the call in progress
\* has its type at all times; sequence numbers stay within the session's bound
\* (data/repository.py, query/service.py).
THEOREM TypeCorrect == Spec => []TypeOK
<1>1. IInv => TypeOK
  BY DEF IInv
<1>2. QED
  BY <1>1, Invariant, PTL

\* For every filter, page size and session: what a client has paged through is
\* the filter's answer up to the point it reached, whatever was committed or
\* lost and whatever failed meanwhile (query_frames).
THEOREM ExactPages == Spec => []PagesAreExact
<1>1. IInv => PagesAreExact
  BY DEF IInv
<1>2. QED
  BY <1>1, Invariant, PTL

\* For every filter and session: a summary and a histogram are those of every
\* matching frame of their snapshot (summarize, count_by_arbitration_id).
THEOREM ExactAggregates == Spec => []AggregatesCoverSnapshot
<1>1. IInv => AggregatesCoverSnapshot
  BY DEF IInv
<1>2. QED
  BY <1>1, Invariant, PTL

\* Each page lies beyond everything delivered before it (query_frames:
\* sequence > ?).
THEOREM AdvancingPages == Spec => PagesAdvance
<1>1. ASSUME IInv, [Next]_vars
      PROVE  [\A f \in page' \ page, g \in delivered : g.seq < f.seq]_vars
  <2>1. CASE ScanPage
    BY <1>1, <2>1, PageIsExact
  <2>2. CASE OpenView
    BY <2>2 DEF OpenView
  <2>3. CASE ~ScanPage /\ ~OpenView
    BY <1>1, <2>3, AccountedKept
  <2>4. QED
    BY <2>1, <2>2, <2>3
<1>2. IInv /\ [Next]_vars
        => [\A f \in page' \ page, g \in delivered : g.seq < f.seq]_vars
  BY <1>1
<1>3. QED
  BY <1>2, Invariant, PTL DEF Spec, PagesAdvance
=============================================================================
