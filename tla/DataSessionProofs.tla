-------------------------- MODULE DataSessionProofs ---------------------------
(***************************************************************************)
(* Theorems about DataSession, for every value of its constants.           *)
(*                                                                         *)
(* None of the safety properties is inductive alone.  What they rest on:   *)
(* the writer's memory agrees with the row in everything but the state     *)
(* (MemIsRow), the frames it has accepted are those durable and, behind    *)
(* them, those in its buffer (Joined), and each step of a commit knows     *)
(* what the steps before it left on the disk (Published, Clean).           *)
(***************************************************************************)
EXTENDS DataSession, SequenceTheorems, FiniteSetTheorems, TLAPS

Indexed == {s.index : s \in segments}

\* The counters of the writer's memory, and how far it has come.
Counters ==
  /\ mem.segments = 0 => mem.frames = 0 /\ mem.first = 0 /\ mem.last = 0
  /\ mem.segments > 0 => /\ mem.first > 0
                         /\ mem.first <= mem.last
                         /\ mem.frames = mem.last - mem.first + 1
                         /\ mem.segments <= mem.frames
  /\ mem.last <= appended
  /\ appended <= MaxSequence

\* The row differs from the writer's memory in the state at most.
MemIsRow ==
  /\ row.segments = mem.segments
  /\ row.frames = mem.frames
  /\ row.first = mem.first
  /\ row.last = mem.last

\* The buffer ends with the frame appended last and has no gap.
Buffered ==
  /\ Len(buffer) <= appended
  /\ \A i \in 1..Len(buffer) : buffer[i] = appended - Len(buffer) + i

\* What the writer may be doing in which state.
Phase ==
  /\ pc \in {"none", "insert"} =>
       /\ mem.state = "none"
       /\ mem.segments = 0
       /\ appended = 0
       /\ accepted = {}
  /\ pc \in {"write", "replace", "register"} =>
       /\ mem.state = "active"
       /\ Len(buffer) > 0
       /\ goal = "append" => Len(buffer) >= SegmentSize
  /\ pc = "decide" => mem.state = "active" /\ Len(buffer) = 0
  /\ pc = "mark" => mem.state = "active"

\* While nothing has failed, the buffer continues what is durable.
Undisturbed ==
  mem.state = "active" /\ pc \in {"idle", "write", "replace", "register", "decide"}

Joined ==
  Undisturbed =>
    /\ mem.segments > 0 => mem.last = appended - Len(buffer)
    /\ mem.segments = 0 /\ Len(buffer) = 0 => appended = 0
    /\ mem.segments = 0 => accepted = (appended - Len(buffer) + 1)..appended
    /\ mem.segments > 0 => accepted = mem.first..appended

\* The rows of the segments are a chain of that length.
Chained ==
  /\ \A s \in segments :
       /\ s.index < mem.segments
       /\ s.index = 0 => s.first = mem.first
       /\ s.index = mem.segments - 1 => s.last = mem.last
  /\ \A i \in Indices : i < mem.segments => \E s \in segments : s.index = i

DurableIs == Durable = IF mem.segments = 0 THEN {} ELSE mem.first..mem.last

Counted ==
  /\ IsFiniteSet(segments)
  /\ Cardinality(segments) = mem.segments

\* The writer knows of a completion, and had emptied its buffer.
Completion ==
  /\ row.state = "completed" <=> mem.state = "completed"
  /\ mem.state = "completed" => Durable = accepted

\* A file is registered with the frames just written to it.
Published == pc = "register" => files[mem.segments] = Chunk

\* What is on the disk at each step of a commit, if nothing has failed.
Clean ==
  /\ pc \in {"none", "insert"} => temporary = {} /\ Found = {}
  /\ mem.state = "active" /\ pc \in {"idle", "write", "decide"} =>
       temporary = {} /\ Found = Indexed
  /\ pc = "replace" => temporary = {mem.segments} /\ Found = Indexed
  /\ pc = "register" => temporary = {} /\ Found = Indexed \cup {mem.segments}
  /\ mem.state = "completed" => temporary = {} /\ Found = Indexed

\* What an inspection has read is still there.
Inspected ==
  /\ inspection.known \subseteq Indexed
  /\ inspection.missing = {}
  /\ inspection.dead => pc = "over"
  /\ inspection.dead /\ inspection.at = "scan" => inspection.known = Indexed
  /\ inspection.dead => inspection.orphans \cap Indexed = {}

IInv ==
  /\ TypeOK
  /\ Counters
  /\ MemIsRow
  /\ Buffered
  /\ Phase
  /\ Joined
  /\ Chained
  /\ SegmentsReadable
  /\ SegmentsContiguous
  /\ DurableIs
  /\ Counted
  /\ Completion
  /\ Published
  /\ Clean
  /\ Inspected

-------------------------------------------------------------------------------
(* The frames a commit takes from the buffer. *)

LEMMA ChunkFacts ==
  ASSUME TypeOK, Buffered, Phase, pc \in {"write", "replace", "register"}
  PROVE  /\ Chunk \in Seq(Nat)
         /\ Rest \in Seq(Nat)
         /\ Len(Chunk) \in Nat /\ Len(Chunk) > 0
         /\ Len(Rest) \in Nat
         /\ Len(Chunk) + Len(Rest) = Len(buffer)
         /\ \A i \in 1..Len(Chunk) : Chunk[i] = appended - Len(buffer) + i
         /\ \A i \in 1..Len(Rest) : Rest[i] = appended - Len(Rest) + i
<1> USE SessionAssumption
<1>1. buffer \in Seq(Nat) /\ Len(buffer) \in Nat /\ appended \in Nat
  BY LenProperties DEF TypeOK
<1>2. CASE goal = "append"
  <2>1. Len(buffer) >= SegmentSize
    BY <1>2 DEF Phase
  <2>2. Chunk = SubSeq(buffer, 1, SegmentSize)
    BY <1>2 DEF Chunk
  <2>3. Rest = SubSeq(buffer, SegmentSize + 1, Len(buffer))
    BY <1>2 DEF Rest
  <2>4. /\ Chunk \in Seq(Nat)
        /\ Len(Chunk) = SegmentSize
        /\ \A i \in 1..SegmentSize : Chunk[i] = buffer[i]
    <3>1. \A i \in 1..SegmentSize : buffer[i] \in Nat
      BY <1>1, <2>1, ElementOfSeq
    <3> QED BY <1>1, <2>1, <2>2, <3>1, SubSeqProperties
  <2>5. /\ Rest \in Seq(Nat)
        /\ Len(Rest) = Len(buffer) - SegmentSize
        /\ \A i \in 1..(Len(buffer) - SegmentSize) : Rest[i] = buffer[SegmentSize + i]
    <3>1. \A i \in SegmentSize + 1..Len(buffer) : buffer[i] \in Nat
      BY <1>1, <2>1, ElementOfSeq
    <3> QED BY <1>1, <2>1, <2>3, <3>1, SubSeqProperties
  <2>6. /\ Len(Chunk) \in Nat /\ Len(Chunk) > 0 /\ Len(Rest) \in Nat
        /\ Len(Chunk) + Len(Rest) = Len(buffer)
    BY <1>1, <2>1, <2>4, <2>5
  <2>7. ASSUME NEW i \in 1..Len(Chunk)
        PROVE  Chunk[i] = appended - Len(buffer) + i
    <3>1. i \in 1..SegmentSize /\ i \in 1..Len(buffer)
      BY <1>1, <2>1, <2>4
    <3> QED BY <2>4, <3>1 DEF Buffered
  <2>8. ASSUME NEW i \in 1..Len(Rest)
        PROVE  Rest[i] = appended - Len(Rest) + i
    <3>1. /\ i \in 1..(Len(buffer) - SegmentSize)
          /\ SegmentSize + i \in 1..Len(buffer)
      BY <1>1, <2>1, <2>5
    <3>2. buffer[SegmentSize + i] = appended - Len(buffer) + (SegmentSize + i)
      BY <3>1 DEF Buffered
    <3>3. Rest[i] = buffer[SegmentSize + i]
      BY <2>5, <3>1
    <3>4. /\ Len(Rest) = Len(buffer) - SegmentSize
          /\ SegmentSize \in Nat /\ i \in Nat /\ Len(buffer) \in Nat /\ appended \in Nat
      BY <1>1, <2>1, <2>5
    <3> QED BY <3>2, <3>3, <3>4
  <2> QED BY <2>4, <2>5, <2>6, <2>7, <2>8
<1>3. CASE goal = "flush"
  <2>1. Chunk = buffer /\ Rest = <<>>
    BY <1>3 DEF Chunk, Rest
  <2>2. Rest \in Seq(Nat) /\ Len(Rest) = 0
    BY <2>1
  <2>3. Len(buffer) > 0
    BY DEF Phase
  <2>4. \A i \in 1..Len(Chunk) : Chunk[i] = appended - Len(buffer) + i
    BY <2>1 DEF Buffered
  <2>5. \A i \in 1..Len(Rest) : Rest[i] = appended - Len(Rest) + i
    BY <2>2
  <2> QED BY <1>1, <2>1, <2>2, <2>3, <2>4, <2>5
<1> QED BY <1>2, <1>3 DEF TypeOK

LEMMA NextIndex == ASSUME TypeOK, Counters PROVE mem.segments \in Indices
BY SessionAssumption DEF TypeOK, Counters, Indices, Aggregate

\* What the writer and its row know after a registration.
LEMMA RegisterFacts ==
  ASSUME IInv, Registers
  PROVE  /\ mem' \in Aggregate /\ row' = mem'
         /\ mem'.state = mem.state
         /\ mem'.segments = mem.segments + 1
         /\ mem'.first = IF mem.segments = 0 THEN appended - Len(buffer) + 1
                         ELSE mem.first
         /\ mem'.last = appended - Len(Rest)
         /\ mem'.frames = mem'.last - mem'.first + 1
         /\ mem'.segments <= mem'.frames
         /\ mem'.first > 0 /\ mem'.first <= mem'.last
<1> USE SessionAssumption
<1> DEFINE k == Len(Chunk)
<1>1. /\ mem \in Aggregate /\ appended \in Nat /\ Len(buffer) \in Nat
      /\ Len(buffer) <= appended
  BY LenProperties DEF IInv, TypeOK, Buffered
<1>2. /\ Chunk \in Seq(Nat)
      /\ Len(Rest) \in Nat /\ k \in Nat /\ k > 0 /\ k + Len(Rest) = Len(buffer)
      /\ \A i \in 1..k : Chunk[i] = appended - Len(buffer) + i
  BY ChunkFacts DEF IInv, Registers
<1>3. Chunk[1] = appended - Len(buffer) + 1 /\ Chunk[k] = appended - Len(Rest)
  <2>1. 1 \in 1..k /\ k \in 1..k
    BY <1>2
  <2>2. Chunk[1] = appended - Len(buffer) + 1
    BY <1>2, <2>1
  <2>3. Chunk[k] = appended - Len(buffer) + k
    BY <1>2, <2>1
  <2>4. k = Len(buffer) - Len(Rest)
    BY <1>1, <1>2
  <2> QED BY <1>1, <1>2, <2>2, <2>3, <2>4
<1>4. /\ mem' = Updated /\ row' = Updated
  BY DEF Registers
<1>5. /\ mem.state = "active" /\ pc = "register"
      /\ mem.segments > 0 => mem.last = appended - Len(buffer)
  BY DEF IInv, Joined, Undisturbed, Phase, Registers
<1>6. mem.segments \in Nat /\ mem.frames \in Nat /\ mem.first \in Nat
      /\ mem.last \in Nat /\ mem.state \in State
  BY <1>1 DEF Aggregate
<1>7. /\ mem.segments = 0 => mem.frames = 0 /\ mem.first = 0
      /\ mem.segments > 0 => /\ mem.first > 0
                             /\ mem.first <= mem.last
                             /\ mem.frames = mem.last - mem.first + 1
                             /\ mem.segments <= mem.frames
  BY DEF IInv, Counters
<1>8. /\ mem'.state = mem.state
      /\ mem'.segments = mem.segments + 1
      /\ mem'.first = IF mem.segments = 0 THEN appended - Len(buffer) + 1
                      ELSE mem.first
      /\ mem'.last = appended - Len(Rest)
      /\ mem'.frames = mem.frames + k
  BY <1>3, <1>4, <1>6, <1>7 DEF Updated
<1>9. /\ mem'.frames = mem'.last - mem'.first + 1
      /\ mem'.segments <= mem'.frames
      /\ mem'.first > 0 /\ mem'.first <= mem'.last
  <2>1. k \in Nat /\ k > 0 /\ Len(Rest) \in Nat /\ Len(buffer) \in Nat
        /\ k = Len(buffer) - Len(Rest) /\ appended \in Nat
        /\ Len(buffer) <= appended
    BY <1>1, <1>2
  <2> HIDE DEF k
  <2>2. CASE mem.segments = 0
    BY <2>1, <2>2, <1>7, <1>8
  <2>3. CASE mem.segments > 0
    <3>1. mem'.last = mem.last + k
      BY <2>1, <2>3, <1>5, <1>8
    <3>2. /\ mem'.first = mem.first /\ mem'.frames = mem.frames + k
          /\ mem'.segments = mem.segments + 1
      BY <2>3, <1>6, <1>8
    <3>3. /\ mem.first > 0
          /\ mem.first <= mem.last
          /\ mem.frames = mem.last - mem.first + 1
          /\ mem.segments <= mem.frames
      BY <2>3, <1>7
    <3> QED BY <2>1, <1>6, <3>1, <3>2, <3>3
  <2> QED BY <2>2, <2>3, <1>6
<1>10. mem' \in Aggregate
  <2>1. /\ Updated.state \in State /\ Updated.segments \in Nat
        /\ Updated.first \in Nat /\ Updated.last \in Nat /\ Updated.frames \in Nat
    <3>1. mem'.state \in State /\ mem'.segments \in Nat
      BY <1>6, <1>8
    <3>2. mem'.first \in Nat
      BY <1>1, <1>6, <1>8
    <3>3. mem'.last \in Nat
      <4>1. Len(Rest) <= appended
        BY <1>1, <1>2
      <4> QED BY <1>1, <1>2, <1>8, <4>1
    <3>4. mem'.frames \in Nat
      BY <1>2, <1>6, <1>8
    <3> QED BY <1>4, <3>1, <3>2, <3>3, <3>4
  <2>2. Updated = [state |-> Updated.state, frames |-> Updated.frames,
                   segments |-> Updated.segments, first |-> Updated.first,
                   last |-> Updated.last]
    BY DEF Updated
  <2> QED BY <1>4, <2>1, <2>2 DEF Aggregate
<1> QED BY <1>4, <1>8, <1>9, <1>10

-------------------------------------------------------------------------------
(* Each conjunct of the invariant is preserved by every step. *)

LEMMA InitInv == Init => IInv
<1> SUFFICES ASSUME Init PROVE IInv
  OBVIOUS
<1> USE SessionAssumption
<1>1. TypeOK
  <2>1. Blank \in Aggregate
    BY DEF Blank, Aggregate, State
  <2>2. NoInspection \in Inspection
    BY DEF NoInspection, Inspection
  <2>3. [i \in Indices |-> <<>>] \in [Indices -> Seq(Nat)]
    <3>1. <<>> \in Seq(Nat)
      OBVIOUS
    <3> QED BY <3>1
  <2>4. buffer \in Seq(Nat)
    BY DEF Init
  <2>5. files \in [Indices -> Seq(Nat)]
    BY <2>3 DEF Init
  <2> QED BY <2>1, <2>2, <2>4, <2>5 DEF Init, TypeOK
<1>2. segments = {} /\ Indexed = {} /\ Durable = {} /\ Found = {}
  <2>1. segments = {} /\ Indexed = {}
    BY DEF Init, Indexed
  <2>2. Durable = {}
    BY <2>1 DEF Durable
  <2>3. Found = {}
    BY DEF Init, Found
  <2> QED BY <2>1, <2>2, <2>3
<1>3. Counters /\ MemIsRow /\ Phase /\ Joined /\ Published
  BY DEF Init, Blank, Counters, MemIsRow, Phase, Joined, Undisturbed, Published
<1>7. Completion /\ DurableIs
  BY <1>2 DEF Init, Blank, Completion, DurableIs
<1>8. Clean
  BY <1>2 DEF Init, Clean
<1>9. Inspected
  BY <1>2 DEF Init, NoInspection, Inspected
<1>4. Buffered
  BY DEF Init, Buffered
<1>5. Chained /\ SegmentsReadable /\ SegmentsContiguous
  BY DEF Init, Blank, Chained, SegmentsReadable, SegmentsContiguous
<1>6. Counted
  BY <1>2, FS_EmptySet DEF Init, Blank, Counted
<1> QED BY <1>1, <1>3, <1>4, <1>5, <1>6, <1>7, <1>8, <1>9 DEF IInv

LEMMA AdvancedFacts ==
  ASSUME TypeOK, NEW s \in {"completed", "failed", "interrupted"}
  PROVE  /\ Advanced(s) \in Aggregate
         /\ Advanced(s).segments = row.segments
         /\ Advanced(s).frames = row.frames
         /\ Advanced(s).first = row.first
         /\ Advanced(s).last = row.last
         /\ Advanced(s).state = IF row.state = "active" THEN s ELSE row.state
BY DEF TypeOK, Advanced, Aggregate, State

LEMMA TypeStep == ASSUME IInv, [Next]_vars PROVE TypeOK'
<1> USE SessionAssumption
<1>0. TypeOK
  BY DEF IInv
<1>1. CASE StartDirectory
  BY <1>0, <1>1 DEF StartDirectory, TypeOK, databaseVars
<1>2. CASE StartInserts
  BY <1>0, <1>2 DEF StartInserts, TypeOK, projectVars, Aggregate, State
<1>3. CASE \E left \in BOOLEAN : StartFails(left)
  BY <1>0, <1>3 DEF StartFails, TypeOK, databaseVars
<1>4. ASSUME NEW first \in Numbers, NEW n \in 1..MaxBatch, AppendBatch(first, n)
      PROVE  TypeOK'
  <2>1. first \in Nat /\ n \in Nat /\ n > 0
    BY DEF Numbers
  <2>2. [i \in 1..n |-> first + i - 1] \in Seq(Nat)
    <3>1. \A i \in 1..n : first + i - 1 \in Nat
      BY <2>1 DEF Numbers
    <3> QED BY <2>1, <3>1, IsASeq
  <2>3. buffer' \in Seq(Nat)
    BY <1>0, <1>4, <2>2, ConcatProperties DEF AppendBatch, TypeOK
  <2>4. appended' \in Nat /\ accepted' \in SUBSET Nat
    BY <1>0, <1>4, <2>1 DEF AppendBatch, TypeOK, Numbers
  <2> QED BY <1>0, <1>4, <2>3, <2>4 DEF AppendBatch, TypeOK, projectVars, databaseVars
<1>5. CASE FlushPending
  BY <1>0, <1>5 DEF FlushPending, TypeOK, projectVars, databaseVars
<1>6. CASE WritesTemporary
  BY <1>0, <1>6, NextIndex DEF WritesTemporary, TypeOK, databaseVars, IInv, Index
<1>7. CASE Publishes
  <2>1. Chunk \in Seq(Nat)
    BY <1>7, ChunkFacts DEF Publishes, IInv
  <2> QED BY <1>0, <1>7, <2>1 DEF Publishes, TypeOK, databaseVars
<1>8. CASE \E left \in BOOLEAN : WriteFails(left)
  BY <1>0, <1>8, NextIndex DEF WriteFails, TypeOK, databaseVars, IInv, Index
<1>9. CASE Registers
  <2>1. mem' \in Aggregate /\ row' = mem'
    BY <1>9, RegisterFacts
  <2>2. /\ Chunk \in Seq(Nat) /\ Len(Chunk) \in Nat /\ Len(Chunk) > 0
        /\ Rest \in Seq(Nat)
    BY <1>9, ChunkFacts DEF Registers, IInv
  <2>3. Chunk[1] \in Nat /\ Chunk[Len(Chunk)] \in Nat
    BY <2>2, ElementOfSeq
  <2>4. NewSegment \in SegmentRow
    BY <2>2, <2>3, NextIndex DEF NewSegment, SegmentRow, Index, IInv
  <2>5. segments' \in SUBSET SegmentRow
    BY <1>0, <1>9, <2>4 DEF Registers, TypeOK
  <2>6. pc' \in {"decide", "write", "idle"}
    BY <1>9 DEF Registers
  <2> QED BY <1>0, <1>9, <2>1, <2>2, <2>5, <2>6 DEF Registers, TypeOK, projectVars
<1>10. CASE \E left \in BOOLEAN : RegistrationFails(left)
  <2>1. <<>> \in Seq(Nat)
    OBVIOUS
  <2> QED BY <1>0, <1>10, <2>1 DEF RegistrationFails, TypeOK, databaseVars
<1>11. CASE \E answers \in BOOLEAN : MarksFailed(answers)
  <2>1. row' \in Aggregate
    BY <1>0, <1>11, AdvancedFacts DEF MarksFailed, TypeOK
  <2>2. mem' \in Aggregate
    BY <1>0, <1>11 DEF MarksFailed, TypeOK, Aggregate, State
  <2> QED BY <1>0, <1>11, <2>1, <2>2 DEF MarksFailed, TypeOK, projectVars
<1>12. CASE CommitCompleted
  <2>1. row' \in Aggregate
    BY <1>0, <1>12, AdvancedFacts DEF CommitCompleted
  <2>2. mem' \in Aggregate /\ pc' \in {"idle", "mark"}
    BY <1>0, <1>12 DEF CommitCompleted, TypeOK, Aggregate, State
  <2> QED BY <1>0, <1>12, <2>1, <2>2 DEF CommitCompleted, TypeOK, projectVars
<1>13. CASE CommitFails
  BY <1>0, <1>13 DEF CommitFails, TypeOK, projectVars, databaseVars
<1>14. CASE Fail
  <2>1. <<>> \in Seq(Nat)
    OBVIOUS
  <2> QED BY <1>0, <1>14, <2>1 DEF Fail, TypeOK, projectVars, databaseVars
<1>15. CASE Crash
  <2>1. <<>> \in Seq(Nat)
    OBVIOUS
  <2> QED BY <1>0, <1>15, <2>1 DEF Crash, TypeOK, projectVars, databaseVars
<1>16. CASE FailActiveSession \/ Recover
  <2>1. row' \in Aggregate
    BY <1>0, <1>16, AdvancedFacts DEF FailActiveSession, Recover
  <2> QED BY <1>0, <1>16, <2>1 DEF FailActiveSession, Recover, TypeOK, projectVars,
        writerVars
<1>17. CASE InspectReads
  <2>1. {s.index : s \in segments} \in SUBSET Indices
    BY <1>0 DEF TypeOK, SegmentRow
  <2> QED BY <1>0, <1>17, <2>1 DEF InspectReads, TypeOK, Inspection, projectVars,
        databaseVars, writerVars
<1>18. CASE InspectScans
  BY <1>0, <1>18 DEF InspectScans, TypeOK, Inspection, Found, projectVars,
     databaseVars, writerVars
<1>19. CASE UNCHANGED vars
  BY <1>0, <1>19 DEF TypeOK, vars, projectVars, databaseVars, writerVars
<1> QED BY <1>1, <1>2, <1>3, <1>4, <1>5, <1>6, <1>7, <1>8, <1>9, <1>10, <1>11,
          <1>12, <1>13, <1>14, <1>15, <1>16, <1>17, <1>18, <1>19 DEF Next

\* The steps that leave the writer's memory, what it has appended and the row's
\* counters alone.
MemStands ==
  /\ appended' = appended
  /\ mem'.segments = mem.segments
  /\ mem'.frames = mem.frames
  /\ mem'.first = mem.first
  /\ mem'.last = mem.last
  /\ row'.segments = row.segments
  /\ row'.frames = row.frames
  /\ row'.first = row.first
  /\ row'.last = row.last
  /\ segments' = segments
  /\ accepted' = accepted

LEMMA MemStandsOrMoves ==
  ASSUME TypeOK, [Next]_vars
  PROVE  \/ MemStands
         \/ StartInserts
         \/ \E first \in Numbers, n \in 1..MaxBatch : AppendBatch(first, n)
         \/ Registers
<1>1. CASE \/ StartDirectory
           \/ \E left \in BOOLEAN : StartFails(left) \/ WriteFails(left)
                                      \/ RegistrationFails(left)
           \/ FlushPending \/ WritesTemporary \/ Publishes \/ CommitFails \/ Fail
           \/ Crash \/ InspectReads \/ InspectScans
  BY <1>1 DEF MemStands, StartDirectory, StartFails, WriteFails, RegistrationFails,
     FlushPending, WritesTemporary, Publishes, CommitFails, Fail, Crash,
     InspectReads, InspectScans, databaseVars, writerVars
<1>2. CASE \E answers \in BOOLEAN : MarksFailed(answers)
  <2>1. /\ mem'.segments = mem.segments
        /\ mem'.frames = mem.frames
        /\ mem'.first = mem.first
        /\ mem'.last = mem.last
    BY <1>2 DEF MarksFailed, TypeOK, Aggregate
  <2> QED BY <1>2, <2>1, AdvancedFacts DEF MarksFailed, MemStands
<1>3. CASE CommitCompleted
  <2>1. /\ mem'.segments = mem.segments
        /\ mem'.frames = mem.frames
        /\ mem'.first = mem.first
        /\ mem'.last = mem.last
    BY <1>3 DEF CommitCompleted, TypeOK, Aggregate
  <2> QED BY <1>3, <2>1, AdvancedFacts DEF CommitCompleted, MemStands
<1>4. CASE FailActiveSession \/ Recover
  BY <1>4, AdvancedFacts DEF FailActiveSession, Recover, writerVars, MemStands
<1>5. CASE UNCHANGED vars
  BY <1>5 DEF vars, databaseVars, writerVars, MemStands
<1> QED BY <1>1, <1>2, <1>3, <1>4, <1>5 DEF Next

LEMMA CountersStep ==
  ASSUME IInv, [Next]_vars PROVE Counters' /\ MemIsRow'
<1> USE SessionAssumption
<1>0. TypeOK /\ Counters /\ MemIsRow
  BY DEF IInv
<1>1. CASE MemStands
  BY <1>0, <1>1 DEF MemStands, Counters, MemIsRow
<1>2. CASE StartInserts
  BY <1>0, <1>2 DEF StartInserts, Counters, MemIsRow, TypeOK
<1>3. ASSUME NEW first \in Numbers, NEW n \in 1..MaxBatch, AppendBatch(first, n)
      PROVE  Counters' /\ MemIsRow'
  <2>1. mem' = mem /\ row' = row
    BY <1>3 DEF AppendBatch, databaseVars
  <2>2. appended' = first + n - 1 /\ appended' <= MaxSequence
        /\ (appended # 0 => first = appended + 1)
    BY <1>3 DEF AppendBatch, Continues
  <2>3. first \in Nat /\ n \in Nat /\ n > 0 /\ first > 0 /\ appended \in Nat
        /\ mem.last \in Nat
    BY <1>0 DEF Numbers, TypeOK, Aggregate
  <2>4. appended <= appended'
    BY <2>2, <2>3
  <2>5. mem.last <= appended'
    BY <1>0, <2>2, <2>3, <2>4 DEF Counters
  <2> QED BY <1>0, <2>1, <2>2, <2>5 DEF Counters, MemIsRow
<1>4. CASE Registers
  <2>1. appended' = appended /\ appended \in Nat
    BY <1>0, <1>4 DEF Registers, TypeOK
  <2>2. Len(Rest) \in Nat
    BY <1>4, ChunkFacts DEF Registers, IInv
  <2>3. mem'.last <= appended'
    BY <1>4, <2>1, <2>2, RegisterFacts
  <2>4. mem'.segments > 0
    <3>1. mem.segments \in Nat
      BY <1>0 DEF TypeOK, Aggregate
    <3>2. mem'.segments = mem.segments + 1
      BY <1>4, RegisterFacts
    <3> QED BY <3>1, <3>2
  <2>5. mem'.segments # 0
    BY <2>4
  <2>6. Counters'
    BY <1>0, <1>4, <2>1, <2>3, <2>5, RegisterFacts DEF Counters
  <2> QED BY <1>4, <2>6, RegisterFacts DEF MemIsRow
<1> QED BY <1>0, <1>1, <1>2, <1>3, <1>4, MemStandsOrMoves

LEMMA BufferedStep == ASSUME IInv, [Next]_vars PROVE Buffered'
<1> USE SessionAssumption
<1>0. TypeOK /\ Buffered
  BY DEF IInv
<1>1. CASE buffer' = buffer /\ appended' = appended
  BY <1>0, <1>1 DEF Buffered
<1>2. CASE buffer' = <<>> /\ appended' = appended
  BY <1>0, <1>2 DEF Buffered, TypeOK
<1>3. ASSUME NEW first \in Numbers, NEW n \in 1..MaxBatch, AppendBatch(first, n)
      PROVE  Buffered'
  <2> DEFINE batch == [i \in 1..n |-> first + i - 1]
  <2>1. first \in Nat /\ n \in Nat /\ n > 0 /\ first > 0 /\ appended \in Nat
        /\ buffer \in Seq(Nat) /\ Len(buffer) \in Nat
    BY <1>0, LenProperties DEF Numbers, TypeOK
  <2>2. batch \in Seq(Nat) /\ Len(batch) = n
    <3>1. \A i \in 1..n : first + i - 1 \in Nat
      BY <2>1
    <3>2. batch \in Seq(Nat)
      BY <2>1, <3>1, IsASeq
    <3> QED BY <2>1, <3>2
  <2>3. /\ Len(buffer') = Len(buffer) + n
        /\ \A i \in 1..Len(buffer) : buffer'[i] = buffer[i]
        /\ \A i \in Len(buffer) + 1..Len(buffer) + n : buffer'[i] = batch[i - Len(buffer)]
    BY <1>3, <2>1, <2>2, ConcatProperties DEF AppendBatch
  <2>4. appended' = first + n - 1
    BY <1>3 DEF AppendBatch
  <2>5. appended # 0 => first = appended + 1
    BY <1>3 DEF AppendBatch, Continues
  <2>6. Len(buffer) <= appended
    BY <1>0 DEF Buffered
  <2>7. Len(buffer') <= appended' /\ (Len(buffer) > 0 => first = appended + 1)
    BY <2>1, <2>3, <2>4, <2>5, <2>6
  <2>8. ASSUME NEW i \in 1..Len(buffer')
        PROVE  buffer'[i] = appended' - Len(buffer') + i
    <3>1. CASE i \in 1..Len(buffer)
      <4>1. buffer[i] = appended - Len(buffer) + i
        BY <1>0, <3>1 DEF Buffered
      <4>2. first = appended + 1
        BY <2>1, <2>7, <3>1
      <4>3. buffer'[i] = buffer[i] /\ i \in Int
        BY <2>3, <3>1
      <4>4. appended' - Len(buffer') + i = appended - Len(buffer) + i
        BY <2>1, <2>3, <2>4, <4>2, <4>3
      <4> QED BY <4>1, <4>3, <4>4
    <3>2. CASE i \in Len(buffer) + 1..Len(buffer) + n
      <4>1. i - Len(buffer) \in 1..n
        BY <2>1, <3>2
      <4>2. batch[i - Len(buffer)] = first + (i - Len(buffer)) - 1
        BY <4>1
      <4>3. buffer'[i] = first + (i - Len(buffer)) - 1
        BY <2>3, <3>2, <4>2
      <4>4. i \in Int
        BY <2>1, <3>2
      <4>5. appended' - Len(buffer') + i = first + (i - Len(buffer)) - 1
        BY <2>1, <2>3, <2>4, <4>4
      <4> QED BY <4>3, <4>5
    <3> QED BY <2>1, <2>3, <3>1, <3>2
  <2> QED BY <2>7, <2>8 DEF Buffered
<1>4. CASE Registers
  <2>1. /\ Rest \in Seq(Nat)
        /\ Len(Chunk) \in Nat /\ Len(Rest) \in Nat
        /\ Len(Chunk) + Len(Rest) = Len(buffer)
        /\ \A i \in 1..Len(Rest) : Rest[i] = appended - Len(Rest) + i
    BY <1>4, ChunkFacts DEF Registers, IInv
  <2>2. buffer' = Rest /\ appended' = appended
    BY <1>4 DEF Registers
  <2>3. Len(Rest) <= appended
    BY <1>0, <2>1 DEF Buffered, TypeOK
  <2> QED BY <2>1, <2>2, <2>3 DEF Buffered
<1> QED
  <2>1. CASE \/ StartDirectory \/ StartInserts
             \/ \E left \in BOOLEAN : StartFails(left) \/ WriteFails(left)
                                        \/ RegistrationFails(left)
             \/ FlushPending \/ WritesTemporary \/ Publishes
             \/ \E answers \in BOOLEAN : MarksFailed(answers)
             \/ CommitCompleted \/ CommitFails \/ FailActiveSession \/ Recover
             \/ InspectReads \/ InspectScans \/ UNCHANGED vars
    BY <1>1, <2>1 DEF StartDirectory, StartInserts, StartFails, WriteFails,
       RegistrationFails, FlushPending, WritesTemporary, Publishes, MarksFailed,
       CommitCompleted, CommitFails, FailActiveSession, Recover, InspectReads,
       InspectScans, vars, writerVars
  <2>2. CASE Fail \/ Crash
    BY <1>2, <2>2 DEF Fail, Crash
  <2> QED BY <1>3, <1>4, <2>1, <2>2 DEF Next

LEMMA PhaseStep == ASSUME IInv, [Next]_vars PROVE Phase'
<1> USE SessionAssumption
<1>0. TypeOK /\ Phase
  BY DEF IInv
<1>1. CASE StartDirectory
  BY <1>0, <1>1 DEF StartDirectory, Phase
<1>2. CASE StartInserts
  BY <1>0, <1>2 DEF StartInserts, Phase
<1>3. CASE \E left \in BOOLEAN : StartFails(left)
  BY <1>0, <1>3 DEF StartFails, Phase
<1>4. ASSUME NEW first \in Numbers, NEW n \in 1..MaxBatch, AppendBatch(first, n)
      PROVE  Phase'
  <2>1. mem' = mem /\ mem.state = "active" /\ goal' = "append"
    BY <1>4 DEF AppendBatch
  <2>2. pc' = IF Len(buffer') >= SegmentSize THEN "write" ELSE "idle"
    BY <1>4 DEF AppendBatch
  <2>3. pc' = "write" => Len(buffer') >= SegmentSize /\ Len(buffer') > 0
    <3>1. buffer' \in Seq(Nat)
      BY TypeStep DEF TypeOK
    <3>2. Len(buffer') \in Nat
      BY <3>1, LenProperties
    <3> QED BY <2>2, <3>2
  <2>4. pc' \in {"write", "idle"}
    BY <2>2
  <2> QED BY <2>1, <2>3, <2>4 DEF Phase
<1>5. CASE FlushPending
  <2>1. Len(buffer) \in Nat /\ (buffer # <<>> => Len(buffer) > 0)
    BY <1>0, LenProperties, EmptySeq DEF TypeOK
  <2> QED BY <1>0, <1>5, <2>1 DEF FlushPending, Phase
<1>6. CASE WritesTemporary
  BY <1>0, <1>6 DEF WritesTemporary, Phase
<1>7. CASE Publishes
  BY <1>0, <1>7 DEF Publishes, Phase
<1>8. CASE \E left \in BOOLEAN : WriteFails(left) \/ RegistrationFails(left)
  BY <1>0, <1>8 DEF WriteFails, RegistrationFails, Phase
<1>9. CASE Registers
  <2>1. mem'.state = "active"
    BY <1>0, <1>9, RegisterFacts DEF Registers, Phase
  <2>2. buffer' = Rest /\ goal' = goal
    BY <1>9 DEF Registers
  <2>3. Len(Rest) \in Nat
    BY <1>9, ChunkFacts DEF Registers, IInv
  <2>4. CASE goal = "flush"
    <3>1. Len(Rest) = 0 /\ pc' = "decide"
      BY <1>9, <2>4 DEF Registers, Rest
    <3> QED BY <2>1, <2>2, <3>1 DEF Phase
  <2>5. CASE goal = "append"
    <3>1. pc' = IF Len(Rest) >= SegmentSize THEN "write" ELSE "idle"
      BY <1>9, <2>5 DEF Registers
    <3>2. pc' = "write" => Len(Rest) >= SegmentSize /\ Len(Rest) > 0
      BY <2>3, <3>1
    <3>3. pc' \in {"write", "idle"}
      BY <3>1
    <3> QED BY <2>1, <2>2, <3>2, <3>3 DEF Phase
  <2> QED BY <1>0, <2>4, <2>5 DEF TypeOK
<1>10. CASE \E answers \in BOOLEAN : MarksFailed(answers)
  BY <1>10 DEF MarksFailed, Phase
<1>11. CASE CommitCompleted
  BY <1>0, <1>11 DEF CommitCompleted, Phase
<1>12. CASE CommitFails \/ Fail \/ Crash
  BY <1>0, <1>12 DEF CommitFails, Fail, Crash, Phase
<1>13. CASE FailActiveSession \/ Recover \/ InspectReads \/ InspectScans
              \/ UNCHANGED vars
  BY <1>0, <1>13 DEF FailActiveSession, Recover, InspectReads, InspectScans, vars,
     writerVars, Phase
<1> QED BY <1>1, <1>2, <1>3, <1>4, <1>5, <1>6, <1>7, <1>8, <1>9, <1>10, <1>11,
          <1>12, <1>13 DEF Next

LEMMA JoinedStep == ASSUME IInv, [Next]_vars PROVE Joined'
<1> USE SessionAssumption
<1>0. TypeOK /\ Joined /\ Phase /\ Counters /\ Buffered
  BY DEF IInv
<1>1. CASE ~Undisturbed'
  BY <1>1 DEF Joined
<1>2. CASE /\ mem' = mem /\ buffer' = buffer /\ appended' = appended
           /\ accepted' = accepted
           /\ Undisturbed' => Undisturbed
  BY <1>0, <1>2 DEF Joined
<1>3. CASE StartInserts
  <2>1. appended = 0 /\ accepted = {} /\ Len(buffer) = 0
    BY <1>0, <1>3, LenProperties DEF StartInserts, Phase, Buffered, TypeOK
  <2>2. mem'.segments = 0 /\ appended' = appended /\ buffer' = buffer
        /\ accepted' = accepted
    BY <1>3 DEF StartInserts
  <2>3. (0 - 0 + 1)..0 = {}
    OBVIOUS
  <2> QED BY <2>1, <2>2, <2>3 DEF Joined
<1>4. ASSUME NEW first \in Numbers, NEW n \in 1..MaxBatch, AppendBatch(first, n)
      PROVE  Joined'
  <2>1. first \in Nat /\ n \in Nat /\ n > 0 /\ first > 0 /\ appended \in Nat
        /\ Len(buffer) \in Nat /\ mem.segments \in Nat /\ mem.first \in Nat
        /\ mem.last \in Nat
    BY <1>0, LenProperties DEF Numbers, TypeOK, Aggregate
  <2>2. Undisturbed
    BY <1>4 DEF AppendBatch, Undisturbed
  <2>3. /\ mem' = mem
        /\ appended' = first + n - 1
        /\ appended # 0 => first = appended + 1
        /\ accepted' = accepted \cup first..(first + n - 1)
    BY <1>4 DEF AppendBatch, Continues
  <2>4. Len(buffer') = Len(buffer) + n
    <3>1. \A i \in 1..n : first + i - 1 \in Nat
      BY <2>1
    <3>2. [i \in 1..n |-> first + i - 1] \in Seq(Nat)
      BY <2>1, <3>1, IsASeq
    <3>3. Len([i \in 1..n |-> first + i - 1]) = n
      BY <2>1, <3>2
    <3> QED BY <1>0, <1>4, <3>2, <3>3, ConcatProperties DEF AppendBatch, TypeOK
  <2>5. /\ mem.segments > 0 => mem.last = appended - Len(buffer)
        /\ mem.segments = 0 /\ Len(buffer) = 0 => appended = 0
        /\ mem.segments = 0 => accepted = (appended - Len(buffer) + 1)..appended
        /\ mem.segments > 0 => accepted = mem.first..appended
    BY <1>0, <2>2 DEF Joined
  <2>6. Len(buffer) <= appended
    BY <1>0 DEF Buffered
  <2>7. Len(buffer') > 0
    BY <2>1, <2>4
  <2>8. CASE mem.segments = 0
    <3>1. CASE appended = 0
      <4>1. accepted = {} /\ Len(buffer) = 0
        BY <2>1, <2>5, <2>6, <2>8, <3>1
      <4>2. accepted' = (appended' - Len(buffer') + 1)..appended'
        BY <2>1, <2>3, <2>4, <4>1
      <4> QED BY <2>3, <2>7, <2>8, <4>2 DEF Joined
    <3>2. CASE appended # 0
      <4>1. accepted' = ((appended - Len(buffer)) + 1)..appended
                          \cup (appended + 1)..(appended + n)
        BY <2>1, <2>3, <2>5, <2>8, <3>2
      <4>2. accepted' = ((appended - Len(buffer)) + 1)..(appended + n)
        BY <2>1, <2>6, <4>1
      <4>3. /\ appended' = appended + n
            /\ (appended' - Len(buffer')) + 1 = (appended - Len(buffer)) + 1
        BY <2>1, <2>3, <2>4, <3>2
      <4> QED BY <2>3, <2>7, <2>8, <4>2, <4>3 DEF Joined
    <3> QED BY <3>1, <3>2
  <2>9. CASE mem.segments > 0
    <3>1. mem.last > 0 /\ mem.first <= mem.last /\ mem.last <= appended
          /\ mem.first > 0
      BY <1>0, <2>1, <2>9 DEF Counters
    <3>2. appended # 0 /\ first = appended + 1 /\ appended' = appended + n
      BY <2>1, <2>3, <3>1
    <3>3. accepted' = mem.first..appended'
      <4>1. accepted' = mem.first..appended \cup (appended + 1)..(appended + n)
        BY <2>1, <2>3, <2>5, <2>9, <3>2
      <4> QED BY <2>1, <3>1, <3>2, <4>1
    <3>4. mem.last = appended' - Len(buffer')
      BY <2>1, <2>4, <2>5, <2>9, <3>2
    <3>5. mem'.segments # 0
      BY <2>3, <2>9
    <3> QED BY <2>3, <3>3, <3>4, <3>5 DEF Joined
  <2> QED BY <2>1, <2>8, <2>9
<1>5. CASE Registers
  <2>1. Undisturbed
    BY <1>0, <1>5 DEF Registers, Phase, Undisturbed
  <2>2. /\ buffer' = Rest /\ appended' = appended /\ accepted' = accepted
    BY <1>5 DEF Registers
  <2>3. /\ mem'.segments = mem.segments + 1
        /\ mem'.last = appended - Len(Rest)
        /\ mem'.first = IF mem.segments = 0 THEN appended - Len(buffer) + 1
                        ELSE mem.first
    BY <1>5, RegisterFacts
  <2>4. mem.segments \in Nat
    BY <1>0 DEF TypeOK, Aggregate
  <2>5. accepted = mem'.first..appended
    BY <1>0, <2>1, <2>3, <2>4 DEF Joined
  <2>6. mem'.segments # 0 /\ mem'.segments > 0
    BY <2>3, <2>4
  <2> QED BY <2>2, <2>3, <2>5, <2>6 DEF Joined
<1> QED
  <2>1. CASE \/ StartDirectory
             \/ \E left \in BOOLEAN : StartFails(left) \/ WriteFails(left)
                                        \/ RegistrationFails(left)
             \/ CommitFails \/ Fail \/ Crash
    BY <1>1, <2>1 DEF StartDirectory, StartFails, WriteFails, RegistrationFails,
       CommitFails, Fail, Crash, Undisturbed
  <2>2. CASE \E answers \in BOOLEAN : MarksFailed(answers)
    BY <1>0, <1>1, <2>2 DEF MarksFailed, Undisturbed, TypeOK, Aggregate
  <2>3. CASE CommitCompleted
    BY <1>0, <1>1, <2>3 DEF CommitCompleted, Undisturbed, TypeOK, Aggregate
  <2>4. CASE \/ FlushPending \/ WritesTemporary \/ Publishes
             \/ FailActiveSession \/ Recover \/ InspectReads \/ InspectScans
             \/ UNCHANGED vars
    BY <1>2, <2>4 DEF FlushPending, WritesTemporary, Publishes, FailActiveSession,
       Recover, InspectReads, InspectScans, vars, writerVars, Undisturbed
  <2> QED BY <1>3, <1>4, <1>5, <2>1, <2>2, <2>3, <2>4 DEF Next

\* The row a registration adds.
LEMMA NewSegmentFacts ==
  ASSUME IInv, Registers
  PROVE  /\ segments' = segments \cup {NewSegment}
         /\ NewSegment \in SegmentRow
         /\ NewSegment.index = mem.segments
         /\ NewSegment.count = Len(Chunk)
         /\ NewSegment.count > 0
         /\ NewSegment.first = appended - Len(buffer) + 1
         /\ NewSegment.last = appended - Len(Rest)
         /\ NewSegment.last = NewSegment.first + NewSegment.count - 1
         /\ mem.segments > 0 => NewSegment.first = mem.last + 1
<1> USE SessionAssumption
<1>1. /\ Chunk \in Seq(Nat)
      /\ Len(Rest) \in Nat /\ Len(Chunk) \in Nat /\ Len(Chunk) > 0
      /\ Len(Chunk) + Len(Rest) = Len(buffer)
      /\ \A i \in 1..Len(Chunk) : Chunk[i] = appended - Len(buffer) + i
  BY ChunkFacts DEF IInv, Registers
<1>2. appended \in Nat /\ Len(buffer) \in Nat /\ mem.segments \in Nat
        /\ mem.last \in Nat
  BY LenProperties DEF IInv, TypeOK, Aggregate
<1>3. 1 \in 1..Len(Chunk) /\ Len(Chunk) \in 1..Len(Chunk)
  BY <1>1
<1>4. Chunk[1] = appended - Len(buffer) + 1
  BY <1>1, <1>3
<1>5. Chunk[Len(Chunk)] = appended - Len(buffer) + Len(Chunk)
  BY <1>1, <1>3
<1>6. appended - Len(buffer) + Len(Chunk) = appended - Len(Rest)
  <2>1. /\ Len(Rest) \in Nat /\ Len(Chunk) \in Nat /\ appended \in Nat
        /\ Len(buffer) = Len(Chunk) + Len(Rest)
    BY <1>1, <1>2
  <2> QED BY ONLY <2>1
<1>7. /\ NewSegment.index = mem.segments /\ NewSegment.count = Len(Chunk)
      /\ NewSegment.first = Chunk[1] /\ NewSegment.last = Chunk[Len(Chunk)]
  BY DEF NewSegment, Index
<1>8. Chunk[1] \in Nat /\ Chunk[Len(Chunk)] \in Nat
  BY <1>1, <1>3, ElementOfSeq
<1>9. NewSegment \in SegmentRow
  BY <1>1, <1>8, NextIndex DEF NewSegment, SegmentRow, Index, IInv
<1>10. mem.segments > 0 => mem.last = appended - Len(buffer)
  BY DEF IInv, Joined, Undisturbed, Phase, Registers
<1>11. NewSegment.last = NewSegment.first + NewSegment.count - 1
  BY <1>1, <1>2, <1>4, <1>5, <1>7
<1>12. mem.segments > 0 => NewSegment.first = mem.last + 1
  BY <1>2, <1>4, <1>7, <1>10
<1>13. segments' = segments \cup {NewSegment}
  BY DEF Registers
<1> QED BY <1>1, <1>4, <1>5, <1>6, <1>7, <1>9, <1>11, <1>12, <1>13

\* Only a registration adds a row, and no step removes one.
LEMMA SegmentsStandOrGrow ==
  ASSUME TypeOK, [Next]_vars
  PROVE  \/ MemStands
         \/ /\ mem'.segments = 0 /\ mem'.first = 0 /\ mem'.last = 0
            /\ pc = "insert" /\ segments' = segments
         \/ /\ mem' = mem /\ segments' = segments
         \/ Registers
<1>1. CASE StartInserts
  BY <1>1 DEF StartInserts
<1>2. ASSUME NEW first \in Numbers, NEW n \in 1..MaxBatch, AppendBatch(first, n)
      PROVE  mem' = mem /\ segments' = segments
  BY <1>2 DEF AppendBatch, databaseVars
<1> QED BY <1>1, <1>2, MemStandsOrMoves

\* The files of registered segments stand.
LEMMA FilesStand ==
  ASSUME IInv, [Next]_vars
  PROVE  /\ segments \subseteq segments'
         /\ \A s \in segments : files'[s.index] = files[s.index]
<1> USE SessionAssumption
<1>1. segments \subseteq segments'
  BY SegmentsStandOrGrow DEF IInv, MemStands, Registers
<1>2. \A s \in segments : s.index # mem.segments /\ s.index \in Indices
  BY DEF IInv, Chained, TypeOK, SegmentRow, Aggregate, Indices
<1>3. CASE files' = files
  BY <1>1, <1>3
<1>4. ASSUME NEW f, files' = [files EXCEPT ![mem.segments] = f]
      PROVE  \A s \in segments : files'[s.index] = files[s.index]
  BY <1>2, <1>4 DEF IInv, TypeOK
<1>5. CASE Publishes
  BY <1>1, <1>4, <1>5 DEF Publishes, Index
<1>6. CASE \E left \in BOOLEAN : RegistrationFails(left)
  BY <1>1, <1>3, <1>4, <1>6 DEF RegistrationFails, Index
<1>7. ASSUME NEW first \in Numbers, NEW n \in 1..MaxBatch, AppendBatch(first, n)
      PROVE  files' = files
  BY <1>7 DEF AppendBatch, projectVars
<1>8. CASE \/ StartDirectory \/ StartInserts
           \/ \E left \in BOOLEAN : StartFails(left) \/ WriteFails(left)
           \/ FlushPending \/ WritesTemporary \/ Registers
           \/ \E answers \in BOOLEAN : MarksFailed(answers)
           \/ CommitCompleted \/ CommitFails \/ Fail \/ Crash
           \/ FailActiveSession \/ Recover
           \/ InspectReads \/ InspectScans \/ UNCHANGED vars
  <2>1. files' = files
    BY <1>8 DEF StartDirectory, StartInserts, StartFails, WriteFails, FlushPending,
       WritesTemporary, Registers, MarksFailed, CommitCompleted, CommitFails, Fail,
       Crash, FailActiveSession, Recover, InspectReads, InspectScans, vars,
       projectVars
  <2> QED BY <1>3, <2>1
<1> QED BY <1>3, <1>5, <1>6, <1>7, <1>8 DEF Next

LEMMA ChainedStep == ASSUME IInv, [Next]_vars PROVE Chained'
<1> USE SessionAssumption
<1>0. TypeOK /\ Chained /\ Phase
  BY DEF IInv
<1>1. CASE MemStands
  BY <1>0, <1>1 DEF MemStands, Chained
<1>2. CASE mem' = mem /\ segments' = segments
  BY <1>0, <1>2 DEF Chained
<1>3. CASE /\ mem'.segments = 0 /\ mem'.first = 0 /\ mem'.last = 0
           /\ pc = "insert" /\ segments' = segments
  <2>1. segments = {}
    BY <1>0, <1>3 DEF Phase, Chained, TypeOK, SegmentRow, Indices
  <2> QED BY <1>3, <2>1 DEF Chained, Indices
<1>4. CASE Registers
  <2>1. /\ mem'.segments = mem.segments + 1
        /\ mem'.first = IF mem.segments = 0 THEN appended - Len(buffer) + 1
                        ELSE mem.first
        /\ mem'.last = appended - Len(Rest)
    BY <1>4, RegisterFacts
  <2>2. mem.segments \in Nat /\ \A s \in segments : s.index \in Nat
    BY <1>0 DEF TypeOK, Aggregate, SegmentRow, Indices
  <2>3. ASSUME NEW s \in segments
        PROVE  /\ s.index < mem'.segments
               /\ s.index = 0 => s.first = mem'.first
               /\ s.index = mem'.segments - 1 => s.last = mem'.last
    BY <1>0, <2>1, <2>2 DEF Chained
  <2>4. /\ NewSegment.index < mem'.segments
        /\ NewSegment.index = 0 => NewSegment.first = mem'.first
        /\ NewSegment.index = mem'.segments - 1 => NewSegment.last = mem'.last
    BY <1>4, <2>1, <2>2, NewSegmentFacts
  <2>5. ASSUME NEW i \in Indices, i < mem'.segments
        PROVE  \E s \in segments' : s.index = i
    <3>1. CASE i < mem.segments
      BY <1>0, <1>4, <3>1, NewSegmentFacts DEF Chained
    <3>2. CASE i = mem.segments
      BY <1>4, <3>2, NewSegmentFacts
    <3> QED BY <2>1, <2>2, <2>5, <3>1, <3>2 DEF Indices
  <2> QED BY <1>4, <2>3, <2>4, <2>5, NewSegmentFacts DEF Chained
<1> QED BY <1>0, <1>1, <1>2, <1>3, <1>4, SegmentsStandOrGrow

LEMMA ReadableStep == ASSUME IInv, [Next]_vars PROVE SegmentsReadable'
<1>0. SegmentsReadable
  BY DEF IInv
<1>1. CASE segments' = segments
  BY <1>0, <1>1, FilesStand DEF SegmentsReadable
<1>2. CASE Registers
  <2>1. files' = files
    BY <1>2 DEF Registers, projectVars
  <2>2. files[mem.segments] = Chunk
    BY <1>2 DEF Registers, IInv, Published
  <2>3. \A i \in 1..Len(Chunk) : Chunk[i] = appended - Len(buffer) + i
    BY <1>2, ChunkFacts DEF Registers, IInv
  <2>4. /\ NewSegment.index = mem.segments
        /\ NewSegment.count = Len(Chunk)
        /\ NewSegment.count > 0
        /\ NewSegment.first = appended - Len(buffer) + 1
        /\ NewSegment.last = NewSegment.first + NewSegment.count - 1
    BY <1>2, NewSegmentFacts
  <2>5. appended \in Nat /\ Len(buffer) \in Nat
    BY LenProperties DEF IInv, TypeOK
  <2>6. ASSUME NEW i \in 1..NewSegment.count
        PROVE  Chunk[i] = NewSegment.first + i - 1
    <3>1. Chunk[i] = appended - Len(buffer) + i
      BY <2>3, <2>4, <2>6
    <3>2. i \in Int
      OBVIOUS
    <3> QED BY <2>4, <2>5, <3>1, <3>2
  <2>7. LET f == files'[NewSegment.index] IN
          /\ Len(f) = NewSegment.count
          /\ NewSegment.count > 0
          /\ \A i \in 1..NewSegment.count : f[i] = NewSegment.first + i - 1
          /\ NewSegment.last = NewSegment.first + NewSegment.count - 1
    BY <2>1, <2>2, <2>4, <2>6
  <2>8. segments' = segments \cup {NewSegment}
    BY <1>2, NewSegmentFacts
  <2>9. \A s \in segments :
          LET f == files'[s.index] IN
            /\ Len(f) = s.count
            /\ s.count > 0
            /\ \A i \in 1..s.count : f[i] = s.first + i - 1
            /\ s.last = s.first + s.count - 1
    BY <1>0, <2>1 DEF SegmentsReadable
  <2>10. \A s \in segments' :
           LET f == files'[s.index] IN
             /\ Len(f) = s.count
             /\ s.count > 0
             /\ \A i \in 1..s.count : f[i] = s.first + i - 1
             /\ s.last = s.first + s.count - 1
    BY <2>7, <2>8, <2>9
  <2> QED BY <2>10 DEF SegmentsReadable
<1> QED BY <1>1, <1>2, SegmentsStandOrGrow DEF IInv, MemStands

LEMMA ContiguousStep == ASSUME IInv, [Next]_vars PROVE SegmentsContiguous'
<1> USE SessionAssumption
<1>0. TypeOK /\ SegmentsContiguous /\ Chained
  BY DEF IInv
<1>1. CASE segments' = segments
  BY <1>0, <1>1 DEF SegmentsContiguous
<1>2. CASE Registers
  <2>1. /\ segments' = segments \cup {NewSegment}
        /\ NewSegment.index = mem.segments
        /\ mem.segments > 0 => NewSegment.first = mem.last + 1
    BY <1>2, NewSegmentFacts
  <2>2. \A s \in segments : /\ s.index \in Nat /\ s.index < mem.segments
                            /\ s.index = mem.segments - 1 => s.last = mem.last
    BY <1>0 DEF Chained, TypeOK, SegmentRow, Indices
  <2>3. mem.segments \in Nat
    BY <1>0 DEF TypeOK, Aggregate
  <2>4. ASSUME NEW s \in segments', NEW t \in segments', t.index = s.index + 1
        PROVE  t.first = s.last + 1
    <3>1. CASE s \in segments /\ t \in segments
      BY <1>0, <2>4, <3>1 DEF SegmentsContiguous
    <3>2. CASE s \in segments /\ t = NewSegment
      BY <2>1, <2>2, <2>3, <2>4, <3>2
    <3>3. CASE s = NewSegment
      BY <2>1, <2>2, <2>3, <2>4, <3>3
    <3> QED BY <2>1, <3>1, <3>2, <3>3
  <2>5. ASSUME NEW s \in segments', NEW t \in segments', s.index = t.index
        PROVE  s = t
    <3>1. CASE s \in segments /\ t \in segments
      BY <1>0, <2>5, <3>1 DEF SegmentsContiguous
    <3>2. CASE s = NewSegment \/ t = NewSegment
      BY <2>1, <2>2, <2>3, <2>5, <3>2
    <3> QED BY <2>1, <3>1, <3>2
  <2>6. ASSUME NEW s \in segments', NEW i \in Indices, i < s.index
        PROVE  \E t \in segments' : t.index = i
    <3>1. CASE s \in segments
      BY <1>0, <2>1, <2>6, <3>1 DEF SegmentsContiguous
    <3>2. CASE s = NewSegment
      BY <1>0, <2>1, <2>6, <3>2 DEF Chained
    <3> QED BY <2>1, <3>1, <3>2
  <2> QED BY <2>4, <2>5, <2>6 DEF SegmentsContiguous
<1> QED BY <1>1, <1>2, SegmentsStandOrGrow DEF IInv, MemStands

\* What is durable only grows, and by a registration.
LEMMA DurableMoves ==
  ASSUME IInv, [Next]_vars
  PROVE  /\ segments' = segments => Durable' = Durable
         /\ Registers => Durable' = Durable \cup NewSegment.first..NewSegment.last
<1>1. ASSUME segments' = segments PROVE Durable' = Durable
  BY <1>1 DEF Durable
<1>2. ASSUME Registers
      PROVE  Durable' = Durable \cup NewSegment.first..NewSegment.last
  <2>1. segments' = segments \cup {NewSegment}
    BY <1>2 DEF Registers
  <2> DEFINE frames(s) == s.first..s.last
  <2>2. Durable = UNION {frames(s) : s \in segments}
    BY DEF Durable
  <2>3. Durable' = UNION {frames(s) : s \in segments'}
    BY DEF Durable
  <2> HIDE DEF frames
  <2>4. Durable' = Durable \cup frames(NewSegment)
    BY <2>1, <2>2, <2>3
  <2> QED BY <2>4 DEF frames
<1> QED BY <1>1, <1>2

LEMMA DurableStep == ASSUME IInv, [Next]_vars PROVE DurableIs'
<1> USE SessionAssumption
<1>0. TypeOK /\ DurableIs /\ Counters /\ Phase
  BY DEF IInv
<1>1. CASE MemStands
  BY <1>0, <1>1, DurableMoves DEF MemStands, DurableIs
<1>2. CASE mem' = mem /\ segments' = segments
  BY <1>0, <1>2, DurableMoves DEF DurableIs
<1>3. CASE mem'.segments = 0 /\ pc = "insert" /\ segments' = segments
  BY <1>0, <1>3, DurableMoves DEF DurableIs, Phase
<1>4. CASE Registers
  <2>1. Durable' = Durable \cup NewSegment.first..NewSegment.last
    BY <1>4, DurableMoves
  <2>2. /\ NewSegment.first = appended - Len(buffer) + 1
        /\ NewSegment.last = appended - Len(Rest)
        /\ mem.segments > 0 => NewSegment.first = mem.last + 1
        /\ NewSegment.last = NewSegment.first + NewSegment.count - 1
        /\ NewSegment.count > 0
        /\ NewSegment.first \in Nat /\ NewSegment.last \in Nat
        /\ NewSegment.count \in Nat
    BY <1>4, NewSegmentFacts DEF SegmentRow
  <2>3. /\ mem'.segments = mem.segments + 1
        /\ mem'.first = IF mem.segments = 0 THEN appended - Len(buffer) + 1
                        ELSE mem.first
        /\ mem'.last = appended - Len(Rest)
    BY <1>4, RegisterFacts
  <2>4. mem.segments \in Nat /\ mem.first \in Nat /\ mem.last \in Nat
    BY <1>0 DEF TypeOK, Aggregate
  <2>5. mem'.segments # 0
    BY <2>3, <2>4
  <2>6. CASE mem.segments = 0
    <3>1. Durable = {}
      BY <1>0, <2>6 DEF DurableIs
    <3>2. NewSegment.first = mem'.first /\ NewSegment.last = mem'.last
      BY <2>2, <2>3, <2>6
    <3> QED BY <2>1, <2>5, <3>1, <3>2 DEF DurableIs
  <2>7. CASE mem.segments > 0
    <3>1. Durable = mem.first..mem.last /\ mem.first <= mem.last
      BY <1>0, <2>7 DEF DurableIs, Counters
    <3>2. /\ NewSegment.first = mem.last + 1
          /\ NewSegment.first <= NewSegment.last
          /\ mem'.first = mem.first /\ mem'.last = NewSegment.last
      BY <2>2, <2>3, <2>7
    <3>3. Durable' = mem.first..mem.last \cup (mem.last + 1)..NewSegment.last
      BY <2>1, <3>1, <3>2
    <3>4. mem.first..mem.last \cup (mem.last + 1)..NewSegment.last
            = mem.first..NewSegment.last
      BY <2>2, <2>4, <3>1, <3>2
    <3> QED BY <2>5, <3>2, <3>3, <3>4 DEF DurableIs
  <2> QED BY <2>4, <2>6, <2>7
<1> QED BY <1>1, <1>2, <1>3, <1>4, SegmentsStandOrGrow, <1>0

LEMMA CountedStep == ASSUME IInv, [Next]_vars PROVE Counted'
<1>0. TypeOK /\ Counted /\ Chained /\ Phase
  BY DEF IInv
<1>1. CASE MemStands
  BY <1>0, <1>1 DEF MemStands, Counted
<1>2. CASE mem' = mem /\ segments' = segments
  BY <1>0, <1>2 DEF Counted
<1>3. CASE mem'.segments = 0 /\ pc = "insert" /\ segments' = segments
  BY <1>0, <1>3 DEF Counted, Phase
<1>4. CASE Registers
  <2>1. segments' = segments \cup {NewSegment} /\ NewSegment.index = mem.segments
    BY <1>4, NewSegmentFacts
  <2>2. NewSegment \notin segments
    BY <1>0, <2>1 DEF Chained, TypeOK, Aggregate
  <2>3. IsFiniteSet(segments')
        /\ Cardinality(segments') = Cardinality(segments) + 1
    BY <1>0, <2>1, <2>2, FS_AddElement DEF Counted
  <2> QED BY <1>0, <1>4, <2>3, RegisterFacts DEF Counted
<1> QED BY <1>0, <1>1, <1>2, <1>3, <1>4, SegmentsStandOrGrow

LEMMA PublishedStep == ASSUME IInv, [Next]_vars PROVE Published'
<1> USE SessionAssumption
<1>0. TypeOK /\ Published
  BY DEF IInv
<1>1. CASE pc' # "register"
  BY <1>1 DEF Published
<1>2. CASE Publishes
  <2>1. files'[mem.segments] = Chunk
    BY <1>0, <1>2, NextIndex DEF Publishes, Index, TypeOK, IInv
  <2>2. Chunk' = Chunk /\ mem' = mem
    BY <1>2 DEF Publishes, Chunk
  <2> QED BY <2>1, <2>2 DEF Published
<1>3. CASE /\ pc' = pc /\ files' = files /\ mem' = mem /\ buffer' = buffer
           /\ goal' = goal
  BY <1>0, <1>3 DEF Published, Chunk
<1>4. ASSUME NEW first \in Numbers, NEW n \in 1..MaxBatch, AppendBatch(first, n)
      PROVE  pc' # "register"
  BY <1>4 DEF AppendBatch
<1>5. CASE \/ StartDirectory \/ StartInserts
           \/ \E left \in BOOLEAN : StartFails(left) \/ WriteFails(left)
                                      \/ RegistrationFails(left)
           \/ FlushPending \/ WritesTemporary \/ Registers
           \/ \E answers \in BOOLEAN : MarksFailed(answers)
           \/ CommitCompleted \/ CommitFails \/ Fail \/ Crash
  <2>1. pc' # "register"
    BY <1>5 DEF StartDirectory, StartInserts, StartFails, WriteFails,
       RegistrationFails, FlushPending, WritesTemporary, Registers, MarksFailed,
       CommitCompleted, CommitFails, Fail, Crash
  <2> QED BY <1>1, <2>1
<1>6. CASE FailActiveSession \/ Recover \/ InspectReads \/ InspectScans
             \/ UNCHANGED vars
  BY <1>3, <1>6 DEF FailActiveSession, Recover, InspectReads, InspectScans, vars,
     projectVars, writerVars
<1> QED BY <1>1, <1>2, <1>4, <1>5, <1>6 DEF Next

LEMMA CompletionStep == ASSUME IInv, [Next]_vars PROVE Completion'
<1> USE SessionAssumption
<1>0. TypeOK /\ Completion /\ Phase
  BY DEF IInv
<1>1. CASE /\ row' = row /\ mem' = mem /\ segments' = segments
           /\ accepted' = accepted
  BY <1>0, <1>1, DurableMoves DEF Completion
<1>2. CASE mem'.state # "completed" /\ row'.state # "completed"
  BY <1>2 DEF Completion
<1>3. CASE StartInserts
  BY <1>2, <1>3 DEF StartInserts
<1>4. ASSUME NEW first \in Numbers, NEW n \in 1..MaxBatch, AppendBatch(first, n)
      PROVE  Completion'
  <2>1. mem' = mem /\ mem.state = "active" /\ row' = row
    BY <1>4 DEF AppendBatch, databaseVars
  <2> QED BY <1>0, <1>2, <2>1 DEF Completion
<1>5. CASE Registers
  <2>1. mem'.state = "active" /\ row' = mem'
    BY <1>0, <1>5, RegisterFacts DEF Registers, Phase
  <2> QED BY <1>2, <2>1
<1>6. CASE \E answers \in BOOLEAN : MarksFailed(answers)
  <2>1. mem'.state = "failed" /\ mem.state = "active"
    BY <1>0, <1>6 DEF MarksFailed, TypeOK, Aggregate, Phase
  <2>2. row.state # "completed"
    BY <1>0, <2>1 DEF Completion
  <2>3. row'.state # "completed"
    BY <1>0, <1>6, <2>2, AdvancedFacts DEF MarksFailed
  <2> QED BY <1>2, <2>1, <2>3
<1>7. CASE CommitCompleted
  <2>1. mem.state = "active" /\ Len(buffer) = 0 /\ Undisturbed
    BY <1>0, <1>7 DEF CommitCompleted, Phase, Undisturbed
  <2>2. CASE row.state = "active"
    <3>1. row'.state = "completed" /\ mem'.state = "completed"
      BY <1>0, <1>7, <2>2, AdvancedFacts DEF CommitCompleted, TypeOK, Aggregate
    <3>2. segments' = segments /\ accepted' = accepted
      BY <1>7 DEF CommitCompleted
    <3>3. appended \in Nat /\ mem.segments \in Nat /\ mem.first \in Nat
            /\ mem.last \in Nat
      BY <1>0 DEF TypeOK, Aggregate
    <3>4. Durable = accepted
      <4>1. CASE mem.segments = 0
        <5>1. Durable = {} /\ appended = 0 /\ accepted = (appended - 0 + 1)..appended
          BY <2>1, <4>1 DEF IInv, DurableIs, Joined
        <5> QED BY <5>1
      <4>2. CASE mem.segments > 0
        <5>1. Durable = mem.first..mem.last /\ accepted = mem.first..appended
                /\ mem.last = appended - 0
          BY <2>1, <4>2 DEF IInv, DurableIs, Joined
        <5> QED BY <3>3, <5>1
      <4> QED BY <3>3, <4>1, <4>2
    <3> QED BY <3>1, <3>2, <3>4, DurableMoves DEF Completion
  <2>3. CASE row.state # "active"
    <3>1. row' = row /\ mem' = mem
      BY <1>7, <2>3 DEF CommitCompleted, Advanced
    <3> QED BY <1>0, <1>2, <2>1, <3>1 DEF Completion
  <2> QED BY <2>2, <2>3
<1>8. CASE FailActiveSession \/ Recover
  <2>1. mem' = mem /\ segments' = segments /\ accepted' = accepted
    BY <1>8 DEF FailActiveSession, Recover, writerVars
  <2>2. row'.state = "completed" <=> row.state = "completed"
    BY <1>0, <1>8, AdvancedFacts DEF FailActiveSession, Recover
  <2> QED BY <1>0, <2>1, <2>2, DurableMoves DEF Completion
<1>9. CASE \/ StartDirectory
           \/ \E left \in BOOLEAN : StartFails(left) \/ WriteFails(left)
                                      \/ RegistrationFails(left)
           \/ FlushPending \/ WritesTemporary \/ Publishes
           \/ CommitFails \/ Fail \/ Crash
           \/ InspectReads \/ InspectScans \/ UNCHANGED vars
  BY <1>1, <1>9 DEF StartDirectory, StartFails, WriteFails, RegistrationFails,
     FlushPending, WritesTemporary, Publishes, CommitFails, Fail, Crash,
     InspectReads, InspectScans, vars, databaseVars, writerVars
<1> QED BY <1>3, <1>4, <1>5, <1>6, <1>7, <1>8, <1>9 DEF Next

\* The indexes on the disk and in the rows are those of the files and segments.
LEMMA IndexedMoves ==
  ASSUME TypeOK
  PROVE  /\ segments' = segments => Indexed' = Indexed
         /\ files' = files => Found' = Found
BY DEF Indexed, Found

LEMMA CleanStep == ASSUME IInv, [Next]_vars PROVE Clean'
<1> USE SessionAssumption
<1>0. TypeOK /\ Clean /\ Phase
  BY DEF IInv
<1>1. CASE /\ temporary' = temporary /\ files' = files /\ segments' = segments
           /\ mem' = mem
           /\ \/ pc' = pc
              \/ pc = "none" /\ pc' = "insert"
              \/ /\ mem.state = "active" /\ pc = "idle"
                 /\ pc' \in {"idle", "write", "decide"}
              \/ pc' \in {"mark", "over"}
  BY <1>0, <1>1, IndexedMoves DEF Clean
<1>2. CASE StartInserts
  <2>1. segments = {} /\ Indexed = {}
    BY <1>2 DEF StartInserts, IInv, Phase, Chained, TypeOK, SegmentRow,
       Indices, Indexed
  <2>2. /\ temporary' = {} /\ Found' = {} /\ Indexed' = {}
    BY <1>0, <1>2, <2>1, IndexedMoves DEF StartInserts, projectVars, Clean
  <2>3. pc' = "idle" /\ mem'.state = "active"
    BY <1>2 DEF StartInserts
  <2> QED BY <2>2, <2>3 DEF Clean
<1>3. ASSUME NEW first \in Numbers, NEW n \in 1..MaxBatch, AppendBatch(first, n)
      PROVE  Clean'
  <2>1. /\ temporary' = temporary /\ files' = files /\ segments' = segments
        /\ mem' = mem /\ mem.state = "active" /\ pc = "idle"
        /\ pc' \in {"idle", "write"}
    BY <1>3 DEF AppendBatch, projectVars, databaseVars
  <2> QED BY <1>1, <2>1
<1>4. CASE WritesTemporary
  <2>1. temporary = {} /\ Found = Indexed /\ mem.state = "active"
    BY <1>0, <1>4 DEF WritesTemporary, Clean, Phase
  <2>2. /\ temporary' = {mem.segments} /\ mem' = mem /\ pc' = "replace"
        /\ Found' = Indexed'
    BY <1>0, <1>4, <2>1, IndexedMoves DEF WritesTemporary, Index, databaseVars
  <2> QED BY <2>1, <2>2 DEF Clean
<1>5. CASE Publishes
  <2>1. temporary = {mem.segments} /\ Found = Indexed /\ mem.state = "active"
    BY <1>0, <1>5 DEF Publishes, Clean, Phase
  <2>2. Chunk # <<>>
    BY <1>5, ChunkFacts DEF Publishes, IInv
  <2>3. files' = [files EXCEPT ![mem.segments] = Chunk]
    BY <1>5 DEF Publishes, Index
  <2>4. Found' = Found \cup {mem.segments}
    BY <1>0, <2>2, <2>3, NextIndex DEF Found, TypeOK, IInv
  <2>5. /\ temporary' = {} /\ mem' = mem /\ pc' = "register"
        /\ Indexed' = Indexed
    BY <1>0, <1>5, <2>1, IndexedMoves DEF Publishes, Index, databaseVars
  <2> QED BY <2>1, <2>4, <2>5 DEF Clean
<1>6. CASE Registers
  <2>1. /\ temporary = {} /\ Found = Indexed \cup {mem.segments}
        /\ mem.state = "active"
    BY <1>0, <1>6 DEF Registers, Clean, Phase
  <2>2. Indexed' = Indexed \cup {mem.segments}
    BY <1>6, NewSegmentFacts DEF Indexed
  <2>3. /\ temporary' = {} /\ Found' = Found
        /\ pc' \in {"decide", "write", "idle"}
    BY <1>0, <1>6, <2>1, IndexedMoves DEF Registers, projectVars
  <2>4. mem'.state = "active"
    BY <1>6, <2>1, RegisterFacts
  <2> QED BY <2>1, <2>2, <2>3, <2>4 DEF Clean
<1>7. CASE \/ \E left \in BOOLEAN : WriteFails(left)
           \/ \E left \in BOOLEAN : RegistrationFails(left)
  <2>1. pc' = "mark" /\ mem' = mem /\ mem.state = "active"
    BY <1>0, <1>7 DEF WriteFails, RegistrationFails, Phase
  <2> QED BY <2>1 DEF Clean
<1>8. CASE \E answers \in BOOLEAN : MarksFailed(answers)
  <2>1. pc' = "idle" /\ mem'.state = "failed"
    BY <1>0, <1>8 DEF MarksFailed, TypeOK, Aggregate
  <2> QED BY <2>1 DEF Clean
<1>9. CASE CommitCompleted
  <2>1. /\ temporary = {} /\ Found = Indexed /\ mem.state = "active"
    BY <1>0, <1>9 DEF CommitCompleted, Clean, Phase
  <2>2. temporary' = {} /\ Found' = Indexed' /\ pc' \in {"idle", "mark"}
    BY <1>0, <1>9, <2>1, IndexedMoves DEF CommitCompleted, projectVars
  <2> QED BY <2>2 DEF Clean
<1>10. CASE \/ StartDirectory \/ \E left \in BOOLEAN : StartFails(left)
            \/ FlushPending \/ CommitFails \/ Fail \/ Crash
            \/ FailActiveSession \/ Recover
            \/ InspectReads \/ InspectScans \/ UNCHANGED vars
  BY <1>1, <1>10 DEF StartDirectory, StartFails, FlushPending, CommitFails, Fail,
     Crash, FailActiveSession, Recover, InspectReads, InspectScans, vars,
     projectVars, databaseVars, writerVars
<1> QED BY <1>2, <1>3, <1>4, <1>5, <1>6, <1>7, <1>8, <1>9, <1>10 DEF Next

LEMMA InspectedStep == ASSUME IInv, [Next]_vars PROVE Inspected'
<1> USE SessionAssumption
<1>0. TypeOK /\ Inspected
  BY DEF IInv
<1>1. Indexed \subseteq Indexed'
  BY FilesStand DEF Indexed
<1>2. ASSUME inspection' = inspection, pc = "over" => pc' = "over",
             pc = "over" => segments' = segments
      PROVE  Inspected'
  BY <1>0, <1>1, <1>2, IndexedMoves DEF Inspected
<1>3. CASE InspectReads
  <2>1. inspection' = [at |-> "scan", dead |-> pc = "over", known |-> Indexed,
                       orphans |-> {}, missing |-> {}]
    BY <1>3 DEF InspectReads, Indexed
  <2>2. Indexed' = Indexed /\ pc' = pc
    BY <1>0, <1>3, IndexedMoves DEF InspectReads, databaseVars, writerVars
  <2> QED BY <2>1, <2>2 DEF Inspected
<1>4. CASE InspectScans
  <2>1. Indexed \subseteq Found
    <3>1. ASSUME NEW s \in segments PROVE s.index \in Found
      <4>1. Len(files[s.index]) > 0
        BY DEF IInv, SegmentsReadable
      <4>2. files[s.index] # <<>>
        BY <4>1
      <4> QED BY <1>0, <4>2 DEF Found, TypeOK, SegmentRow
    <3> QED BY <3>1 DEF Indexed
  <2>2. inspection' = [at |-> "done", dead |-> inspection.dead,
                       known |-> inspection.known,
                       orphans |-> Found \ inspection.known,
                       missing |-> inspection.known \ Found]
    BY <1>4 DEF InspectScans
  <2>3. Indexed' = Indexed /\ pc' = pc
    BY <1>0, <1>4, IndexedMoves DEF InspectScans, databaseVars, writerVars
  <2>4. inspection.at = "scan"
    BY <1>4 DEF InspectScans
  <2> QED BY <1>0, <2>1, <2>2, <2>3, <2>4 DEF Inspected
<1>5. ASSUME NEW first \in Numbers, NEW n \in 1..MaxBatch, AppendBatch(first, n)
      PROVE  Inspected'
  BY <1>2, <1>5 DEF AppendBatch
<1>6. CASE \/ StartDirectory \/ StartInserts
           \/ \E left \in BOOLEAN : StartFails(left) \/ WriteFails(left)
                                      \/ RegistrationFails(left)
           \/ FlushPending \/ WritesTemporary \/ Publishes \/ Registers
           \/ \E answers \in BOOLEAN : MarksFailed(answers)
           \/ CommitCompleted \/ CommitFails \/ Fail \/ Crash
           \/ FailActiveSession \/ Recover \/ UNCHANGED vars
  BY <1>2, <1>6 DEF StartDirectory, StartInserts, StartFails, WriteFails,
     RegistrationFails, FlushPending, WritesTemporary, Publishes, Registers,
     MarksFailed, CommitCompleted, CommitFails, Fail, Crash, FailActiveSession,
     Recover, vars, writerVars, databaseVars
<1> QED BY <1>3, <1>4, <1>5, <1>6 DEF Next

LEMMA IInvariant == Spec => []IInv
<1>1. IInv /\ [Next]_vars => IInv'
  BY TypeStep, CountersStep, BufferedStep, PhaseStep, JoinedStep, ChainedStep,
     ReadableStep, ContiguousStep, DurableStep, CountedStep, CompletionStep,
     PublishedStep, CleanStep, InspectedStep DEF IInv
<1> QED BY InitInv, <1>1, PTL DEF Spec

-------------------------------------------------------------------------------
(* The properties, for every value of the constants. *)

\* The state keeps its type.
THEOREM TypeCorrect == Spec => []TypeOK
<1>1. IInv => TypeOK
  BY DEF IInv
<1> QED BY <1>1, IInvariant, PTL

\* Whoever has seen a segment's row finds its file, with the very frames the
\* row claims (_commit_segment registers only what it has published).
THEOREM Readable == Spec => []SegmentsReadable
<1>1. IInv => SegmentsReadable
  BY DEF IInv
<1> QED BY <1>1, IInvariant, PTL

\* The segments are numbered without a gap, and their frames too
\* (_require_contiguous_sequence, and the trimming of the buffer).
THEOREM Contiguous == Spec => []SegmentsContiguous
<1>1. IInv => SegmentsContiguous
  BY DEF IInv
<1> QED BY <1>1, IInvariant, PTL

\* The counters register_segment writes from the writer's memory are those of
\* the segment rows.
THEOREM Aggregates == Spec => []AggregateMatches
<1>1. IInv => AggregateMatches
  <2> SUFFICES ASSUME IInv PROVE AggregateMatches
    OBVIOUS
  <2>1. /\ row.segments = mem.segments /\ row.frames = mem.frames
        /\ row.first = mem.first /\ row.last = mem.last
        /\ mem.segments \in Nat
    BY DEF IInv, MemIsRow, TypeOK, Aggregate
  <2>2. row.segments = Cardinality(segments)
    BY <2>1 DEF IInv, Counted
  <2>3. \A s \in segments :
          /\ s.index < row.segments
          /\ s.index = 0 => s.first = row.first
          /\ s.index = row.segments - 1 => s.last = row.last
    BY <2>1 DEF IInv, Chained
  <2>4. segments # {} => row.frames = row.last - row.first + 1
    <3> SUFFICES ASSUME segments # {} PROVE row.frames = row.last - row.first + 1
      OBVIOUS
    <3>1. mem.segments > 0
      BY <2>1 DEF IInv, Chained, TypeOK, SegmentRow, Indices
    <3> QED BY <2>1, <3>1 DEF IInv, Counters
  <2> QED BY <2>2, <2>3, <2>4 DEF AggregateMatches
<1> QED BY <1>1, IInvariant, PTL

\* COMPLETED is the whole recording, whoever else tried to end the session
\* (commit_completed is decided by one conditional update, after the flush).
THEOREM WholeWhenCompleted == Spec => []CompletedHoldsAll
<1>1. IInv => CompletedHoldsAll
  BY DEF IInv, Completion, CompletedHoldsAll
<1> QED BY <1>1, IInvariant, PTL

\* Completed sessions have no temporary and no unregistered file.
THEOREM CleanWhenCompleted == Spec => []CompletedIsClean
<1>1. IInv => CompletedIsClean
  BY DEF IInv, Completion, Clean, CompletedIsClean, Found, Indexed
<1> QED BY <1>1, IInvariant, PTL

\* A writer that failed is never read back as completed, even when
\* _mark_failed did not reach the database.
THEOREM FailureStays == Spec => []FailureIsNotCompletion
<1>1. IInv => FailureIsNotCompletion
  BY DEF IInv, Completion, FailureIsNotCompletion
<1> QED BY <1>1, IInvariant, PTL

\* inspect_integrity reports no registered segment as missing, and no segment
\* of a dead writer's session that has a row as an orphan.
THEOREM Truthful == Spec => []InspectionTruthful
<1>1. IInv => InspectionTruthful
  BY DEF IInv, Inspected, InspectionTruthful, Indexed
<1> QED BY <1>1, IInvariant, PTL

\* A committed segment, file and row, is never touched again.
THEOREM Stand == Spec => SegmentsStand
<1>1. IInv /\ [Next]_vars =>
        [/\ segments \subseteq segments'
         /\ \A s \in segments : files'[s.index] = files[s.index]]_vars
  BY FilesStand
<1> QED BY <1>1, IInvariant, PTL DEF Spec, SegmentsStand

-------------------------------------------------------------------------------
(* The contract, when nobody ends the session under its writer. *)

\* Until it has failed, a writer left alone is right about the state.
Alone ==
  /\ pc \in {"none", "insert"} => row.state = "none"
  /\ pc # "over" /\ mem.state = "active" => row.state = "active"

LEMMA AloneStep ==
  ASSUME ~Interference, IInv, Alone, [Next]_vars PROVE Alone'
<1>0. TypeOK /\ Phase
  BY DEF IInv
<1>1. CASE /\ row' = row /\ mem' = mem
           /\ pc # "over"
           /\ pc' \in {"none", "insert"} => pc \in {"none", "insert"}
  BY <1>1 DEF Alone
<1>2. CASE \/ StartDirectory \/ FlushPending \/ WritesTemporary \/ Publishes
           \/ \E left \in BOOLEAN : StartFails(left) \/ WriteFails(left)
                                      \/ RegistrationFails(left)
           \/ CommitFails \/ Fail \/ Crash
  BY <1>1, <1>2 DEF StartDirectory, FlushPending, WritesTemporary, Publishes,
     StartFails, WriteFails, RegistrationFails, CommitFails, Fail, Crash,
     databaseVars
<1>3. ASSUME NEW first \in Numbers, NEW n \in 1..MaxBatch, AppendBatch(first, n)
      PROVE  Alone'
  BY <1>1, <1>3 DEF AppendBatch, databaseVars
<1>4. CASE StartInserts
  BY <1>4 DEF StartInserts, Alone
<1>5. CASE Registers
  <2>1. pc' \in {"decide", "write", "idle"}
    BY <1>5 DEF Registers
  <2>2. row' = mem'
    BY <1>5, RegisterFacts
  <2> QED BY <2>1, <2>2 DEF Alone
<1>6. CASE \E answers \in BOOLEAN : MarksFailed(answers)
  <2>1. pc' = "idle" /\ mem'.state = "failed"
    BY <1>0, <1>6 DEF MarksFailed, TypeOK, Aggregate
  <2> QED BY <2>1 DEF Alone
<1>7. CASE CommitCompleted
  <2>1. row.state = "active"
    BY <1>0, <1>7 DEF CommitCompleted, Phase, Alone
  <2>2. pc' = "idle" /\ mem'.state = "completed"
    BY <1>0, <1>7, <2>1 DEF CommitCompleted, TypeOK, Aggregate
  <2> QED BY <2>2 DEF Alone
<1>8. CASE Recover
  BY <1>8 DEF Recover, writerVars, Alone
<1>9. CASE FailActiveSession \/ InspectReads \/ InspectScans \/ UNCHANGED vars
  BY <1>9 DEF FailActiveSession, InspectReads, InspectScans, vars, databaseVars,
     writerVars, Alone
<1> QED BY <1>2, <1>3, <1>4, <1>5, <1>6, <1>7, <1>8, <1>9 DEF Next

\* Each step is a step of the contract, or one it does not see.
LEMMA ContractStep ==
  ASSUME ~Interference, IInv, Alone, [Next]_vars, IInv'
  PROVE  [Contract!Next]_(Contract!cvars)
<1> USE SessionAssumption
<1>0. TypeOK /\ Phase /\ Joined /\ Counters /\ Buffered
  BY DEF IInv
<1>1. ASSUME row'.state = row.state, segments' = segments, accepted' = accepted
      PROVE  [Contract!Next]_(Contract!cvars)
  BY <1>1, DurableMoves DEF Contract!cvars
<1>2. CASE \/ StartDirectory \/ FlushPending \/ WritesTemporary \/ Publishes
           \/ \E left \in BOOLEAN : StartFails(left) \/ WriteFails(left)
                                      \/ RegistrationFails(left)
           \/ CommitFails \/ Fail \/ Crash \/ InspectReads \/ InspectScans
           \/ UNCHANGED vars
  BY <1>1, <1>2 DEF StartDirectory, FlushPending, WritesTemporary, Publishes,
     StartFails, WriteFails, RegistrationFails, CommitFails, Fail, Crash,
     InspectReads, InspectScans, vars, databaseVars
<1>3. CASE StartInserts
  <2>1. /\ row.state = "none" /\ row'.state = "active"
        /\ accepted' = accepted /\ segments' = segments
    BY <1>3 DEF StartInserts, Alone
  <2>2. Contract!Open
    BY <2>1, DurableMoves DEF Contract!Open
  <2> QED BY <2>2 DEF Contract!Next
<1>4. ASSUME NEW first \in Numbers, NEW n \in 1..MaxBatch, AppendBatch(first, n)
      PROVE  [Contract!Next]_(Contract!cvars)
  <2>1. /\ row' = row /\ segments' = segments
        /\ accepted' = accepted \cup first..(first + n - 1)
        /\ appended # 0 => first = appended + 1
        /\ mem.state = "active" /\ pc = "idle"
    BY <1>4 DEF AppendBatch, databaseVars, Continues
  <2>2. row.state = "active" /\ row'.state = "active" /\ Durable' = Durable
    BY <2>1, DurableMoves DEF Alone
  <2>3. appended \in Nat /\ mem.segments \in Nat /\ Len(buffer) \in Nat
          /\ mem.first \in Nat
    BY <1>0, LenProperties DEF TypeOK, Aggregate
  <2>4. /\ first \in Nat /\ first > 0 /\ n \in Nat
    BY DEF Numbers
  <2>5. accepted = (appended - Len(buffer) + 1)..appended
          \/ accepted = mem.first..appended
    BY <1>0, <2>1, <2>3 DEF Joined, Undisturbed
  <2>6. accepted \in SUBSET Nat
    BY <1>0 DEF TypeOK
  <2>7. \A new \in accepted' \ accepted : new \in Nat /\ new >= first
    BY <2>1, <2>4
  <2>8. \A old \in accepted : old \in Nat /\ old <= appended /\ old > 0
    <3>1. \A old \in accepted : old \in Nat /\ old <= appended
      BY <2>3, <2>5, <2>6
    <3>2. CASE accepted = (appended - Len(buffer) + 1)..appended
      BY <1>0, <2>3, <3>1, <3>2 DEF Buffered
    <3>3. CASE accepted = mem.first..appended /\ mem.segments > 0
      BY <1>0, <2>3, <3>1, <3>3 DEF Counters
    <3>4. mem.segments = 0 => accepted = (appended - Len(buffer) + 1)..appended
      BY <1>0, <2>1 DEF Joined, Undisturbed
    <3> QED BY <2>3, <2>5, <3>2, <3>3, <3>4
  <2>9. \A old \in accepted, new \in accepted' \ accepted : old < new
    BY <2>1, <2>3, <2>4, <2>7, <2>8
  <2>10. accepted' \in SUBSET Nat
    BY <2>1, <2>4, <2>6
  <2>11. Contract!Offer
    BY <2>1, <2>2, <2>9, <2>10 DEF Contract!Offer
  <2> QED BY <2>11 DEF Contract!Next
<1>5. CASE Registers
  <2>1. /\ row.state = "active" /\ row'.state = "active"
        /\ accepted' = accepted
    BY <1>0, <1>5, RegisterFacts DEF Registers, Phase, Alone
  <2>2. /\ mem'.segments > 0 /\ mem'.first > 0 /\ mem'.state = "active"
        /\ mem'.last = appended - Len(Rest) /\ mem.segments \in Nat
    BY <1>0, <1>5, RegisterFacts DEF Registers, Phase, TypeOK, Aggregate
  <2>3. Durable \subseteq Durable'
    BY <1>5, DurableMoves
  <2>4. Durable' = mem'.first..mem'.last
    BY <2>2 DEF IInv, DurableIs
  <2>5. Undisturbed'
    BY <1>5, <2>2 DEF Registers, Undisturbed
  <2>6. appended' = appended /\ accepted = mem'.first..appended
    BY <1>5, <2>1, <2>2, <2>5 DEF Registers, IInv, Joined
  <2>7. /\ appended \in Nat /\ mem'.first \in Nat /\ mem'.last \in Nat
        /\ mem'.last <= appended
    BY <1>5, <2>6, RegisterFacts DEF IInv, TypeOK, Aggregate, Counters
  <2>8. Durable' \subseteq accepted
    BY <2>4, <2>6, <2>7
  <2>9. \A f \in Durable', g \in accepted \ Durable' : f < g
    BY <2>4, <2>6, <2>7
  <2>10. Contract!Persist
    BY <2>1, <2>3, <2>8, <2>9 DEF Contract!Persist
  <2> QED BY <2>10 DEF Contract!Next
<1>6. ASSUME row'.state \in {"failed", "interrupted"}, row.state = "active",
             segments' = segments, accepted' = accepted
      PROVE  [Contract!Next]_(Contract!cvars)
  BY <1>6, DurableMoves DEF Contract!End, Contract!Next
<1>7. CASE \E answers \in BOOLEAN : MarksFailed(answers)
  <2>1. segments' = segments /\ accepted' = accepted
    BY <1>7 DEF MarksFailed
  <2>2. row' = row \/ row' = Advanced("failed")
    BY <1>7 DEF MarksFailed
  <2>3. \/ row'.state = row.state
        \/ row.state = "active" /\ row'.state = "failed"
    BY <1>0, <2>2, AdvancedFacts
  <2> QED BY <1>1, <1>6, <2>1, <2>3
<1>8. CASE CommitCompleted
  <2>1. segments' = segments /\ accepted' = accepted /\ row' = Advanced("completed")
    BY <1>8 DEF CommitCompleted
  <2>2. CASE row.state = "active"
    <3>1. row'.state = "completed"
      BY <1>0, <2>1, <2>2, AdvancedFacts
    <3>2. Durable' = Durable
      BY <2>1, DurableMoves
    <3>3. Durable = accepted
      BY <2>1, <3>1, <3>2 DEF IInv, Completion
    <3>4. Contract!Complete
      BY <2>1, <2>2, <3>1, <3>2, <3>3 DEF Contract!Complete
    <3> QED BY <3>4 DEF Contract!Next
  <2>3. CASE row.state # "active"
    BY <1>1, <2>1, <2>3 DEF Advanced
  <2> QED BY <2>2, <2>3
<1>9. CASE Recover
  <2>1. segments' = segments /\ accepted' = accepted
          /\ row' = Advanced("interrupted")
    BY <1>9 DEF Recover
  <2>2. \/ row'.state = row.state
        \/ row.state = "active" /\ row'.state = "interrupted"
    BY <1>0, <2>1, AdvancedFacts
  <2> QED BY <1>1, <1>6, <2>1, <2>2
<1>10. CASE FailActiveSession
  BY <1>10 DEF FailActiveSession
<1> QED BY <1>2, <1>3, <1>4, <1>5, <1>7, <1>8, <1>9, <1>10 DEF Next

\* A session nobody else ends keeps its contract: files, rows, failures at any
\* point of a commit, crashes and recovery implement it.
THEOREM Implements == ASSUME ~Interference PROVE Spec => ImplementsContract
<1>1. Init => Contract!Init
  BY DEF Init, Blank, Durable, Contract!Init
<1>2. Init => Alone
  BY DEF Init, Blank, Alone
<1>3. IInv /\ Alone /\ [Next]_vars => Alone'
  BY AloneStep
<1>4. IInv /\ Alone /\ [Next]_vars /\ IInv' => [Contract!Next]_(Contract!cvars)
  BY ContractStep
<1> QED
  BY <1>1, <1>2, <1>3, <1>4, IInvariant, PTL
  DEF Spec, ImplementsContract, Contract!Spec

\* The database tells the truth about the segments.
THEOREM TruthfulSegments == Spec => []SegmentsAreTruthful
BY Readable, Contiguous, Aggregates, PTL DEF SegmentsAreTruthful

\* A completed session is the whole recording and nothing else.
THEOREM WholeSessions == Spec => []CompletedIsWhole
BY WholeWhenCompleted, CleanWhenCompleted, PTL DEF CompletedIsWhole
===============================================================================
