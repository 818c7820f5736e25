------------------------------ MODULE DataSession ------------------------------
(***************************************************************************)
(* One data session of a project: data/session.py (the writer and the      *)
(* service), data/repository.py (its rows) and data/parquet.py (its files).*)
(*                                                                         *)
(* The frames of a session are buffered, written as a Parquet file under a *)
(* temporary name, moved to their final name, and only then registered in  *)
(* SQLite.  The writer is a sequential program; a crash of its process may *)
(* fall between any two of its steps, and others may end the session under *)
(* it: the recorder's gate (fail_active_session) and a recovery.           *)
(*                                                                         *)
(* A frame is its sequence number, counted from 1 so that 0 is None.  One  *)
(* SQLite transaction is one step.  A refused call changes nothing and is  *)
(* no action.  Timestamps are left out: the writer refuses a batch that    *)
(* would make them descend just as one that leaves a gap.                  *)
(*                                                                         *)
(* What a process wrote survives its crash; the loss of power, which could *)
(* lose writes nobody synced, is not modelled.                             *)
(***************************************************************************)
EXTENDS Naturals, Sequences, FiniteSets

CONSTANTS
  FirstSequences,  \* the sequence numbers a session may start with
  MaxSequence,     \* bound on sequence numbers
  MaxBatch,        \* bound on the frames of a batch
  SegmentSize,     \* max_frames_per_segment
  Interference     \* whether others end the session under a live writer

ASSUME SessionAssumption ==
  /\ FirstSequences \subseteq Nat \ {0}
  /\ MaxSequence \in Nat
  /\ MaxBatch \in Nat
  /\ SegmentSize \in Nat \ {0}
  /\ Interference \in BOOLEAN

VARIABLES
  \* The project directory.
  directory,  \* the session's directory exists
  temporary,  \* the segment indexes that have a .parquet.tmp file
  files,      \* the frames in the .parquet file of an index, <<>> for no file
  \* The project database.
  row,        \* the session's row
  segments,   \* its segment rows
  \* DataSessionWriter.
  pc,         \* where the writer is
  goal,       \* which loop its commit belongs to: "append" or "flush"
  mem,        \* _session, the writer's own idea of the row
  buffer,     \* _buffer
  appended,   \* _last_appended_sequence
  \* inspect_integrity.
  inspection, \* the indexes it has read, and what it then reports
  \* History.
  accepted    \* every frame append took

projectVars == <<directory, temporary, files>>
databaseVars == <<row, segments>>
writerVars == <<pc, goal, mem, buffer, appended>>
vars == <<projectVars, databaseVars, writerVars, inspection, accepted>>

Indices == 0..MaxSequence
Numbers == 1..MaxSequence
State == {"none", "active", "completed", "failed", "interrupted"}
Aggregate ==
  [state : State, frames : Nat, segments : Nat, first : Nat, last : Nat]
SegmentRow == [index : Indices, count : Nat, first : Nat, last : Nat]

\* No row, no file, no writer.
Blank ==
  [state |-> "none", frames |-> 0, segments |-> 0, first |-> 0, last |-> 0]

Inspection == [at : {"idle", "scan", "done"}, dead : BOOLEAN,
               known : SUBSET Indices, orphans : SUBSET Indices,
               missing : SUBSET Indices]
NoInspection == [at |-> "idle", dead |-> FALSE, known |-> {}, orphans |-> {},
                 missing |-> {}]

\* The type of the state.
TypeOK ==
  /\ directory \in BOOLEAN
  /\ temporary \in SUBSET Indices
  /\ files \in [Indices -> Seq(Nat)]
  /\ row \in Aggregate
  /\ segments \in SUBSET SegmentRow
  /\ pc \in {"none", "insert", "idle", "write", "replace", "register", "mark",
             "decide", "over"}
  /\ goal \in {"append", "flush"}
  /\ mem \in Aggregate
  /\ buffer \in Seq(Nat)
  /\ appended \in Nat
  /\ inspection \in Inspection
  /\ accepted \in SUBSET Nat

Init ==
  /\ directory = FALSE
  /\ temporary = {}
  /\ files = [i \in Indices |-> <<>>]
  /\ row = Blank
  /\ segments = {}
  /\ pc = "none"
  /\ goal = "append"
  /\ mem = Blank
  /\ buffer = <<>>
  /\ appended = 0
  /\ inspection = NoInspection
  /\ accepted = {}

--------------------------------------------------------------------------------
(* DataSessionService.start. *)

StartDirectory ==
  /\ pc = "none"
  /\ pc' = "insert"
  /\ directory' = TRUE
  /\ UNCHANGED <<temporary, files, databaseVars, goal, mem, buffer, appended,
                 inspection, accepted>>

StartInserts ==
  /\ pc = "insert"
  /\ pc' = "idle"
  /\ row' = [state |-> "active", frames |-> 0, segments |-> 0, first |-> 0,
             last |-> 0]
  /\ mem' = row'
  /\ UNCHANGED <<projectVars, segments, goal, buffer, appended,
                 inspection, accepted>>

\* The row could not be inserted: the directory is removed again, if it can be.
StartFails(left) ==
  /\ pc = "insert"
  /\ pc' = "over"
  /\ directory' = left
  /\ UNCHANGED <<temporary, files, databaseVars, goal, mem, buffer, appended,
                 inspection, accepted>>

--------------------------------------------------------------------------------
(* DataSessionWriter. *)

\* Fault: a gap between two batches is accepted.
ContinuesWithGaps(first) == IF appended = 0 THEN first \in FirstSequences
                            ELSE first > appended

\* _require_contiguous_sequence: only the first batch may start anywhere.
Continues(first) == IF appended = 0 THEN first \in FirstSequences
                    ELSE first = appended + 1

\* append up to its first commit.
AppendBatch(first, n) ==
  /\ pc = "idle"
  /\ mem.state = "active"
  /\ Continues(first)
  /\ first + n - 1 <= MaxSequence
  /\ buffer' = buffer \o [i \in 1..n |-> first + i - 1]
  /\ appended' = first + n - 1
  /\ accepted' = accepted \cup first..(first + n - 1)
  /\ goal' = "append"
  /\ pc' = IF Len(buffer') >= SegmentSize THEN "write" ELSE "idle"
  /\ UNCHANGED <<projectVars, databaseVars, mem, inspection>>

\* Fault: a last partial segment is forgotten.
FlushFullOnly ==
  /\ pc = "idle"
  /\ mem.state = "active"
  /\ goal' = "flush"
  /\ pc' = IF Len(buffer) < SegmentSize THEN "decide" ELSE "write"
  /\ UNCHANGED <<projectVars, databaseVars, mem, buffer, appended,
                 inspection, accepted>>

\* flush_pending up to its commit.  Its callers (finalize, _finish_serially) go
\* on to commit_completed or fail, and append nothing in between.
FlushPending ==
  /\ pc = "idle"
  /\ mem.state = "active"
  /\ goal' = "flush"
  /\ pc' = IF buffer = <<>> THEN "decide" ELSE "write"
  /\ UNCHANGED <<projectVars, databaseVars, mem, buffer, appended,
                 inspection, accepted>>

\* Fault: the index of the last segment, not of the next one.
LastIndex == IF mem.segments = 0 THEN 0 ELSE mem.segments - 1

\* _commit_segment: the index of the next segment and the frames it takes.
Index == mem.segments
Chunk == IF goal = "append" THEN SubSeq(buffer, 1, SegmentSize) ELSE buffer

\* Fault: the frames of a committed segment stay in the buffer.
RestUntrimmed == buffer

Rest == IF goal = "append" THEN SubSeq(buffer, SegmentSize + 1, Len(buffer))
        ELSE <<>>

\* write_segment: the temporary file is written and closed.
WritesTemporary ==
  /\ pc = "write"
  /\ pc' = "replace"
  /\ temporary' = temporary \cup {Index}
  /\ UNCHANGED <<directory, files, databaseVars, goal, mem, buffer, appended,
                 inspection, accepted>>

\* Fault: the temporary file is copied.
PublishesCopy ==
  /\ pc = "replace"
  /\ pc' = "register"
  /\ files' = [files EXCEPT ![Index] = Chunk]
  /\ UNCHANGED <<directory, temporary, databaseVars, goal, mem, buffer,
                 appended, inspection, accepted>>

\* os.replace moves it to the final name.
Publishes ==
  /\ pc = "replace"
  /\ pc' = "register"
  /\ files' = [files EXCEPT ![Index] = Chunk]
  /\ temporary' = temporary \ {Index}
  /\ UNCHANGED <<directory, databaseVars, goal, mem, buffer, appended,
                 inspection, accepted>>

\* Either of them fails: the temporary file is removed, if it can be.
WriteFails(left) ==
  /\ pc \in {"write", "replace"}
  /\ pc' = "mark"
  /\ temporary' = IF left THEN temporary \cup {Index} ELSE temporary \ {Index}
  /\ UNCHANGED <<directory, files, databaseVars, goal, mem, buffer, appended,
                 inspection, accepted>>

NewSegment == [index |-> Index, count |-> Len(Chunk),
               first |-> Chunk[1], last |-> Chunk[Len(Chunk)]]

\* Fault: every segment is counted as a full one.
UpdatedFull ==
  [state |-> mem.state,
   frames |-> mem.frames + SegmentSize,
   segments |-> mem.segments + 1,
   first |-> IF mem.first = 0 THEN Chunk[1] ELSE mem.first,
   last |-> Chunk[Len(Chunk)]]

\* The session after the segment: absolute values, from the writer's memory.
Updated ==
  [state |-> mem.state,
   frames |-> mem.frames + Len(Chunk),
   segments |-> mem.segments + 1,
   first |-> IF mem.first = 0 THEN Chunk[1] ELSE mem.first,
   last |-> Chunk[Len(Chunk)]]

\* register_segment: both rows in one transaction; the index is unique.
Registers ==
  /\ pc = "register"
  /\ \A s \in segments : s.index # Index
  /\ segments' = segments \cup {NewSegment}
  /\ row' = Updated
  /\ mem' = Updated
  /\ buffer' = Rest
  /\ pc' = IF goal = "flush" THEN "decide"
           ELSE IF Len(Rest) >= SegmentSize THEN "write" ELSE "idle"
  /\ UNCHANGED <<projectVars, goal, appended, inspection, accepted>>

\* The transaction fails: the published file is removed, if it can be.
RegistrationFails(left) ==
  /\ pc = "register"
  /\ pc' = "mark"
  /\ files' = IF left THEN files ELSE [files EXCEPT ![Index] = <<>>]
  /\ UNCHANGED <<directory, temporary, databaseVars, goal, mem, buffer,
                 appended, inspection, accepted>>

\* Fault: the state is written by a name the rows do not have.
AdvancedUnknown(state) ==
  IF row.state = "active" THEN [row EXCEPT !.state = "ended"] ELSE row

\* advance_session_state: only a row that is still ACTIVE.
Advanced(state) == IF row.state = "active" THEN [row EXCEPT !.state = state]
                   ELSE row

\* _mark_failed: in memory always, in the database if it answers.
MarksFailed(answers) ==
  /\ pc = "mark"
  /\ pc' = "idle"
  /\ mem' = [mem EXCEPT !.state = "failed"]
  /\ row' = IF answers THEN Advanced("failed") ELSE row
  /\ UNCHANGED <<projectVars, segments, goal, buffer, appended,
                 inspection, accepted>>

\* commit_completed: the writer learns whether it won.
CommitCompleted ==
  /\ pc = "decide"
  /\ row' = Advanced("completed")
  /\ IF row.state = "active"
       THEN /\ pc' = "idle"
            /\ mem' = [mem EXCEPT !.state = "completed"]
       ELSE /\ pc' = "mark"
            /\ UNCHANGED mem
  /\ UNCHANGED <<projectVars, segments, goal, buffer, appended,
                 inspection, accepted>>

CommitFails ==
  /\ pc = "decide"
  /\ pc' = "mark"
  /\ UNCHANGED <<projectVars, databaseVars, goal, mem, buffer, appended,
                 inspection, accepted>>

\* Fault: a session that has ended can be failed.
FailAlways ==
  /\ pc \in {"idle", "decide"}
  /\ buffer' = <<>>
  /\ pc' = "mark"
  /\ UNCHANGED <<projectVars, databaseVars, goal, mem, appended,
                 inspection, accepted>>

\* fail.
Fail ==
  /\ pc \in {"idle", "decide"}
  /\ mem.state = "active"
  /\ buffer' = <<>>
  /\ pc' = "mark"
  /\ UNCHANGED <<projectVars, databaseVars, goal, mem, appended,
                 inspection, accepted>>

--------------------------------------------------------------------------------
(* What happens to the session from outside. *)

\* The process dies.  No later process can have a writer of this session; mem
\* keeps what the dead one believed.
Crash ==
  /\ pc \notin {"none", "over"}
  /\ pc' = "over"
  /\ buffer' = <<>>
  /\ UNCHANGED <<projectVars, databaseVars, goal, mem, appended,
                 inspection, accepted>>

\* DataSessionService.fail_active_session, by the gate of the recorder whose
\* thread runs the writer.
FailActiveSession ==
  /\ Interference
  /\ pc \notin {"none", "insert", "over"}
  /\ row' = Advanced("failed")
  /\ UNCHANGED <<projectVars, segments, writerVars, inspection, accepted>>

\* Fault: the row is interrupted whatever its state.
RecoverAny ==
  /\ Interference \/ pc = "over"
  /\ row' = IF row.state = "none" THEN row
            ELSE [row EXCEPT !.state = "interrupted"]
  /\ UNCHANGED <<projectVars, segments, writerVars, inspection, accepted>>

\* DataSessionService.recover_incomplete_sessions, for one session of its list;
\* the update is conditional, so the age of the list does not matter.
Recover ==
  /\ Interference \/ pc = "over"
  /\ row' = Advanced("interrupted")
  /\ UNCHANGED <<projectVars, segments, writerVars, inspection, accepted>>

\* Fault: only the segments of completed sessions are looked up.
InspectReadsCompleted ==
  /\ inspection.at # "scan"
  /\ inspection' = [at |-> "scan", dead |-> pc = "over",
                    known |-> IF row.state # "completed" THEN {}
                              ELSE {s.index : s \in segments},
                    orphans |-> {}, missing |-> {}]
  /\ UNCHANGED <<projectVars, databaseVars, writerVars, accepted>>

\* inspect_integrity reads the segment rows first and the directory afterwards,
\* without a lock on either.
InspectReads ==
  /\ inspection.at # "scan"
  /\ inspection' = [at |-> "scan", dead |-> pc = "over",
                    known |-> {s.index : s \in segments},
                    orphans |-> {}, missing |-> {}]
  /\ UNCHANGED <<projectVars, databaseVars, writerVars, accepted>>

\* The indexes whose .parquet file is on the disk.
Found == {i \in Indices : files[i] # <<>>}

InspectScans ==
  /\ inspection.at = "scan"
  /\ inspection' = [at |-> "done", dead |-> inspection.dead,
                    known |-> inspection.known,
                    orphans |-> Found \ inspection.known,
                    missing |-> inspection.known \ Found]
  /\ UNCHANGED <<projectVars, databaseVars, writerVars, accepted>>

Next ==
  \/ StartDirectory \/ StartInserts
  \/ \E left \in BOOLEAN : StartFails(left) \/ WriteFails(left)
                             \/ RegistrationFails(left)
  \/ \E first \in Numbers, n \in 1..MaxBatch : AppendBatch(first, n)
  \/ FlushPending \/ WritesTemporary \/ Publishes \/ Registers
  \/ \E answers \in BOOLEAN : MarksFailed(answers)
  \/ CommitCompleted \/ CommitFails \/ Fail
  \/ Crash \/ FailActiveSession \/ Recover
  \/ InspectReads \/ InspectScans

Spec == Init /\ [][Next]_vars

--------------------------------------------------------------------------------
(* Properties. *)

\* What a segment row claims is what its file holds: a reader that has seen the
\* row finds the file, whole and with these very frames, at any later time.
SegmentsReadable ==
  \A s \in segments :
    LET f == files[s.index] IN
    /\ Len(f) = s.count
    /\ s.count > 0
    /\ \A i \in 1..s.count : f[i] = s.first + i - 1
    /\ s.last = s.first + s.count - 1

\* The segments of a session are numbered without a gap, and each continues the
\* sequence where the one before it stopped.
SegmentsContiguous ==
  /\ \A s, t \in segments : t.index = s.index + 1 => t.first = s.last + 1
  /\ \A s, t \in segments : s.index = t.index => s = t
  /\ \A s \in segments, i \in Indices :
       i < s.index => \E t \in segments : t.index = i

\* The counters of the session's row tell the truth about the segment rows, also
\* after the writer overwrote the row from its memory.
AggregateMatches ==
  /\ row.segments = Cardinality(segments)
  /\ segments # {} => row.frames = row.last - row.first + 1
  /\ \A s \in segments :
       /\ s.index < row.segments
       /\ s.index = 0 => s.first = row.first
       /\ s.index = row.segments - 1 => s.last = row.last

\* What the database says of the segments is true of the files, of their order
\* and of their number (session.py _commit_segment, repository.py).
SegmentsAreTruthful == SegmentsReadable /\ SegmentsContiguous /\ AggregateMatches

\* The frames a reader can find.
Durable == UNION {s.first..s.last : s \in segments}

\* COMPLETED is the whole recording: every frame append ever took is in a
\* registered segment, whoever else tried to end the session.
CompletedHoldsAll == row.state = "completed" => Durable = accepted

\* A completed session has left nothing but its segments on the disk.
CompletedIsClean ==
  row.state = "completed" =>
    /\ temporary = {}
    /\ \A i \in Indices :
         files[i] # <<>> => \E s \in segments : s.index = i

\* COMPLETED means all of the recording and nothing else (session.py complete).
CompletedIsWhole == CompletedHoldsAll /\ CompletedIsClean

\* A writer that failed is never read back as COMPLETED, though its failure may
\* never have reached the database (docstring of fail).
FailureIsNotCompletion == mem.state = "failed" => row.state # "completed"

\* A committed segment, file and row, is never touched again: not by a failure,
\* a crash or a recovery.
SegmentsStand ==
  [][/\ segments \subseteq segments'
     /\ \A s \in segments : files'[s.index] = files[s.index]]_vars

\* An inspection never reports a registered segment as missing, however it falls
\* between the steps of a live writer; and what it calls an orphan once the
\* writer is gone has no row.
InspectionTruthful ==
  /\ inspection.missing = {}
  /\ inspection.dead =>
       \A s \in segments : s.index \notin inspection.orphans

\* The session keeps its contract, as long as nobody ends it under its writer.
Contract == INSTANCE SessionContract WITH
              state <- row.state, offered <- accepted, durable <- Durable
ImplementsContract == Contract!Spec
================================================================================
