---------------------------- MODULE DbcAssetsProofs ----------------------------
(***************************************************************************)
(* Theorems about ProjectStore and DbcAssets, for every value of their     *)
(* constants.                                                              *)
(*                                                                         *)
(* The invariant says, step by step of a call, what the call may rely on:  *)
(* the disk as far as a creation has come (CallHolds), the version a       *)
(* migration found, the bytes an import has put in place (TaskHolds).  The *)
(* calls hold no lock for most of this, so each part is shown to survive   *)
(* the steps of every other call.                                          *)
(***************************************************************************)
EXTENDS DbcAssets, SequenceTheorems, WellFoundedInduction, TLAPS

Wholes == {WholeDatabase(v, id) : v \in Legacy..Current, id \in Ids}
Versionless == {Missing, Empty}

DiskHolds ==
  /\ root \in BOOLEAN
  /\ manifest \in Ids \cup {None, Partial}
  /\ db \in Versionless \cup Foreign \cup Wholes
  /\ manifest \in Ids => db \notin Versionless
  /\ ~root => manifest = None

\* The steps of a creation that has the directory to itself, those of an import
\* that has an asset, and those of a read that has found its row.
Writing == {"database", "schema", "manifest", "text"}
Placed == {"stage", "promote", "register", "insert"}
Served == {"read", "load", "consult", "compile"}

\* The steps of a call on a project that is open, and of one that is opening it.
Opened == {"parse", "reread", "identify", "lookup"} \cup Placed \cup Served
Connected == {"migrate", "begin", "stamp", "verify"} \cup Opened

Operations == {"inspect", "import", "import_path", "get", "load", "decode"}
Phases == {None, "mkdir", "created", "open", "connect"} \cup Writing \cup Connected
Calls == [op : {"idle", "create"} \cup Operations,
          step : Phases,
          id : Ids \cup {None},
          version : 0..Current]

IsCurrent(id) == db = WholeDatabase(Current, id)

\* A creation is alone, and ends with what it was to make.
CreationHolds(c) ==
  /\ c.op = "create" => c.step \in Writing \cup {"mkdir", "created"} /\ c.id \in Ids
  /\ c.step \in Writing => root /\ manifest \notin Ids /\ c.op = "create"
  /\ c.step \in {"manifest", "text"} => IsCurrent(c.id)
  /\ c.step = "created" =>
       c.op = "create" /\ manifest \in Ids /\ c.id = manifest /\ IsCurrent(manifest)

\* A call on a project knows its identity, and the version its migration found.
OpeningHolds(c) ==
  /\ c.op = "inspect" => c.step \notin Opened
  /\ c.step \in Connected \cup {"connect"} => manifest \in Ids /\ c.id = manifest
  /\ c.step \in Connected => db \in Wholes
  /\ c.step \in {"begin", "stamp"} =>
       c.version \in Legacy..(Current - 1) /\ db.version \in {c.version, Current}
  /\ c.step = "stamp" => db.version = c.version

CallHolds(c, w) ==
  /\ CreationHolds(c)
  /\ OpeningHolds(c)
  /\ c.step \in {"schema", "stamp", "insert"} => writer = w

\* What a creation or an inspection was answered stays true.
AnswerHolds(a) ==
  a.ok /\ a.op \in {"create", "inspect"} =>
    manifest \in Ids /\ manifest = a.id /\ IsCurrent(manifest)

StoreInv ==
  /\ DiskHolds
  /\ call \in [Workers -> Calls]
  /\ \A w \in Workers : CallHolds(call[w], w)
  /\ \A v, w \in Workers :
       call[v].step \in Writing /\ call[w].step \in Writing => v = w
  /\ DOMAIN answer = Workers
  /\ \A w \in Workers : AnswerHolds(answer[w])

---------------------------------------------------------------------------
(* Tables and versions. *)

LEMMA Tables ==
  /\ TablesOf(1) = {"project_metadata"}
  /\ TablesOf(2) = {"project_metadata", "data_sessions", "data_segments"}
  /\ TablesOf(3) = {"project_metadata", "data_sessions", "data_segments", "dbc_assets"}
  /\ TablesFrom(1) = {"data_sessions", "data_segments", "dbc_assets"}
  /\ TablesFrom(2) = {"dbc_assets"}
<1>1. /\ Legacy..(1 - 1) = {} /\ Legacy..(2 - 1) = {1} /\ Legacy..(3 - 1) = {1, 2}
      /\ 1..(Current - 1) = {1, 2} /\ 2..(Current - 1) = {2}
  BY DEF Legacy, Current
<1>2. StepTables(1) = {"data_sessions", "data_segments"} /\ StepTables(2) = {"dbc_assets"}
  BY DEF StepTables
<1>3. /\ UNION {StepTables(k) : k \in {}} = {}
      /\ UNION {StepTables(k) : k \in {1}} = StepTables(1)
      /\ UNION {StepTables(k) : k \in {2}} = StepTables(2)
      /\ UNION {StepTables(k) : k \in {1, 2}} = StepTables(1) \cup StepTables(2)
  OBVIOUS
<1>4. TablesOf(1) = {"project_metadata"} /\ TablesOf(2) = {"project_metadata"} \cup StepTables(1)
  BY <1>1, <1>3 DEF TablesOf
<1>5. TablesOf(3) = {"project_metadata"} \cup (StepTables(1) \cup StepTables(2))
  BY <1>1, <1>3 DEF TablesOf
<1>6. TablesFrom(1) = StepTables(1) \cup StepTables(2) /\ TablesFrom(2) = StepTables(2)
  BY <1>1, <1>3 DEF TablesFrom
<1>7. QED
  BY <1>2, <1>4, <1>5, <1>6

\* What is whole has the fields and the tables of its version.
LEMMA WholesAre ==
  ASSUME NEW d \in Wholes
  PROVE  /\ d.version \in {1, 2, 3} /\ d.id \in Ids
         /\ d.tables = TablesOf(d.version)
         /\ d = WholeDatabase(d.version, d.id)
         /\ d \notin Versionless \cup Foreign
<1>1. Legacy..Current = {1, 2, 3}
  BY DEF Legacy, Current
<1>2. PICK v \in {1, 2, 3}, id \in Ids : d = WholeDatabase(v, id)
  BY <1>1 DEF Wholes
<1>3. d.version = v /\ d.tables = TablesOf(v) /\ d.id = id
  BY <1>2 DEF WholeDatabase, Database
<1>4. "project_metadata" \in TablesOf(v)
  BY Tables
<1>5. d \notin Versionless \cup Foreign
  BY <1>3, <1>4 DEF Versionless, Missing, Empty, Foreign, Database
<1>6. QED
  BY <1>2, <1>3, <1>5

LEMMA WholeFields ==
  ASSUME NEW id
  PROVE  /\ WholeDatabase(Current, id).version = Current
         /\ WholeDatabase(Current, id).tables = TablesOf(Current)
         /\ WholeDatabase(Current, id).id = id
BY DEF WholeDatabase, Database

LEMMA WholeIsWhole ==
  ASSUME NEW id \in Ids
  PROVE  WholeDatabase(Current, id) \in Wholes
<1>1. Current \in Legacy..Current
  BY DEF Legacy, Current
<1>2. QED
  BY <1>1 DEF Wholes

\* Only a database of the version a migration read takes its tables, and it becomes
\* a current one of the same identity.
LEMMA Migrates ==
  ASSUME NEW d \in Wholes, NEW v \in Legacy..(Current - 1)
  PROVE  /\ d.version \in {v, Current} /\ TablesFrom(v) \cap d.tables = {} => d.version = v
         /\ d.version = v => Migrated(d, v) = WholeDatabase(Current, d.id)
<1>1. v \in {1, 2} /\ Current = 3
  BY DEF Legacy, Current
<1>2. d.version \in {1, 2, 3} /\ d.tables = TablesOf(d.version) /\ d = WholeDatabase(d.version, d.id)
  BY WholesAre
<1>3. "dbc_assets" \in TablesFrom(v) /\ "dbc_assets" \in TablesOf(3)
  BY <1>1, Tables
<1>4. TablesOf(v) \cup TablesFrom(v) = TablesOf(3)
  <2>1. TablesOf(1) \cup TablesFrom(1) = TablesOf(3)
    BY Tables
  <2>2. TablesOf(2) \cup TablesFrom(2) = TablesOf(3)
    BY Tables
  <2>3. QED
    BY <1>1, <2>1, <2>2
<1>5. ASSUME d.version = v PROVE Migrated(d, v) = WholeDatabase(Current, d.id)
  BY <1>1, <1>2, <1>4, <1>5 DEF Migrated, WholeDatabase
<1>6. QED
  BY <1>1, <1>2, <1>3, <1>5

\* Every table is there in a current database only.
LEMMA CompleteIsCurrent ==
  ASSUME NEW d \in Wholes, TablesOf(Current) \subseteq d.tables
  PROVE  d = WholeDatabase(Current, d.id)
<1>1. d.version \in {1, 2, 3} /\ d.tables = TablesOf(d.version) /\ d = WholeDatabase(d.version, d.id)
  BY WholesAre
<1>2. /\ "dbc_assets" \in TablesOf(3)
      /\ "dbc_assets" \notin TablesOf(1) /\ "dbc_assets" \notin TablesOf(2)
  BY Tables
<1>3. d.version = 3
  BY <1>1, <1>2 DEF Current
<1>4. QED
  BY <1>1, <1>3 DEF Current

---------------------------------------------------------------------------
(* What every step of a worker leaves to the others. *)

\* g is f but for what w has.
OnlyAt(f, g, w) ==
  /\ DOMAIN g = DOMAIN f
  /\ \A v \in Workers \ {w} : g[v] = f[v]

\* No other worker loses the write lock.
KeepsLocks(w) == \A v \in Workers \ {w} : writer = v => writer' = v

LEMMA GotoFacts ==
  ASSUME call \in [Workers -> Calls], NEW w \in Workers, NEW step \in Phases, Goto(w, step)
  PROVE  /\ call' \in [Workers -> Calls] /\ OnlyAt(call, call', w)
         /\ call'[w].step = step
         /\ call'[w].op = call[w].op /\ call'[w].id = call[w].id
         /\ call'[w].version = call[w].version
<1>1. call[w] \in Calls
  OBVIOUS
<1>2. call' = [call EXCEPT ![w] = [call[w] EXCEPT !.step = step]]
  BY DEF Goto
<1>3. [call[w] EXCEPT !.step = step] \in Calls
  BY <1>1 DEF Calls
<1>4. /\ call' \in [Workers -> Calls] /\ OnlyAt(call, call', w)
      /\ call'[w] = [call[w] EXCEPT !.step = step]
  BY <1>2, <1>3 DEF OnlyAt
<1>5. QED
  BY <1>1, <1>4 DEF Calls

LEMMA IdleIsACall == Idle \in Calls
BY DEF Idle, CallOf, Calls, Phases, Current

LEMMA FinishFacts ==
  ASSUME call \in [Workers -> Calls], DOMAIN answer = Workers,
         NEW w \in Workers, NEW a, Finish(w, a)
  PROVE  /\ call' \in [Workers -> Calls] /\ OnlyAt(call, call', w)
         /\ OnlyAt(answer, answer', w)
         /\ call'[w] = Idle /\ answer'[w] = a
BY IdleIsACall DEF Finish, OnlyAt

LEMMA BeginFacts ==
  ASSUME call \in [Workers -> Calls], DOMAIN answer = Workers,
         NEW w \in Workers, NEW op \in {"create"} \cup Operations, NEW step \in Phases,
         NEW id \in Ids \cup {None}, Begin(w, op, step, id)
  PROVE  /\ call' \in [Workers -> Calls] /\ OnlyAt(call, call', w)
         /\ OnlyAt(answer, answer', w)
         /\ call[w] = Idle /\ answer'[w] = Pending
         /\ call'[w].op = op /\ call'[w].step = step /\ call'[w].id = id
<1> DEFINE c == CallOf(op, step, id)
<1>1. call' = [call EXCEPT ![w] = c] /\ call[w] = Idle /\ answer' = [answer EXCEPT ![w] = Pending]
  BY DEF Begin
<1>3. c \in Calls /\ c.op = op /\ c.step = step /\ c.id = id
  BY DEF CallOf, Calls, Current
<1> HIDE DEF c
<1>4. call' \in [Workers -> Calls] /\ call'[w] = c
  BY <1>1, <1>3
<1>5. OnlyAt(call, call', w) /\ OnlyAt(answer, answer', w) /\ answer'[w] = Pending
  BY <1>1 DEF OnlyAt
<1>6. QED
  BY <1>1, <1>3, <1>4, <1>5

\* A call that is over relies on nothing.
LEMMA IdleHolds ==
  ASSUME NEW w, call'[w] = Idle
  PROVE  CallHolds(call[w], w)'
<1>1. call'[w].op = "idle" /\ call'[w].step = "none"
  BY DEF Idle, CallOf, None
<1>2. QED
  BY <1>1 DEF CallHolds, CreationHolds, OpeningHolds, Writing, Connected, Opened, Placed, Served

\* As long as the disk stays as it is, the others go on as before.
LEMMA OthersHold ==
  ASSUME StoreInv, NEW w \in Workers, OnlyAt(call, call', w), KeepsLocks(w),
         UNCHANGED diskVars
  PROVE  \A v \in Workers \ {w} : CallHolds(call[v], v)'
<1>1. SUFFICES ASSUME NEW v \in Workers \ {w}
               PROVE  CallHolds(call[v], v)'
  OBVIOUS
<1>2. call'[v] = call[v] /\ CallHolds(call[v], v) /\ (writer = v => writer' = v)
  BY DEF OnlyAt, KeepsLocks, StoreInv
<1>3. root' = root /\ manifest' = manifest /\ db' = db
  BY DEF diskVars
<1>4. CreationHolds(call[v])'
  BY <1>2, <1>3 DEF CallHolds, CreationHolds, IsCurrent
<1>5. OpeningHolds(call[v])'
  BY <1>2, <1>3 DEF CallHolds, OpeningHolds
<1>6. QED
  BY <1>2, <1>4, <1>5 DEF CallHolds

\* What has to be shown of a step of w.
LEMMA StoreMoves ==
  ASSUME StoreInv, NEW w \in Workers,
         call' \in [Workers -> Calls], OnlyAt(call, call', w), OnlyAt(answer, answer', w),
         DiskHolds',
         \A v \in Workers \ {w} : CallHolds(call[v], v)',
         CallHolds(call[w], w)',
         call'[w].step \in Writing =>
           call[w].step \in Writing \/ \A v \in Workers : call[v].step \notin Writing,
         manifest \in Ids => manifest' = manifest /\ (IsCurrent(manifest) => db' = db),
         AnswerHolds(answer[w])'
  PROVE  StoreInv'
<1>1. \A v \in Workers : CallHolds(call[v], v)'
  OBVIOUS
<1>2. ASSUME NEW v \in Workers, NEW u \in Workers,
             call'[v].step \in Writing, call'[u].step \in Writing
      PROVE  v = u
  BY <1>2 DEF StoreInv, OnlyAt
<1>3. ASSUME NEW v \in Workers
      PROVE  AnswerHolds(answer[v])'
  <2>1. CASE v = w
    BY <2>1
  <2>2. CASE v # w
    <3>1. AnswerHolds(answer[v]) /\ answer'[v] = answer[v]
      BY <2>2 DEF StoreInv, OnlyAt
    <3>2. QED
      BY <3>1 DEF AnswerHolds, IsCurrent
  <2>3. QED
    BY <2>1, <2>2
<1>4. DOMAIN answer' = Workers
  BY DEF StoreInv, OnlyAt
<1>5. QED
  BY <1>1, <1>2, <1>3, <1>4 DEF StoreInv

\* A step that leaves the disk alone.
LEMMA StoreStays ==
  ASSUME StoreInv, NEW w \in Workers,
         call' \in [Workers -> Calls], OnlyAt(call, call', w), OnlyAt(answer, answer', w),
         KeepsLocks(w), UNCHANGED diskVars,
         CallHolds(call[w], w)',
         call'[w].step \notin Writing,
         AnswerHolds(answer[w])'
  PROVE  StoreInv'
<1>1. \A v \in Workers \ {w} : CallHolds(call[v], v)'
  BY OthersHold
<1>2. DiskHolds'
  BY DEF StoreInv, DiskHolds, diskVars
<1>3. manifest' = manifest /\ db' = db
  BY DEF diskVars
<1>4. QED
  BY <1>1, <1>2, <1>3, StoreMoves

LEMMA StoreGoes ==
  ASSUME StoreInv, NEW w \in Workers, NEW step \in Phases \ Writing, Goto(w, step),
         KeepsLocks(w), UNCHANGED <<diskVars, answer>>,
         CallHolds(call[w], w)'
  PROVE  StoreInv'
<1>1. /\ call' \in [Workers -> Calls] /\ OnlyAt(call, call', w)
      /\ call'[w].step = step
  BY GotoFacts DEF StoreInv
<1>2. OnlyAt(answer, answer', w)
  BY DEF OnlyAt
<1>3. AnswerHolds(answer[w])'
  BY DEF StoreInv, AnswerHolds, IsCurrent, diskVars
<1>4. QED
  BY <1>1, <1>2, <1>3, StoreStays

LEMMA StoreFinishes ==
  ASSUME StoreInv, NEW w \in Workers, NEW a, Finish(w, a),
         KeepsLocks(w), UNCHANGED diskVars,
         AnswerHolds(answer[w])'
  PROVE  StoreInv'
<1>1. /\ call' \in [Workers -> Calls] /\ OnlyAt(call, call', w) /\ OnlyAt(answer, answer', w)
      /\ call'[w] = Idle
  BY FinishFacts DEF StoreInv
<1>2. call'[w].step \notin Writing
  BY <1>1 DEF Idle, CallOf, None, Writing
<1>3. QED
  BY <1>1, <1>2, IdleHolds, StoreStays

\* An answer of another operation than these two, or of a failure, says nothing
\* of the disk.
LEMMA OtherAnswers ==
  ASSUME NEW w, ~answer'[w].ok \/ answer'[w].op \notin {"create", "inspect"}
  PROVE  AnswerHolds(answer[w])'
BY DEF AnswerHolds

LEMMA FailFacts ==
  ASSUME call \in [Workers -> Calls], DOMAIN answer = Workers, NEW w \in Workers, Fail(w)
  PROVE  /\ call' \in [Workers -> Calls] /\ OnlyAt(call, call', w)
         /\ OnlyAt(answer, answer', w)
         /\ call'[w] = Idle /\ ~answer'[w].ok
<1> DEFINE a == [op |-> call[w].op, ok |-> FALSE]
<1>1. Finish(w, a)
  BY DEF Fail
<1>2. ~a.ok
  OBVIOUS
<1> HIDE DEF a
<1>3. QED
  BY <1>1, <1>2, FinishFacts

LEMMA StoreFails ==
  ASSUME StoreInv, NEW w \in Workers, Fail(w), KeepsLocks(w), UNCHANGED diskVars
  PROVE  StoreInv'
<1> DEFINE a == [op |-> call[w].op, ok |-> FALSE]
<1>1. Finish(w, a) /\ ~answer'[w].ok
  BY FailFacts DEF Fail, StoreInv
<1> HIDE DEF a
<1>2. AnswerHolds(answer[w])'
  BY <1>1, OtherAnswers
<1>3. QED
  BY <1>1, <1>2, StoreFinishes

---------------------------------------------------------------------------
(* Creation. *)

\* A call that relies on nothing the disk holds.
Resting(c) ==
  /\ c.step \notin Writing \cup Connected \cup {"connect", "created"}
  /\ c.op = "create" => c.step = "mkdir" /\ c.id \in Ids

LEMMA RestHolds ==
  ASSUME NEW w, Resting(call'[w])
  PROVE  CallHolds(call[w], w)'
<1>1. "schema" \in Writing /\ {"begin", "stamp", "insert"} \subseteq Connected
      /\ {"manifest", "text"} \subseteq Writing /\ Opened \subseteq Connected
  BY DEF Writing, Connected, Opened, Placed
<1>2. "mkdir" \notin Opened
  BY DEF Opened, Placed, Served
<1>3. CreationHolds(call[w])'
  BY <1>1 DEF Resting, CreationHolds
<1>4. OpeningHolds(call[w])'
  BY <1>1 DEF Resting, OpeningHolds
<1>5. QED
  BY <1>1, <1>3, <1>4 DEF Resting, CallHolds

\* While a project is being made, or there is none, every other call waits.
LEMMA Alone ==
  ASSUME StoreInv, NEW w \in Workers, ~root \/ call[w].step \in Writing
  PROVE  /\ manifest \notin Ids
         /\ \A v \in Workers \ {w} : Resting(call[v])
         /\ ~root => \A v \in Workers : call[v].step \notin Writing
<1>1. manifest \notin Ids
  BY StoreAssumption DEF StoreInv, DiskHolds, CallHolds, CreationHolds
<1>2. ~root => \A v \in Workers : call[v].step \notin Writing
  BY DEF StoreInv, CallHolds, CreationHolds
<1>3. ASSUME NEW v \in Workers \ {w}
      PROVE  Resting(call[v])
  <2>1. CreationHolds(call[v]) /\ OpeningHolds(call[v])
    BY DEF StoreInv, CallHolds
  <2>2. call[v].step \notin Writing
    BY <1>2 DEF StoreInv
  <2>3. call[v].step \notin Connected \cup {"connect", "created"}
    BY <1>1, <2>1 DEF CreationHolds, OpeningHolds
  <2>4. QED
    BY <2>1, <2>2, <2>3 DEF Resting, CreationHolds
<1>4. QED
  BY <1>1, <1>2, <1>3

LEMMA CreationMoves ==
  ASSUME StoreInv, NEW w \in Workers, ~root \/ call[w].step \in Writing,
         call' \in [Workers -> Calls], OnlyAt(call, call', w), OnlyAt(answer, answer', w),
         DiskHolds',
         CallHolds(call[w], w)',
         AnswerHolds(answer[w])'
  PROVE  StoreInv'
<1>1. \A v \in Workers \ {w} : CallHolds(call[v], v)'
  BY Alone, RestHolds DEF OnlyAt
<1>2. QED
  BY <1>1, Alone, StoreMoves

\* A creation that takes its next step.
LEMMA CreationGoes ==
  ASSUME StoreInv, NEW w \in Workers, ~root \/ call[w].step \in Writing,
         NEW step \in Phases, Goto(w, step), UNCHANGED answer,
         DiskHolds',
         CallHolds(call[w], w)'
  PROVE  StoreInv'
<1>1. call' \in [Workers -> Calls] /\ OnlyAt(call, call', w)
  BY GotoFacts DEF StoreInv
<1>2. OnlyAt(answer, answer', w)
  BY DEF OnlyAt
<1>3. manifest \notin Ids
  BY Alone
<1>4. AnswerHolds(answer[w])'
  BY <1>3 DEF StoreInv, AnswerHolds
<1>5. QED
  BY <1>1, <1>2, <1>4, CreationMoves

LEMMA CreateKeeps ==
  ASSUME StoreInv, NEW w \in Workers, Create(w)
  PROVE  StoreInv'
<1>1. PICK id \in Ids : Begin(w, "create", "mkdir", id)
  BY DEF Create
<1>2. /\ call' \in [Workers -> Calls] /\ OnlyAt(call, call', w) /\ OnlyAt(answer, answer', w)
      /\ answer'[w] = Pending
      /\ call'[w].op = "create" /\ call'[w].step = "mkdir" /\ call'[w].id = id
  BY <1>1, BeginFacts DEF StoreInv, Phases
<1>3. "mkdir" \notin Writing \cup Connected
  BY DEF Writing, Connected, Opened, Placed, Served
<1>4. CallHolds(call[w], w)'
  BY <1>2, <1>3, RestHolds DEF Resting
<1>5. AnswerHolds(answer[w])'
  BY <1>2, OtherAnswers DEF Pending
<1>6. KeepsLocks(w) /\ UNCHANGED diskVars
  BY DEF Create, KeepsLocks
<1>7. QED
  BY <1>2, <1>3, <1>4, <1>5, <1>6, StoreStays

LEMMA MakeRootKeeps ==
  ASSUME StoreInv, NEW w \in Workers, MakeRoot(w)
  PROVE  StoreInv'
<1>1. CASE root
  <2>1. Fail(w) /\ KeepsLocks(w) /\ UNCHANGED diskVars
    BY <1>1 DEF MakeRoot, KeepsLocks, diskVars
  <2>2. QED
    BY <2>1, StoreFails
<1>2. CASE ~root
  <2>1. /\ Goto(w, "database") /\ UNCHANGED answer /\ root' = TRUE
        /\ manifest' = manifest /\ db' = db /\ call[w].op = "create"
    BY <1>2 DEF MakeRoot, At
  <2>2. "database" \in Phases
    BY DEF Phases, Writing
  <2>3. /\ call'[w].step = "database" /\ call'[w].op = "create"
        /\ call'[w].id = call[w].id
    BY <2>1, <2>2, GotoFacts DEF StoreInv
  <2>4. call[w].id \in Ids
    BY <2>1 DEF StoreInv, CallHolds, CreationHolds
  <2>5. manifest \notin Ids
    BY <1>2, Alone
  <2>6. DiskHolds'
    BY <2>1, <2>5 DEF StoreInv, DiskHolds, Versionless, Foreign, Wholes
  <2>7. CreationHolds(call[w])'
    BY <2>1, <2>3, <2>4, <2>5 DEF CreationHolds, Writing
  <2>8. OpeningHolds(call[w])'
    BY <2>3 DEF OpeningHolds, Connected, Opened, Placed, Served
  <2>9. CallHolds(call[w], w)'
    BY <2>3, <2>7, <2>8 DEF CallHolds
  <2>10. QED
    BY <1>2, <2>1, <2>2, <2>6, <2>9, CreationGoes
<1>3. QED
  BY <1>1, <1>2 DEF StoreInv, DiskHolds

\* What the steps of a creation have in common.
LEMMA CreationStep ==
  ASSUME StoreInv, NEW w \in Workers, call[w].step \in Writing,
         NEW step \in Writing \cup {"created"}, Goto(w, step)
  PROVE  /\ step \in Phases
         /\ root /\ manifest \notin Ids
         /\ call[w].op = "create" /\ call[w].id \in Ids
         /\ call'[w].step = step /\ call'[w].op = "create" /\ call'[w].id = call[w].id
         /\ OpeningHolds(call[w])'
<1>1. step \in Phases
  BY DEF Phases
<1>2. /\ call'[w].step = step /\ call'[w].op = call[w].op
      /\ call'[w].id = call[w].id
  BY <1>1, GotoFacts DEF StoreInv
<1>3. root /\ manifest \notin Ids /\ call[w].op = "create" /\ call[w].id \in Ids
  BY DEF StoreInv, CallHolds, CreationHolds
<1>4. step \notin Connected \cup {"connect"} /\ {"begin", "stamp"} \subseteq Connected
  BY DEF Writing, Connected, Opened, Placed, Served
<1>5. OpeningHolds(call[w])'
  BY <1>2, <1>3, <1>4 DEF OpeningHolds
<1>6. QED
  BY <1>1, <1>2, <1>3, <1>5

LEMMA CreateDatabaseKeeps ==
  ASSUME StoreInv, NEW w \in Workers, CreateDatabase(w)
  PROVE  StoreInv'
<1>1. /\ call[w].step \in Writing /\ Goto(w, "schema") /\ UNCHANGED answer
      /\ root' = root /\ manifest' = manifest /\ db' = Empty /\ writer' = w
  BY DEF CreateDatabase, At, Following, Writing
<1>2. "schema" \in Writing
  BY DEF Writing
<1>3. DiskHolds'
  BY <1>1, <1>2, CreationStep DEF StoreInv, DiskHolds, Versionless
<1>4. CreationHolds(call[w])'
  BY <1>1, <1>2, CreationStep DEF CreationHolds
<1>5. CallHolds(call[w], w)'
  BY <1>1, <1>2, <1>4, CreationStep DEF CallHolds
<1>6. QED
  BY <1>1, <1>2, <1>3, <1>5, CreationStep, CreationGoes

LEMMA CreateSchemaKeeps ==
  ASSUME StoreInv, NEW w \in Workers, CreateSchema(w)
  PROVE  StoreInv'
<1>1. /\ call[w].step \in Writing /\ Goto(w, "manifest") /\ UNCHANGED answer
      /\ root' = root /\ manifest' = manifest /\ db' = WholeDatabase(Current, call[w].id)
  BY DEF CreateSchema, At, Following, Writing
<1>2. "manifest" \in Writing
  BY DEF Writing
<1>3. WholeDatabase(Current, call[w].id) \in Wholes
  BY <1>1, <1>2, CreationStep, WholeIsWhole
<1>4. DiskHolds'
  BY <1>1, <1>2, <1>3, CreationStep DEF StoreInv, DiskHolds
<1>5. CreationHolds(call[w])'
  BY <1>1, <1>2, CreationStep DEF CreationHolds, IsCurrent
<1>6. CallHolds(call[w], w)'
  BY <1>1, <1>2, <1>5, CreationStep DEF CallHolds
<1>7. QED
  BY <1>1, <1>2, <1>4, <1>6, CreationStep, CreationGoes

LEMMA OpenManifestKeeps ==
  ASSUME StoreInv, NEW w \in Workers, OpenManifest(w)
  PROVE  StoreInv'
<1>1. /\ call[w].step \in Writing /\ call[w].step = "manifest"
      /\ Goto(w, "text") /\ UNCHANGED answer
      /\ root' = root /\ manifest' = Partial /\ db' = db
  BY DEF OpenManifest, At, Following, Writing
<1>2. "text" \in Writing
  BY DEF Writing
<1>3. DiskHolds'
  BY <1>1, <1>2, CreationStep, StoreAssumption DEF StoreInv, DiskHolds, Wholes, Foreign, Versionless
<1>4. IsCurrent(call[w].id)
  BY <1>1 DEF StoreInv, CallHolds, CreationHolds
<1>5. CreationHolds(call[w])'
  BY <1>1, <1>2, <1>4, CreationStep, StoreAssumption DEF CreationHolds, IsCurrent
<1>6. CallHolds(call[w], w)'
  BY <1>1, <1>2, <1>5, CreationStep DEF CallHolds
<1>7. QED
  BY <1>1, <1>2, <1>3, <1>6, CreationStep, CreationGoes

LEMMA WriteManifestKeeps ==
  ASSUME StoreInv, NEW w \in Workers, WriteManifest(w)
  PROVE  StoreInv'
<1>1. /\ call[w].step \in Writing /\ call[w].step = "text"
      /\ Goto(w, "created") /\ UNCHANGED answer
      /\ root' = root /\ manifest' = call[w].id /\ db' = db
  BY DEF WriteManifest, At, Following, Writing
<1>2. "created" \in Writing \cup {"created"} /\ "created" \notin Writing
  BY DEF Writing
<1>3. IsCurrent(call[w].id) /\ call[w].id \in Ids
  BY <1>1 DEF StoreInv, CallHolds, CreationHolds
<1>4. db \in Wholes /\ db \notin Versionless
  BY <1>3, WholeIsWhole, WholesAre DEF IsCurrent
<1>5. DiskHolds'
  BY <1>1, <1>2, <1>3, <1>4, CreationStep DEF StoreInv, DiskHolds, Wholes
<1>6. CreationHolds(call[w])'
  BY <1>1, <1>2, <1>3, CreationStep DEF CreationHolds, IsCurrent
<1>7. CallHolds(call[w], w)'
  BY <1>1, <1>2, <1>6, CreationStep DEF CallHolds
<1>8. QED
  BY <1>1, <1>2, <1>5, <1>7, CreationStep, CreationGoes

LEMMA CreatedKeeps ==
  ASSUME StoreInv, NEW w \in Workers, Created(w)
  PROVE  StoreInv'
<1> DEFINE a == [op |-> call[w].op, ok |-> TRUE, id |-> call[w].id]
<1>1. /\ call[w].step = "created" /\ Finish(w, a)
      /\ UNCHANGED diskVars /\ KeepsLocks(w)
  BY DEF Created, Succeed, At, KeepsLocks
<1>2. manifest \in Ids /\ call[w].id = manifest /\ IsCurrent(manifest)
  BY <1>1 DEF StoreInv, CallHolds, CreationHolds
<1>3. a.id = call[w].id
  OBVIOUS
<1> HIDE DEF a
<1>4. answer'[w] = a
  BY <1>1, FinishFacts DEF StoreInv
<1>5. AnswerHolds(answer[w])'
  BY <1>1, <1>2, <1>3, <1>4 DEF AnswerHolds, IsCurrent, diskVars
<1>6. QED
  BY <1>1, <1>5, StoreFinishes

LEMMA CreateFailsKeeps ==
  ASSUME StoreInv, NEW w \in Workers, CreateFails(w)
  PROVE  StoreInv'
<1>1. /\ call[w].step \in Writing /\ Fail(w)
      /\ manifest' \in {manifest, None} /\ db' \in {db, Missing}
      /\ root' \in IF manifest' = None /\ db' = Missing THEN BOOLEAN ELSE {TRUE}
  BY DEF CreateFails, Writing
<1>2. manifest \notin Ids
  BY <1>1, Alone
<1>3. DiskHolds'
  <2>1. manifest' \notin Ids /\ manifest' \in Ids \cup {None, Partial}
    BY <1>1, <1>2, StoreAssumption DEF StoreInv, DiskHolds
  <2>2. db' \in Versionless \cup Foreign \cup Wholes
    BY <1>1 DEF StoreInv, DiskHolds, Versionless
  <2>3. root' \in BOOLEAN /\ (~root' => manifest' = None)
    BY <1>1
  <2>4. QED
    BY <2>1, <2>2, <2>3 DEF DiskHolds, Versionless, Foreign, Wholes
<1>4. /\ call' \in [Workers -> Calls] /\ OnlyAt(call, call', w) /\ OnlyAt(answer, answer', w)
      /\ call'[w] = Idle /\ ~answer'[w].ok
  BY <1>1, FailFacts DEF StoreInv
<1>5. CallHolds(call[w], w)' /\ AnswerHolds(answer[w])'
  BY <1>4, IdleHolds, OtherAnswers
<1>6. QED
  BY <1>1, <1>3, <1>4, <1>5, CreationMoves

LEMMA CreateStepKeeps ==
  ASSUME StoreInv, NEW w \in Workers, CreateStep(w)
  PROVE  StoreInv'
BY CreateKeeps, MakeRootKeeps, CreateDatabaseKeeps, CreateSchemaKeeps, OpenManifestKeeps,
   WriteManifestKeeps, CreatedKeeps, CreateFailsKeeps DEF CreateStep

---------------------------------------------------------------------------
(* Opening. *)

\* The steps of opening, by the sets above.
LEMMA StepsApart ==
  /\ {"open", "connect", "migrate", "begin", "stamp", "verify"} \subseteq Phases
  /\ Connected \cap (Writing \cup {"open", "connect", "created"}) = {}
  /\ Opened \subseteq Connected /\ {"migrate", "begin", "stamp", "verify"} \subseteq Connected
  /\ {"migrate", "begin", "stamp", "verify"} \cap Opened = {}
  /\ {"open", "connect"} \cap Writing = {}
  /\ Phases \cap Connected = Connected
BY DEF Phases, Connected, Opened, Placed, Served, Writing

\* A call on a project is of an operation on one.
LEMMA OperationOf ==
  ASSUME StoreInv, NEW w \in Workers, call[w].step \in Connected \cup {"open", "connect"}
  PROVE  call[w].op # "create"
<1>1. CreationHolds(call[w])
  BY DEF StoreInv, CallHolds
<1>2. call[w].step \notin Writing \cup {"mkdir", "created"}
  BY DEF Connected, Opened, Placed, Served, Writing
<1>3. QED
  BY <1>1, <1>2 DEF CreationHolds

\* A connected call keeps what it relies on, at any step that needs no lock and no
\* version.
LEMMA ConnectedHolds ==
  ASSUME StoreInv, NEW w \in Workers, NEW step \in Connected \ {"begin", "stamp", "insert"},
         call[w].step \in Connected \cup {"connect"}, db \in Wholes,
         Goto(w, step), UNCHANGED diskVars,
         call[w].op = "inspect" => step \notin Opened
  PROVE  CallHolds(call[w], w)'
<1>1. /\ call'[w].step = step /\ call'[w].op = call[w].op
      /\ call'[w].id = call[w].id
  BY GotoFacts DEF StoreInv, Phases
<1>2. manifest \in Ids /\ call[w].id = manifest
  BY DEF StoreInv, CallHolds, OpeningHolds
<1>3. step \notin Writing \cup {"mkdir", "created"} /\ "schema" \in Writing
      /\ {"manifest", "text"} \subseteq Writing
  BY DEF Connected, Opened, Placed, Served, Writing
<1>4. manifest' = manifest /\ db' = db
  BY DEF diskVars
<1>5. CreationHolds(call[w])'
  BY <1>1, <1>3, OperationOf DEF CreationHolds
<1>6. OpeningHolds(call[w])'
  BY <1>1, <1>2, <1>4 DEF OpeningHolds
<1>7. QED
  BY <1>1, <1>3, <1>5, <1>6 DEF CallHolds

LEMMA ConnectedGoes ==
  ASSUME StoreInv, NEW w \in Workers, NEW step \in Connected \ {"begin", "stamp", "insert"},
         call[w].step \in Connected \cup {"connect"}, db \in Wholes,
         Goto(w, step), UNCHANGED <<diskVars, answer>>, KeepsLocks(w),
         call[w].op = "inspect" => step \notin Opened
  PROVE  StoreInv'
<1>1. step \in Phases \ Writing
  BY StepsApart
<1>2. CallHolds(call[w], w)'
  BY ConnectedHolds
<1>3. QED
  BY <1>1, <1>2, StoreGoes

LEMMA InspectKeeps ==
  ASSUME StoreInv, NEW w \in Workers, NEW op \in Operations, Begin(w, op, "open", None),
         UNCHANGED <<diskVars, writer>>
  PROVE  StoreInv'
<1>1. /\ call' \in [Workers -> Calls] /\ OnlyAt(call, call', w) /\ OnlyAt(answer, answer', w)
      /\ answer'[w] = Pending /\ call'[w].op = op /\ call'[w].step = "open"
  BY BeginFacts, StepsApart DEF StoreInv
<1>2. "open" \notin Writing \cup Connected \cup {"connect", "created"}
  BY StepsApart
<1>3. op # "create"
  BY DEF Operations
<1>4. CallHolds(call[w], w)'
  BY <1>1, <1>2, <1>3, RestHolds DEF Resting
<1>5. AnswerHolds(answer[w])'
  BY <1>1, OtherAnswers DEF Pending
<1>6. KeepsLocks(w)
  BY DEF KeepsLocks
<1>7. QED
  BY <1>1, <1>2, <1>4, <1>5, <1>6, StoreStays

LEMMA ReadManifestKeeps ==
  ASSUME StoreInv, NEW w \in Workers, ReadManifest(w)
  PROVE  StoreInv'
<1>1. call[w].step = "open" /\ UNCHANGED diskVars /\ KeepsLocks(w)
  BY DEF ReadManifest, KeepsLocks
<1>2. CASE root /\ manifest \in Ids /\ db # Missing
  <2>1. call' = [call EXCEPT ![w] = [@ EXCEPT !.step = "connect", !.id = manifest]]
        /\ UNCHANGED answer
    BY <1>2 DEF ReadManifest
  <2>2. call[w] \in Calls
    BY DEF StoreInv
  <2>3. PICK c : c = [call[w] EXCEPT !.step = "connect", !.id = manifest]
    OBVIOUS
  <2>4. c \in Calls /\ c.op = call[w].op /\ c.step = "connect" /\ c.id = manifest
    <3>1. c = [op |-> call[w].op, step |-> "connect", id |-> manifest,
               version |-> call[w].version]
      BY <2>2, <2>3 DEF Calls
    <3>2. QED
      BY <1>2, <2>2, <3>1, StepsApart DEF Calls
  <2>5. call' \in [Workers -> Calls] /\ OnlyAt(call, call', w) /\ call'[w] = c
    BY <2>1, <2>3, <2>4 DEF StoreInv, OnlyAt
  <2>6. OnlyAt(answer, answer', w) /\ AnswerHolds(answer[w])'
    BY <1>1, <2>1 DEF OnlyAt, StoreInv, AnswerHolds, IsCurrent, diskVars
  <2>7. c.op # "create"
    BY <1>1, <2>4, OperationOf
  <2>8. "connect" \notin Writing \cup Connected \cup {"mkdir", "created"}
        /\ {"manifest", "text", "schema"} \subseteq Writing /\ Opened \subseteq Connected
        /\ {"begin", "stamp", "insert"} \subseteq Connected
    BY DEF Writing, Connected, Opened, Placed, Served
  <2>9. CreationHolds(call[w])'
    BY <2>4, <2>5, <2>7, <2>8 DEF CreationHolds
  <2>10. OpeningHolds(call[w])'
    BY <1>1, <1>2, <2>4, <2>5, <2>8 DEF OpeningHolds, diskVars
  <2>11. CallHolds(call[w], w)'
    BY <2>4, <2>5, <2>8, <2>9, <2>10 DEF CallHolds
  <2>12. QED
    BY <1>1, <2>4, <2>5, <2>6, <2>8, <2>11, StoreStays
<1>3. CASE ~(root /\ manifest \in Ids /\ db # Missing)
  <2>1. Fail(w)
    BY <1>3 DEF ReadManifest
  <2>2. QED
    BY <1>1, <2>1, StoreFails
<1>4. QED
  BY <1>2, <1>3

LEMMA ConnectKeeps ==
  ASSUME StoreInv, NEW w \in Workers, Connect(w)
  PROVE  StoreInv'
<1>1. call[w].step = "connect" /\ UNCHANGED diskVars /\ KeepsLocks(w)
  BY DEF Connect, KeepsLocks
<1>2. CASE db = Missing \/ db.version \notin Legacy..Current \/ ~HasMetadata
  <2>1. Fail(w)
    BY <1>2 DEF Connect
  <2>2. QED
    BY <1>1, <2>1, StoreFails
<1>3. CASE ~(db = Missing \/ db.version \notin Legacy..Current \/ ~HasMetadata)
  <2>1. UNCHANGED answer /\ \E step \in {"migrate", "verify"} : Goto(w, step)
    BY <1>3 DEF Connect
  <2>2. db \notin Versionless \cup Foreign
    BY <1>3 DEF HasMetadata, Versionless, Foreign, Missing, Empty, Database
  <2>3. db \in Wholes
    BY <2>2 DEF StoreInv, DiskHolds
  <2>4. PICK step \in {"migrate", "verify"} : Goto(w, step)
    BY <2>1
  <2>5. step \in Connected \ {"begin", "stamp", "insert"} /\ step \notin Opened
    BY StepsApart
  <2>6. QED
    BY <1>1, <2>1, <2>3, <2>4, <2>5, ConnectedGoes
<1>4. QED
  BY <1>2, <1>3

\* What the step of a migration has at hand.
LEMMA MigrationFacts ==
  ASSUME StoreInv, NEW w \in Workers, call[w].step \in {"migrate", "begin", "stamp", "verify"}
  PROVE  /\ manifest \in Ids /\ call[w].id = manifest /\ db \in Wholes
         /\ db.version \in {1, 2, 3}
         /\ call[w].op # "create" /\ call[w] \in Calls
<1>1. call[w].step \in Connected
  BY StepsApart
<1>2. manifest \in Ids /\ call[w].id = manifest /\ db \in Wholes /\ call[w] \in Calls
  BY <1>1 DEF StoreInv, CallHolds, OpeningHolds
<1>3. QED
  BY <1>1, <1>2, OperationOf, WholesAre

\* A call that is migrating, at version v.
LEMMA MigratingHolds ==
  ASSUME StoreInv, NEW w \in Workers,
         call[w].step \in {"migrate", "begin"}, UNCHANGED diskVars,
         call'[w].step \in {"begin", "stamp"},
         call'[w].op = call[w].op, call'[w].id = call[w].id,
         call'[w].version \in Legacy..(Current - 1),
         db.version \in {call'[w].version, Current},
         call'[w].step = "stamp" => writer' = w /\ db.version = call'[w].version
  PROVE  CallHolds(call[w], w)'
<1>1. manifest' = manifest /\ db' = db
  BY DEF diskVars
<1>2. {"begin", "stamp"} \cap (Writing \cup Opened \cup {"mkdir", "created", "schema", "insert"}) = {}
      /\ {"manifest", "text"} \subseteq Writing
  BY DEF Writing, Opened, Placed, Served
<1>3. CreationHolds(call[w])'
  BY <1>2, MigrationFacts DEF CreationHolds
<1>4. OpeningHolds(call[w])'
  BY <1>1, <1>2, MigrationFacts DEF OpeningHolds
<1>5. QED
  BY <1>2, <1>3, <1>4 DEF CallHolds

LEMMA BeginMigrationKeeps ==
  ASSUME StoreInv, NEW w \in Workers, BeginMigration(w)
  PROVE  StoreInv'
<1>1. PICK step \in {"verify", "begin"} :
        /\ step = "begin" => db.version # Current
        /\ call' = [call EXCEPT ![w] = [@ EXCEPT !.step = step, !.version = db.version]]
  BY DEF BeginMigration
<1>2. call[w].step = "migrate" /\ UNCHANGED <<diskVars, answer>> /\ KeepsLocks(w)
  BY DEF BeginMigration, KeepsLocks
<1>3. /\ call[w] \in Calls /\ db.version \in {1, 2, 3} /\ db \in Wholes /\ call[w].id = manifest
      /\ manifest \in Ids /\ call[w].op # "create"
  BY <1>2, MigrationFacts
<1>4. PICK c : c = [call[w] EXCEPT !.step = step, !.version = db.version]
  OBVIOUS
<1>5. /\ c \in Calls /\ c.op = call[w].op /\ c.id = call[w].id /\ c.step = step
      /\ c.version = db.version
  <2>1. step \in Phases /\ db.version \in 0..Current
    BY <1>3, StepsApart DEF Current
  <2>2. c = [op |-> call[w].op, step |-> step, id |-> call[w].id, version |-> db.version]
    BY <1>3, <1>4 DEF Calls
  <2>3. QED
    BY <1>3, <2>1, <2>2 DEF Calls
<1>6. call' \in [Workers -> Calls] /\ OnlyAt(call, call', w) /\ call'[w] = c
  BY <1>1, <1>4, <1>5 DEF StoreInv, OnlyAt
<1>7. OnlyAt(answer, answer', w) /\ AnswerHolds(answer[w])'
  BY <1>2 DEF OnlyAt, StoreInv, AnswerHolds, IsCurrent, diskVars
<1>8. CallHolds(call[w], w)'
  <2>1. CASE step = "begin"
    <3>1. db.version \in Legacy..(Current - 1)
      BY <1>1, <1>3, <2>1 DEF Legacy, Current
    <3>2. QED
      BY <1>2, <1>5, <1>6, <2>1, <3>1, MigratingHolds
  <2>2. CASE step = "verify"
    <3>1. "verify" \in Connected /\ "verify" \notin Writing \cup Opened \cup {"mkdir", "created"}
          /\ {"manifest", "text", "schema"} \subseteq Writing
      BY DEF Connected, Writing, Opened, Placed, Served
    <3>2. CreationHolds(call[w])'
      BY <1>3, <1>5, <1>6, <2>2, <3>1 DEF CreationHolds
    <3>3. OpeningHolds(call[w])'
      BY <1>2, <1>3, <1>5, <1>6, <2>2, <3>1 DEF OpeningHolds, diskVars
    <3>4. QED
      BY <1>5, <1>6, <2>2, <3>1, <3>2, <3>3 DEF CallHolds
  <2>3. QED
    BY <1>1, <2>1, <2>2
<1>9. call'[w].step \notin Writing
  BY <1>1, <1>5, <1>6 DEF Writing
<1>10. QED
  BY <1>2, <1>6, <1>7, <1>8, <1>9, StoreStays

LEMMA LockForMigrationKeeps ==
  ASSUME StoreInv, NEW w \in Workers, LockForMigration(w)
  PROVE  StoreInv'
<1>1. call[w].step = "begin" /\ writer = None /\ UNCHANGED diskVars
  BY DEF LockForMigration
<1>2. KeepsLocks(w)
  BY <1>1, StoreAssumption DEF KeepsLocks
<1>3. CASE TablesFrom(call[w].version) \cap db.tables = {}
  <2>1. writer' = w /\ Goto(w, "stamp") /\ UNCHANGED answer
    BY <1>3 DEF LockForMigration
  <2>2. /\ call'[w].step = "stamp" /\ call'[w].op = call[w].op
        /\ call'[w].id = call[w].id /\ call'[w].version = call[w].version
    BY <2>1, StepsApart, GotoFacts DEF StoreInv
  <2>3. call[w].version \in Legacy..(Current - 1) /\ db.version \in {call[w].version, Current}
    BY <1>1 DEF StoreInv, CallHolds, OpeningHolds
  <2>4. db.version = call[w].version
    BY <1>1, <1>3, <2>3, MigrationFacts, Migrates
  <2>5. CallHolds(call[w], w)'
    BY <1>1, <2>1, <2>2, <2>3, <2>4, MigratingHolds
  <2>6. "stamp" \in Phases \ Writing
    BY StepsApart
  <2>7. QED
    BY <1>1, <1>2, <2>1, <2>5, <2>6, StoreGoes
<1>4. CASE ~(TablesFrom(call[w].version) \cap db.tables = {})
  <2>1. Fail(w)
    BY <1>4 DEF LockForMigration
  <2>2. QED
    BY <1>1, <1>2, <2>1, StoreFails
<1>5. QED
  BY <1>3, <1>4

\* One migration commits at a time, and what is current stays as it is.
LEMMA CommitMigrationKeeps ==
  ASSUME StoreInv, NEW w \in Workers, CommitMigration(w)
  PROVE  StoreInv'
<1>1. /\ call[w].step = "stamp" /\ db' = Migrated(db, call[w].version) /\ Goto(w, "verify")
      /\ root' = root /\ manifest' = manifest /\ UNCHANGED answer
  BY DEF CommitMigration
<1>2. /\ call[w].version \in Legacy..(Current - 1) /\ db.version = call[w].version
      /\ writer = w
  BY <1>1 DEF StoreInv, CallHolds, OpeningHolds
<1>3. manifest \in Ids /\ call[w].id = manifest /\ db \in Wholes /\ call[w].op # "create"
  BY <1>1, MigrationFacts
<1>4. db' = WholeDatabase(Current, db.id) /\ db.id \in Ids
  BY <1>1, <1>2, <1>3, Migrates, WholesAre
<1>5. db' \in Wholes /\ db' \notin Versionless /\ db'.version = Current
  BY <1>4, WholeIsWhole, WholesAre, WholeFields
<1>6. DiskHolds'
  BY <1>1, <1>3, <1>5 DEF StoreInv, DiskHolds
<1>7. ~IsCurrent(manifest)
  BY <1>2, WholeFields DEF IsCurrent, Legacy, Current
<1>8. /\ call' \in [Workers -> Calls] /\ OnlyAt(call, call', w)
      /\ call'[w].step = "verify" /\ call'[w].op = call[w].op
      /\ call'[w].id = call[w].id
  BY <1>1, StepsApart, GotoFacts DEF StoreInv
<1>9. CallHolds(call[w], w)'
  <2>1. "verify" \in Connected /\ "verify" \notin Writing \cup Opened \cup {"mkdir", "created"}
        /\ {"manifest", "text", "schema"} \subseteq Writing
    BY DEF Connected, Writing, Opened, Placed, Served
  <2>2. CreationHolds(call[w])'
    BY <1>3, <1>8, <2>1 DEF CreationHolds
  <2>3. OpeningHolds(call[w])'
    BY <1>1, <1>3, <1>5, <1>8, <2>1 DEF OpeningHolds
  <2>4. QED
    BY <1>8, <2>1, <2>2, <2>3 DEF CallHolds
<1>10. ASSUME NEW v \in Workers \ {w}
       PROVE  CallHolds(call[v], v)'
  <2>1. call'[v] = call[v] /\ CreationHolds(call[v]) /\ OpeningHolds(call[v])
    BY <1>8 DEF OnlyAt, StoreInv, CallHolds
  <2>2. call[v].step \notin {"schema", "stamp", "insert"}
    BY <1>2 DEF StoreInv, CallHolds
  <2>3. call[v].step \notin Writing \cup {"created"}
    BY <1>3, <1>7, <2>1 DEF CreationHolds
  <2>4. {"manifest", "text"} \subseteq Writing
    BY DEF Writing
  <2>5. CreationHolds(call[v])'
    BY <2>1, <2>3, <2>4 DEF CreationHolds
  <2>6. OpeningHolds(call[v])'
    BY <1>1, <1>5, <2>1, <2>2 DEF OpeningHolds
  <2>7. QED
    BY <2>1, <2>2, <2>5, <2>6 DEF CallHolds
<1>11. OnlyAt(answer, answer', w) /\ AnswerHolds(answer[w])'
  <2>1. AnswerHolds(answer[w])
    BY DEF StoreInv
  <2>2. QED
    BY <1>1, <1>7, <2>1 DEF OnlyAt, AnswerHolds
<1>12. call'[w].step \notin Writing
  BY <1>8, StepsApart DEF Writing
<1>13. QED
  BY <1>1, <1>6, <1>7, <1>8, <1>9, <1>10, <1>11, <1>12, StoreMoves

LEMMA MigrationFailsKeeps ==
  ASSUME StoreInv, NEW w \in Workers, MigrationFails(w)
  PROVE  StoreInv'
<1>1. Fail(w) /\ UNCHANGED diskVars /\ KeepsLocks(w)
  BY DEF MigrationFails, KeepsLocks
<1>2. QED
  BY <1>1, StoreFails

LEMMA OpenStepKeeps ==
  ASSUME StoreInv, NEW w \in Workers, OpenStep(w)
  PROVE  StoreInv'
BY ReadManifestKeeps, ConnectKeeps, BeginMigrationKeeps, LockForMigrationKeeps,
   CommitMigrationKeeps, MigrationFailsKeeps DEF OpenStep

\* What is verified is current, complete and of the identity the call knows.
LEMMA VerifiedIsCurrent ==
  ASSUME StoreInv, NEW w \in Workers, call[w].step = "verify", Verified(w)
  PROVE  manifest \in Ids /\ call[w].id = manifest /\ IsCurrent(manifest)
<1>1. manifest \in Ids /\ call[w].id = manifest /\ db \in Wholes
  BY MigrationFacts
<1>2. TablesOf(Current) \subseteq db.tables /\ db.id = call[w].id
  BY DEF Verified, HasTables, Agree
<1>3. QED
  BY <1>1, <1>2, CompleteIsCurrent DEF IsCurrent

LEMMA InspectedKeeps ==
  ASSUME StoreInv, NEW w \in Workers, Inspected(w)
  PROVE  StoreInv'
<1>1. call[w].step = "verify" /\ UNCHANGED diskVars /\ KeepsLocks(w)
  BY DEF Inspected, At, KeepsLocks
<1>2. CASE Verified(w)
  <2> DEFINE a == [op |-> call[w].op, ok |-> TRUE, id |-> call[w].id]
  <2>1. Finish(w, a) /\ a.id = call[w].id
    BY <1>2 DEF Inspected, Succeed
  <2> HIDE DEF a
  <2>2. answer'[w] = a
    BY <2>1, FinishFacts DEF StoreInv
  <2>3. AnswerHolds(answer[w])'
    BY <1>1, <1>2, <2>1, <2>2, VerifiedIsCurrent DEF AnswerHolds, IsCurrent, diskVars
  <2>4. QED
    BY <1>1, <2>1, <2>3, StoreFinishes
<1>3. CASE ~Verified(w)
  <2>1. Fail(w)
    BY <1>3 DEF Inspected
  <2>2. QED
    BY <1>1, <2>1, StoreFails
<1>4. QED
  BY <1>2, <1>3

LEMMA KilledKeeps ==
  ASSUME StoreInv, Killed
  PROVE  StoreInv'
<1>1. /\ call' = [w \in Workers |-> Idle] /\ answer' = [w \in Workers |-> Pending]
      /\ UNCHANGED diskVars
  BY DEF Killed
<1>2. DiskHolds'
  BY <1>1 DEF StoreInv, DiskHolds, diskVars
<1>3. \A w \in Workers : CallHolds(call[w], w)'
  BY <1>1, IdleHolds
<1>4. \A w \in Workers : call'[w].step \notin Writing
  BY <1>1 DEF Idle, CallOf, None, Writing
<1>5. \A w \in Workers : AnswerHolds(answer[w])'
  BY <1>1, OtherAnswers DEF Pending
<1>6. call' \in [Workers -> Calls] /\ DOMAIN answer' = Workers
  BY <1>1, IdleIsACall
<1>7. QED
  BY <1>2, <1>3, <1>4, <1>5, <1>6 DEF StoreInv

LEMMA StoreInvInit ==
  ASSUME StoreInit
  PROVE  StoreInv
<1>1. /\ call = [w \in Workers |-> Idle] /\ answer = [w \in Workers |-> Pending]
  BY DEF StoreInit
<1>2. DiskHolds
  <2>1. CASE root = FALSE /\ manifest = None /\ db = Missing
    BY <2>1, StoreAssumption DEF DiskHolds, Versionless
  <2>2. CASE /\ root = TRUE
             /\ \E id \in Ids, other \in Ids :
                   /\ manifest = id
                   /\ \/ \E v \in Legacy..Current : db = WholeDatabase(v, other)
                      \/ db \in Foreign
    <3>1. root = TRUE /\ manifest \in Ids /\ db \in Foreign \cup Wholes
      BY <2>2 DEF Wholes
    <3>2. db \notin Versionless
      <4>1. \A d \in Foreign : d \notin Versionless
        BY DEF Foreign, Versionless, Missing, Empty, Database, Legacy, Current
      <4>2. QED
        BY <3>1, <4>1, WholesAre
    <3>3. QED
      BY <3>1, <3>2 DEF DiskHolds
  <2>3. QED
    BY <2>1, <2>2 DEF StoreInit
<1>3. ASSUME NEW w \in Workers
      PROVE  CallHolds(call[w], w)
  <2>1. call[w].op = "idle" /\ call[w].step = "none"
    BY <1>1 DEF Idle, CallOf, None
  <2>2. QED
    BY <2>1 DEF CallHolds, CreationHolds, OpeningHolds, Writing, Connected, Opened, Placed, Served
<1>4. \A w \in Workers : call[w].step \notin Writing
  BY <1>1 DEF Idle, CallOf, None, Writing
<1>5. \A w \in Workers : AnswerHolds(answer[w])
  BY <1>1 DEF AnswerHolds, Pending
<1>6. call \in [Workers -> Calls] /\ DOMAIN answer = Workers
  BY <1>1, IdleIsACall
<1>7. QED
  BY <1>2, <1>3, <1>4, <1>5, <1>6 DEF StoreInv

\* The invariant says what the run checks.
LEMMA StoreInvIsEnough ==
  ASSUME StoreInv
  PROVE  ProjectIsWhole
<1>1. db \in {Missing, Empty} \cup Foreign \/ db.tables = TablesOf(db.version)
  BY WholesAre DEF StoreInv, DiskHolds, Versionless
<1>2. manifest \in Ids => db \notin {Missing, Empty}
  BY DEF StoreInv, DiskHolds, Versionless
<1>3. \A w \in Workers :
        answer[w].ok /\ answer[w].op \in {"create", "inspect"} =>
          manifest = answer[w].id /\ db = WholeDatabase(Current, manifest)
  BY DEF StoreInv, AnswerHolds, IsCurrent
<1>4. QED
  BY <1>1, <1>2, <1>3 DEF ProjectIsWhole

---------------------------------------------------------------------------
(* What holds of the assets. *)

Rows == [asset : Assets, content : Contents, encoding : Encodings, project : Ids]
Tasks == [content : Contents \cup {None}, raw : Contents \cup {None},
          encoding : Encodings \cup {None}, asset : Assets \cup {0}]

\* A row is of a document, and its bytes are there unless others touched them.
RowHolds(row) ==
  /\ row.asset \in used
  /\ <<row.content, row.encoding>> \in Parsable
  /\ row.asset \notin tampered => files[row.asset] = row.content

RegistryHolds ==
  /\ registry \subseteq Rows /\ used \subseteq Assets
  /\ files \in [Assets -> Contents \cup {None}] /\ source \in Contents
  /\ \A row \in registry : RowHolds(row)
  /\ \A r, s \in registry : r.asset = s.asset => r = s

\* What an import has validated is what it stores, under an identity of its own,
\* and what a read has verified is what its row says.
TaskHolds(c, t) ==
  /\ c.op = "import" => t.raw = t.content
  /\ c.step \in {"reread", "identify"} \cup Placed => <<t.content, t.encoding>> \in Parsable
  /\ c.step \in {"identify"} \cup Placed => t.raw = t.content
  /\ c.step \in Placed => t.asset \in used /\ ~IsRegistered(t.asset)
  /\ c.step \in {"register", "insert"} => (t.asset \notin tampered => files[t.asset] = t.raw)
  /\ c.step \in {"lookup"} \cup Served => c.op # "import"
  /\ c.step \in Served => IsRegistered(t.asset)
  /\ c.step \in Served \ {"read"} => t.raw = RowOf(t.asset).content

\* No two imports have one identity.
TasksHold ==
  /\ task \in [Workers -> Tasks]
  /\ \A w \in Workers : TaskHolds(call[w], task[w])
  /\ \A v, w \in Workers :
       /\ call[v].step \in Placed /\ call[w].step \in Placed
       /\ task[v].asset = task[w].asset
       => v = w

\* An entry of the cache is the decoder of its key, and the only one.
Entry(row) == [key |-> KeyOf(row), decoder |-> DecoderOf(row.content, row.encoding)]
Entries == {Entry(row) : row \in Rows}
OneOfEach(entries) ==
  \A i, j \in DOMAIN entries : entries[i].key = entries[j].key => i = j
CacheHolds ==
  /\ cache \in Seq(Entries)
  /\ Len(cache) =< MaxEntries
  /\ OneOfEach(cache)

ResultHolds(a) ==
  /\ a.ok /\ a.op \in {"import", "import_path", "load", "decode"} => a.row \in registry
  /\ a.ok /\ a.op \in {"load", "decode"} =>
       a.decoder = DecoderOf(a.row.content, a.row.encoding)
ResultsHold == DOMAIN answer = Workers /\ \A w \in Workers : ResultHolds(answer[w])

AssetsInv == RegistryHolds /\ TasksHold /\ CacheHolds /\ ResultsHold

IInv == StoreInv /\ AssetsInv

\* The registry and what its rows are of.
rows == <<registry, files, source, used, tampered>>

LEMMA RowOfIs ==
  ASSUME RegistryHolds, NEW asset, IsRegistered(asset)
  PROVE  /\ RowOf(asset) \in registry /\ RowOf(asset) \in Rows
         /\ RowOf(asset).asset = asset
BY DEF IsRegistered, RowOf, RegistryHolds

LEMMA RowOfRow ==
  ASSUME RegistryHolds, NEW row \in registry
  PROVE  RowOf(row.asset) = row
<1>1. IsRegistered(row.asset)
  BY DEF IsRegistered
<1>2. QED
  BY <1>1, RowOfIs DEF RegistryHolds

LEMMA TaskOfFacts ==
  ASSUME NEW content \in Contents \cup {None}, NEW encoding \in Encodings \cup {None},
         NEW asset \in Assets \cup {0}
  PROVE  /\ TaskOf(content, encoding, asset) \in Tasks
         /\ TaskOf(content, encoding, asset).raw = TaskOf(content, encoding, asset).content
BY DEF TaskOf, Tasks

---------------------------------------------------------------------------
(* What every step of a worker leaves to the others. *)

LEMMA ResultsMove ==
  ASSUME ResultsHold, NEW w \in Workers, OnlyAt(answer, answer', w),
         registry \subseteq registry', ResultHolds(answer[w])'
  PROVE  ResultsHold'
<1>1. ASSUME NEW v \in Workers \ {w}
      PROVE  ResultHolds(answer[v])'
  <2>1. answer'[v] = answer[v] /\ ResultHolds(answer[v])
    BY DEF OnlyAt, ResultsHold
  <2>2. QED
    BY <2>1 DEF ResultHolds
<1>2. QED
  BY <1>1 DEF ResultsHold, OnlyAt

LEMMA OtherResults ==
  ASSUME NEW w, \/ ~answer'[w].ok
                \/ answer'[w].op \notin {"import", "import_path", "load", "decode"}
  PROVE  ResultHolds(answer[w])'
BY DEF ResultHolds

\* A call that has neither bytes nor a row.
LEMMA PlainTask ==
  ASSUME NEW w, call'[w].step \notin Opened,
         call'[w].op = "import" => task'[w].raw = task'[w].content
  PROVE  TaskHolds(call[w], task[w])'
<1>1. /\ {"reread", "identify", "lookup"} \subseteq Opened /\ Placed \subseteq Opened /\ Served \subseteq Opened
      /\ {"register", "insert"} \subseteq Placed
  BY DEF Opened, Placed
<1>2. QED
  BY <1>1 DEF TaskHolds

\* Steps that leave the registry, the copies and the identities alone.
LEMMA TasksMove ==
  ASSUME TasksHold, NEW w \in Workers, UNCHANGED rows,
         OnlyAt(call, call', w), OnlyAt(task, task', w), task' \in [Workers -> Tasks],
         TaskHolds(call[w], task[w])',
         call'[w].step \in Placed =>
           call[w].step \in Placed /\ task'[w].asset = task[w].asset
  PROVE  TasksHold'
<1>1. ASSUME NEW v \in Workers \ {w}
      PROVE  TaskHolds(call[v], task[v])'
  <2>1. call'[v] = call[v] /\ task'[v] = task[v] /\ TaskHolds(call[v], task[v])
    BY DEF OnlyAt, TasksHold
  <2>2. /\ used' = used /\ tampered' = tampered /\ files' = files
        /\ registry' = registry
    BY DEF rows
  <2>3. QED
    BY <2>1, <2>2 DEF TaskHolds, IsRegistered, RowOf
<1>2. ASSUME NEW u \in Workers, NEW v \in Workers,
             call'[u].step \in Placed, call'[v].step \in Placed,
             task'[u].asset = task'[v].asset
      PROVE  u = v
  <2>1. \A x \in Workers : call'[x].step \in Placed =>
          call[x].step \in Placed /\ task'[x].asset = task[x].asset
    BY DEF OnlyAt
  <2>2. QED
    BY <1>2, <2>1 DEF TasksHold
<1>3. QED
  BY <1>1, <1>2 DEF TasksHold

LEMMA RegistryStays ==
  ASSUME RegistryHolds, UNCHANGED rows
  PROVE  RegistryHolds'
BY DEF RegistryHolds, RowHolds, rows

LEMMA CacheStays ==
  ASSUME CacheHolds, UNCHANGED cache
  PROVE  CacheHolds'
BY DEF CacheHolds, OneOfEach

\* The call of w is over: what it answered is all there is to show.
LEMMA AssetsFinish ==
  ASSUME IInv, NEW w \in Workers, NEW a, Finish(w, a),
         task' = [task EXCEPT ![w] = NoTask], UNCHANGED rows, CacheHolds',
         ResultHolds(answer[w])'
  PROVE  AssetsInv'
<1>1. /\ OnlyAt(call, call', w) /\ OnlyAt(answer, answer', w) /\ call'[w] = Idle
  BY FinishFacts DEF IInv, StoreInv
<1>2. NoTask \in Tasks /\ task \in [Workers -> Tasks]
  BY TaskOfFacts DEF NoTask, IInv, AssetsInv, TasksHold
<1>3. task' \in [Workers -> Tasks] /\ OnlyAt(task, task', w)
  BY <1>2 DEF OnlyAt
<1>4. call'[w].op = "idle" /\ call'[w].step \notin Opened
  BY <1>1 DEF Idle, CallOf, None, Opened, Placed, Served
<1>5. TaskHolds(call[w], task[w])' /\ call'[w].step \notin Placed
  BY <1>4, PlainTask DEF Opened
<1>6. TasksHold'
  BY <1>1, <1>3, <1>5, TasksMove DEF IInv, AssetsInv
<1>7. ResultsHold'
  BY <1>1, ResultsMove DEF IInv, AssetsInv, rows
<1>8. QED
  BY <1>6, <1>7, RegistryStays DEF IInv, AssetsInv

LEMMA RefuseKeeps ==
  ASSUME IInv, NEW w \in Workers, Refuse(w), KeepsLocks(w), UNCHANGED <<diskVars, rows, cache>>
  PROVE  IInv'
<1> DEFINE a == [op |-> call[w].op, ok |-> FALSE]
<1>1. Fail(w) /\ Finish(w, a) /\ task' = [task EXCEPT ![w] = NoTask]
  BY DEF Refuse, Fail
<1>2. ~answer'[w].ok
  BY <1>1, FailFacts DEF IInv, StoreInv
<1> HIDE DEF a
<1>3. ResultHolds(answer[w])'
  BY <1>2, OtherResults
<1>4. StoreInv'
  BY <1>1, StoreFails DEF IInv
<1>5. CacheHolds'
  BY CacheStays DEF IInv, AssetsInv
<1>6. AssetsInv'
  BY <1>1, <1>3, <1>5, AssetsFinish
<1>7. QED
  BY <1>4, <1>6 DEF IInv

\* A call on an open project is of one of the operations on assets.
LEMMA OpenedOperation ==
  ASSUME StoreInv, NEW w \in Workers, call[w].step \in Opened
  PROVE  /\ call[w].op \notin {"create", "inspect"}
         /\ call[w].step \in Connected /\ db \in Wholes
         /\ manifest \in Ids /\ call[w].id = manifest
<1>1. call[w].step \in Connected
  BY StepsApart
<1>2. QED
  BY <1>1, OperationOf DEF StoreInv, CallHolds, OpeningHolds

LEMMA ReturnKeeps ==
  ASSUME IInv, NEW w \in Workers, NEW row \in registry, NEW decoder, Return(w, row, decoder),
         call[w].step \in Opened, KeepsLocks(w), UNCHANGED <<diskVars, rows>>, CacheHolds',
         call[w].op \in {"load", "decode"} => decoder = DecoderOf(row.content, row.encoding)
  PROVE  IInv'
<1> DEFINE a == [op |-> call[w].op, ok |-> TRUE, row |-> row, decoder |-> decoder]
<1>1. Finish(w, a) /\ task' = [task EXCEPT ![w] = NoTask]
  BY DEF Return
<1>2. a.op = call[w].op /\ a.row = row /\ a.decoder = decoder
  OBVIOUS
<1> HIDE DEF a
<1>3. answer'[w] = a
  BY <1>1, FinishFacts DEF IInv, StoreInv
<1>4. AnswerHolds(answer[w])'
  BY <1>2, <1>3, OpenedOperation, OtherAnswers DEF IInv
<1>5. StoreInv'
  BY <1>1, <1>4, StoreFinishes DEF IInv
<1>6. registry' = registry
  BY DEF rows
<1>7. ResultHolds(answer[w])'
  BY <1>2, <1>3, <1>6 DEF ResultHolds
<1>8. AssetsInv'
  BY <1>1, <1>7, AssetsFinish
<1>9. QED
  BY <1>5, <1>8 DEF IInv

\* A call goes on, and only its own task changes.
LEMMA AssetsGo ==
  ASSUME IInv, NEW w \in Workers, NEW step \in Connected \ {"begin", "stamp"},
         call[w].step \in Connected, Goto(w, step), UNCHANGED <<rows, cache, answer>>,
         OnlyAt(task, task', w), task' \in [Workers -> Tasks],
         TaskHolds(call[w], task[w])',
         step \in Placed => call[w].step \in Placed /\ task'[w].asset = task[w].asset
  PROVE  AssetsInv'
<1>1. OnlyAt(call, call', w) /\ call'[w].step = step
  BY GotoFacts DEF IInv, StoreInv, Phases
<1>2. TasksHold'
  BY <1>1, TasksMove DEF IInv, AssetsInv
<1>3. ResultsHold'
  BY DEF IInv, AssetsInv, ResultsHold, ResultHolds, rows
<1>4. QED
  BY <1>2, <1>3, RegistryStays, CacheStays DEF IInv, AssetsInv

LEMMA GoesKeeps ==
  ASSUME IInv, NEW w \in Workers, NEW step \in Connected \ {"begin", "stamp", "insert"},
         call[w].step \in Connected, Goto(w, step), UNCHANGED <<diskVars, rows, cache, answer>>,
         KeepsLocks(w), call[w].op = "inspect" => step \notin Opened,
         OnlyAt(task, task', w), task' \in [Workers -> Tasks],
         TaskHolds(call[w], task[w])',
         step \in Placed => call[w].step \in Placed /\ task'[w].asset = task[w].asset
  PROVE  IInv'
<1>1. db \in Wholes
  BY DEF IInv, StoreInv, CallHolds, OpeningHolds
<1>2. StoreInv'
  BY <1>1, ConnectedGoes DEF IInv
<1>3. AssetsInv'
  BY AssetsGo
<1>4. QED
  BY <1>2, <1>3 DEF IInv

\* What a step that changes one field of its task makes of it.
LEMMA TaskStays ==
  ASSUME TasksHold, UNCHANGED task, NEW w
  PROVE  OnlyAt(task, task', w) /\ task' \in [Workers -> Tasks]
BY DEF TasksHold, OnlyAt

---------------------------------------------------------------------------
(* The steps of the store. *)

\* A step of a call that is not on an open project.
LEMMA StoreOnly ==
  ASSUME IInv, NEW w \in Workers, StoreInv', UNCHANGED <<rows, cache>>,
         OnlyAt(call, call', w), OnlyAt(answer, answer', w),
         OnlyAt(task, task', w), task' \in [Workers -> Tasks],
         call'[w].step \notin Opened,
         call'[w].op = "import" => task'[w].raw = task'[w].content,
         \/ answer'[w] = answer[w]
         \/ ~answer'[w].ok
         \/ answer'[w].op \notin {"import", "import_path", "load", "decode"}
  PROVE  IInv'
<1>1. TaskHolds(call[w], task[w])' /\ call'[w].step \notin Placed
  BY PlainTask DEF Opened
<1>2. TasksHold'
  BY <1>1, TasksMove DEF IInv, AssetsInv
<1>3. ResultHolds(answer[w])'
  <2>1. CASE answer'[w] = answer[w]
    BY <2>1 DEF IInv, AssetsInv, ResultsHold, ResultHolds, rows
  <2>2. CASE answer'[w] # answer[w]
    BY <2>2, OtherResults
  <2>3. QED
    BY <2>1, <2>2
<1>4. ResultsHold'
  BY <1>3, ResultsMove DEF IInv, AssetsInv, rows
<1>5. QED
  BY <1>2, <1>4, RegistryStays, CacheStays DEF IInv, AssetsInv

\* A failing call of the store.
LEMMA StoreFailsOnly ==
  ASSUME StoreInv, NEW w \in Workers, Fail(w)
  PROVE  /\ OnlyAt(call, call', w) /\ OnlyAt(answer, answer', w)
         /\ call'[w].step \notin Opened /\ call'[w].op = "idle" /\ ~answer'[w].ok
<1>1. OnlyAt(call, call', w) /\ OnlyAt(answer, answer', w) /\ call'[w] = Idle /\ ~answer'[w].ok
  BY FailFacts DEF StoreInv
<1>2. QED
  BY <1>1 DEF Idle, CallOf, None, Opened, Placed, Served

LEMMA StoreGoesOnly ==
  ASSUME StoreInv, NEW w \in Workers, NEW step \in Phases \ Opened, Goto(w, step),
         UNCHANGED answer
  PROVE  /\ OnlyAt(call, call', w) /\ OnlyAt(answer, answer', w)
         /\ call'[w].step \notin Opened /\ call'[w].op = call[w].op
         /\ answer'[w] = answer[w]
BY GotoFacts DEF StoreInv, OnlyAt

LEMMA StoreSucceedsOnly ==
  ASSUME StoreInv, NEW w \in Workers, Succeed(w), call[w].op \in {"create", "inspect"}
  PROVE  /\ OnlyAt(call, call', w) /\ OnlyAt(answer, answer', w)
         /\ call'[w].step \notin Opened /\ call'[w].op = "idle"
         /\ answer'[w].op \in {"create", "inspect"}
<1> DEFINE a == [op |-> call[w].op, ok |-> TRUE, id |-> call[w].id]
<1>1. Finish(w, a) /\ a.op = call[w].op
  BY DEF Succeed
<1> HIDE DEF a
<1>2. OnlyAt(call, call', w) /\ OnlyAt(answer, answer', w) /\ call'[w] = Idle /\ answer'[w] = a
  BY <1>1, FinishFacts DEF StoreInv
<1>3. call'[w].step \notin Opened /\ call'[w].op = "idle"
  BY <1>2 DEF Idle, CallOf, None, Opened, Placed, Served
<1>4. QED
  BY <1>1, <1>2, <1>3

\* What a step of a creation does to the calls and answers.
LEMMA CreateStepOnly ==
  ASSUME StoreInv, NEW w \in Workers, CreateStep(w)
  PROVE  /\ OnlyAt(call, call', w) /\ OnlyAt(answer, answer', w)
         /\ call'[w].step \notin Opened /\ call'[w].op \in {"create", "idle"}
         /\ \/ answer'[w] = answer[w] \/ ~answer'[w].ok \/ answer'[w].op \in {"create", "inspect"}
<1> DEFINE Only == /\ OnlyAt(call, call', w) /\ OnlyAt(answer, answer', w)
                   /\ call'[w].step \notin Opened /\ call'[w].op \in {"create", "idle"}
                   /\ \/ answer'[w] = answer[w] \/ ~answer'[w].ok
                      \/ answer'[w].op \in {"create", "inspect"}
<1> HIDE DEF Only
<1>1. (Writing \cup {"created", "mkdir"}) \subseteq Phases \ Opened
  BY DEF Phases, Writing, Opened, Placed, Served
<1>2. CASE Create(w)
  <2>1. PICK id \in Ids : Begin(w, "create", "mkdir", id)
    BY <1>2 DEF Create
  <2>2. /\ OnlyAt(call, call', w) /\ OnlyAt(answer, answer', w) /\ answer'[w] = Pending
        /\ call'[w].op = "create" /\ call'[w].step = "mkdir"
    BY <1>1, <2>1, BeginFacts DEF StoreInv
  <2>3. QED
    BY <1>1, <2>2 DEF Pending
<1>3. CASE Fail(w)
  BY <1>3, StoreFailsOnly
<1>4. ASSUME NEW step \in Writing \cup {"created", "mkdir"}, Goto(w, step), UNCHANGED answer,
             call[w].op = "create"
      PROVE  Only
  BY <1>1, <1>4, StoreGoesOnly DEF Only
<1>5. CASE MakeRoot(w)
  <2>1. Fail(w) \/ (Goto(w, "database") /\ UNCHANGED answer /\ call[w].op = "create")
    BY <1>5 DEF MakeRoot, At
  <2>2. QED
    BY <1>3, <1>4, <2>1 DEF Writing, Only
<1>6. CASE \/ CreateDatabase(w) \/ CreateSchema(w) \/ OpenManifest(w) \/ WriteManifest(w)
  <2>1. \E step \in {"schema", "manifest", "text", "created"} :
           Goto(w, step) /\ UNCHANGED answer /\ call[w].op = "create"
    BY <1>6 DEF CreateDatabase, CreateSchema, OpenManifest, WriteManifest, Following, At
  <2>2. QED
    BY <1>4, <2>1 DEF Writing, Only
<1>7. CASE Created(w)
  <2>1. Succeed(w) /\ call[w].op = "create"
    BY <1>7 DEF Created, At
  <2>2. QED
    BY <2>1, StoreSucceedsOnly
<1>8. CASE CreateFails(w)
  BY <1>3, <1>8 DEF CreateFails
<1>9. QED
  BY <1>2, <1>5, <1>6, <1>7, <1>8 DEF CreateStep

LEMMA StoreStepKeeps ==
  ASSUME IInv, NEW w \in Workers, StoreStep(w)
  PROVE  IInv'
<1>1. UNCHANGED <<rows, cache, task>>
  BY DEF StoreStep, assetVars, rows
<1>2. OnlyAt(task, task', w) /\ task' \in [Workers -> Tasks]
  BY <1>1, TaskStays DEF IInv, AssetsInv
<1>3. CASE CreateStep(w)
  <2>1. StoreInv'
    BY <1>3, CreateStepKeeps DEF IInv
  <2>2. /\ OnlyAt(call, call', w) /\ OnlyAt(answer, answer', w)
        /\ call'[w].step \notin Opened /\ call'[w].op \in {"create", "idle"}
        /\ \/ answer'[w] = answer[w] \/ ~answer'[w].ok \/ answer'[w].op \in {"create", "inspect"}
    BY <1>3, CreateStepOnly DEF IInv
  <2>3. QED
    BY <1>1, <1>2, <2>1, <2>2, StoreOnly
<1>4. CASE Inspect(w)
  <2>1. Begin(w, "inspect", "open", None) /\ UNCHANGED <<diskVars, writer>>
    BY <1>4 DEF Inspect
  <2>2. "inspect" \in Operations /\ "open" \in Phases /\ "open" \notin Opened
    BY StepsApart DEF Operations
  <2>3. StoreInv'
    BY <2>1, <2>2, InspectKeeps DEF IInv
  <2>4. /\ OnlyAt(call, call', w) /\ OnlyAt(answer, answer', w) /\ answer'[w] = Pending
        /\ call'[w].op = "inspect" /\ call'[w].step = "open"
    BY <2>1, <2>2, BeginFacts DEF IInv, StoreInv
  <2>5. QED
    BY <1>1, <1>2, <2>2, <2>3, <2>4, StoreOnly DEF Pending
<1>5. CASE Inspected(w)
  <2>1. StoreInv'
    BY <1>5, InspectedKeeps DEF IInv
  <2>2. Fail(w) \/ (Succeed(w) /\ call[w].op \in {"create", "inspect"})
    BY <1>5 DEF Inspected, At
  <2>3. /\ OnlyAt(call, call', w) /\ OnlyAt(answer, answer', w)
        /\ call'[w].step \notin Opened /\ call'[w].op = "idle"
        /\ ~answer'[w].ok \/ answer'[w].op \in {"create", "inspect"}
    BY <2>2, StoreFailsOnly, StoreSucceedsOnly DEF IInv
  <2>4. QED
    BY <1>1, <1>2, <2>1, <2>3, StoreOnly
<1>6. QED
  BY <1>3, <1>4, <1>5 DEF StoreStep

\* What a step of opening does to the calls and answers.
LEMMA OpenStepOnly ==
  ASSUME StoreInv, NEW w \in Workers, OpenStep(w)
  PROVE  /\ OnlyAt(call, call', w) /\ OnlyAt(answer, answer', w)
         /\ call'[w].step \notin Opened /\ call'[w].op \in {call[w].op, "idle"}
         /\ answer'[w] = answer[w] \/ ~answer'[w].ok
<1>1. {"connect", "migrate", "begin", "stamp", "verify"} \subseteq Phases \ Opened
  BY StepsApart
<1>2. CASE Fail(w)
  BY <1>2, StoreFailsOnly
<1>3. CASE (\E step \in {"migrate", "stamp", "verify"} : Goto(w, step)) /\ UNCHANGED answer
  <2>1. PICK step \in {"migrate", "stamp", "verify"} : Goto(w, step)
    BY <1>3
  <2>2. QED
    BY <1>1, <1>3, <2>1, StoreGoesOnly
<1>4. CASE ReadManifest(w) /\ ~Fail(w)
  <2>1. call' = [call EXCEPT ![w] = [@ EXCEPT !.step = "connect", !.id = manifest]]
        /\ UNCHANGED answer
    BY <1>4 DEF ReadManifest
  <2>2. call[w] \in Calls /\ DOMAIN call = Workers
    BY DEF StoreInv
  <2>3. call'[w] = [call[w] EXCEPT !.step = "connect", !.id = manifest]
    BY <2>1, <2>2
  <2>4. call'[w].step = "connect" /\ call'[w].op = call[w].op
    BY <2>2, <2>3 DEF Calls
  <2>5. OnlyAt(call, call', w) /\ OnlyAt(answer, answer', w)
    BY <2>1, <2>2 DEF OnlyAt
  <2>6. QED
    BY <1>1, <2>1, <2>4, <2>5
<1>5. CASE BeginMigration(w)
  <2>1. PICK step \in {"verify", "begin"} :
          call' = [call EXCEPT ![w] = [@ EXCEPT !.step = step, !.version = db.version]]
          /\ UNCHANGED answer
    BY <1>5 DEF BeginMigration
  <2>2. call[w] \in Calls /\ DOMAIN call = Workers
    BY DEF StoreInv
  <2>3. call'[w] = [call[w] EXCEPT !.step = step, !.version = db.version]
    BY <2>1, <2>2
  <2>4. call'[w].step = step /\ call'[w].op = call[w].op
    BY <2>2, <2>3 DEF Calls
  <2>5. OnlyAt(call, call', w) /\ OnlyAt(answer, answer', w)
    BY <2>1, <2>2 DEF OnlyAt
  <2>6. QED
    BY <1>1, <2>1, <2>4, <2>5
<1>6. CASE Connect(w)
  BY <1>2, <1>3, <1>6 DEF Connect
<1>7. CASE LockForMigration(w)
  BY <1>2, <1>3, <1>7 DEF LockForMigration
<1>8. CASE CommitMigration(w)
  BY <1>3, <1>8 DEF CommitMigration
<1>9. CASE MigrationFails(w)
  BY <1>2, <1>9 DEF MigrationFails
<1>10. QED
  BY <1>2, <1>4, <1>5, <1>6, <1>7, <1>8, <1>9 DEF OpenStep

LEMMA OpeningKeeps ==
  ASSUME IInv, NEW w \in Workers, Opening(w)
  PROVE  IInv'
<1>1. /\ OpenStep(w) /\ UNCHANGED <<rows, cache>>
      /\ task' = IF call'[w] = Idle THEN [task EXCEPT ![w] = NoTask] ELSE task
  BY DEF Opening, environment, rows
<1>2. /\ OnlyAt(call, call', w) /\ OnlyAt(answer, answer', w)
      /\ call'[w].step \notin Opened /\ call'[w].op \in {call[w].op, "idle"}
      /\ answer'[w] = answer[w] \/ ~answer'[w].ok
  BY <1>1, OpenStepOnly DEF IInv
<1>3. StoreInv'
  BY <1>1, OpenStepKeeps DEF IInv
<1>4. task \in [Workers -> Tasks] /\ NoTask \in Tasks
  BY TaskOfFacts DEF NoTask, IInv, AssetsInv, TasksHold
<1>5. OnlyAt(task, task', w) /\ task' \in [Workers -> Tasks]
  BY <1>1, <1>4 DEF OnlyAt
<1>6. task'[w] = NoTask \/ task'[w] = task[w]
  BY <1>1, <1>4
<1>7. call'[w].op = "import" => task'[w].raw = task'[w].content
  <2>1. NoTask.raw = NoTask.content
    BY TaskOfFacts DEF NoTask
  <2>2. call[w].op = "import" => task[w].raw = task[w].content
    BY DEF IInv, AssetsInv, TasksHold, TaskHolds
  <2>3. call'[w].op = "import" => call[w].op = "import"
    BY <1>2
  <2>4. QED
    BY <1>6, <2>1, <2>2, <2>3
<1>8. QED
  BY <1>1, <1>2, <1>3, <1>5, <1>7, StoreOnly

\* A call on a project begins.
LEMMA BeginKeeps ==
  ASSUME IInv, NEW w \in Workers, NEW op \in Operations, Begin(w, op, "open", None),
         NEW content \in Contents \cup {None}, NEW encoding \in Encodings \cup {None},
         NEW asset \in Assets \cup {0},
         task' = [task EXCEPT ![w] = TaskOf(content, encoding, asset)],
         UNCHANGED <<diskVars, writer, rows, cache>>
  PROVE  IInv'
<1>1. StoreInv'
  BY InspectKeeps DEF IInv
<1>2. "open" \in Phases /\ "open" \notin Opened
  BY StepsApart
<1>3. /\ OnlyAt(call, call', w) /\ OnlyAt(answer, answer', w) /\ answer'[w] = Pending
      /\ call'[w].step = "open"
  BY <1>2, BeginFacts DEF IInv, StoreInv
<1>4. PICK t \in Tasks : t = TaskOf(content, encoding, asset) /\ t.raw = t.content
  BY TaskOfFacts
<1>5. task \in [Workers -> Tasks]
  BY DEF IInv, AssetsInv, TasksHold
<1>6. task' \in [Workers -> Tasks] /\ OnlyAt(task, task', w) /\ task'[w] = t
  BY <1>4, <1>5 DEF OnlyAt
<1>7. task'[w].raw = task'[w].content
  BY <1>4, <1>6
<1>8. ~answer'[w].ok
  BY <1>3 DEF Pending
<1>9. QED
  BY <1>1, <1>2, <1>3, <1>6, <1>7, <1>8, StoreOnly

LEMMA ImportKeeps ==
  ASSUME IInv, NEW w \in Workers, ImportBytes(w) \/ ImportPath(w) \/ Ask(w)
  PROVE  IInv'
<1>1. UNCHANGED <<diskVars, writer, rows, cache>>
  BY DEF ImportBytes, ImportPath, Import, Ask, environment, rows
<1>2. CASE ImportBytes(w)
  <2>1. PICK content \in Contents, encoding \in Encodings : Import(w, "import", content, encoding)
    BY <1>2 DEF ImportBytes
  <2>2. /\ Begin(w, "import", "open", None)
        /\ task' = [task EXCEPT ![w] = TaskOf(content, encoding, 0)]
    BY <2>1 DEF Import
  <2>3. "import" \in Operations
    BY DEF Operations
  <2>4. QED
    BY <1>1, <2>2, <2>3, BeginKeeps
<1>3. CASE ImportPath(w)
  <2>1. PICK encoding \in Encodings : Import(w, "import_path", None, encoding)
    BY <1>3 DEF ImportPath
  <2>2. /\ Begin(w, "import_path", "open", None)
        /\ task' = [task EXCEPT ![w] = TaskOf(None, encoding, 0)]
    BY <2>1 DEF Import
  <2>3. "import_path" \in Operations
    BY DEF Operations
  <2>4. QED
    BY <1>1, <2>2, <2>3, BeginKeeps
<1>4. CASE Ask(w)
  <2>1. PICK op \in {"get", "load", "decode"}, asset \in Assets :
          /\ Begin(w, op, "open", None)
          /\ task' = [task EXCEPT ![w] = TaskOf(None, None, asset)]
    BY <1>4 DEF Ask
  <2>2. op \in Operations
    BY DEF Operations
  <2>3. QED
    BY <1>1, <2>1, <2>2, BeginKeeps
<1>5. QED
  BY <1>2, <1>3, <1>4

---------------------------------------------------------------------------
\* A set of naturals that is not empty has a least element.
LEMMA LeastOf ==
  ASSUME NEW T, T \subseteq Nat, T # {}
  PROVE  \E x \in T : \A y \in T : x <= y
<1>1. PICK x \in T : \A y \in T : ~(<<y, x>> \in OpToRel(<, Nat))
  BY NatLessThanWellFounded, WFMin
<1>2. \A y, z \in Nat : <<y, z>> \in OpToRel(<, Nat) <=> y < z
  BY DEF OpToRel
<1>3. \A y \in T : ~(y < x)
  BY <1>1, <1>2
<1>4. \A y \in T : x <= y
  BY <1>3
<1>5. QED
  BY <1>4

---------------------------------------------------------------------------
(* Importing. *)

LEMMA SetRaw ==
  ASSUME task \in [Workers -> Tasks], NEW w \in Workers, NEW x \in Contents \cup {None},
         task' = [task EXCEPT ![w].raw = x]
  PROVE  /\ task' \in [Workers -> Tasks] /\ OnlyAt(task, task', w)
         /\ task'[w].raw = x /\ task'[w].content = task[w].content
         /\ task'[w].encoding = task[w].encoding /\ task'[w].asset = task[w].asset
<1>1. PICK t \in Tasks : t = task[w]
  OBVIOUS
<1>2. PICK u : u = [t EXCEPT !.raw = x]
  OBVIOUS
<1>3. u \in Tasks /\ u.raw = x /\ u.content = t.content /\ u.encoding = t.encoding /\ u.asset = t.asset
  BY <1>1, <1>2 DEF Tasks
<1>4. task' = [task EXCEPT ![w] = u]
  BY <1>1, <1>2
<1>5. QED
  BY <1>1, <1>3, <1>4 DEF OnlyAt

LEMMA SetContent ==
  ASSUME task \in [Workers -> Tasks], NEW w \in Workers, NEW x \in Contents \cup {None},
         task' = [task EXCEPT ![w].content = x]
  PROVE  /\ task' \in [Workers -> Tasks] /\ OnlyAt(task, task', w)
         /\ task'[w].content = x /\ task'[w].raw = task[w].raw
         /\ task'[w].encoding = task[w].encoding /\ task'[w].asset = task[w].asset
<1>1. PICK t \in Tasks : t = task[w]
  OBVIOUS
<1>2. PICK u : u = [t EXCEPT !.content = x]
  OBVIOUS
<1>3. u \in Tasks /\ u.content = x /\ u.raw = t.raw /\ u.encoding = t.encoding /\ u.asset = t.asset
  BY <1>1, <1>2 DEF Tasks
<1>4. task' = [task EXCEPT ![w] = u]
  BY <1>1, <1>2
<1>5. QED
  BY <1>1, <1>3, <1>4 DEF OnlyAt

LEMMA SetAsset ==
  ASSUME task \in [Workers -> Tasks], NEW w \in Workers, NEW x \in Assets \cup {0},
         task' = [task EXCEPT ![w].asset = x]
  PROVE  /\ task' \in [Workers -> Tasks] /\ OnlyAt(task, task', w)
         /\ task'[w].asset = x /\ task'[w].raw = task[w].raw
         /\ task'[w].content = task[w].content /\ task'[w].encoding = task[w].encoding
<1>1. PICK t \in Tasks : t = task[w]
  OBVIOUS
<1>2. PICK u : u = [t EXCEPT !.asset = x]
  OBVIOUS
<1>3. u \in Tasks /\ u.asset = x /\ u.raw = t.raw /\ u.content = t.content /\ u.encoding = t.encoding
  BY <1>1, <1>2 DEF Tasks
<1>4. task' = [task EXCEPT ![w] = u]
  BY <1>1, <1>2
<1>5. QED
  BY <1>1, <1>3, <1>4 DEF OnlyAt

\* The steps of the sets above, one by one.
LEMMA AssetSteps ==
  /\ {"parse", "reread", "identify", "lookup"} \cup Placed \cup Served \subseteq Opened
  /\ Opened \cap {"begin", "stamp", "verify"} = {}
  /\ {"parse", "reread", "identify", "lookup"} \cap (Placed \cup Served) = {}
  /\ Placed \cap Served = {}
  /\ Placed = {"stage", "promote", "register", "insert"}
  /\ Served = {"read", "load", "consult", "compile"}
BY DEF Opened, Placed, Served

LEMMA IdentifiedKeeps ==
  ASSUME IInv, NEW w \in Workers, Identified(w)
  PROVE  IInv'
<1>1. /\ call[w].step = "verify" /\ call[w].op # "inspect" /\ KeepsLocks(w)
      /\ UNCHANGED <<diskVars, rows, cache>>
  BY DEF Identified, KeepsLocks, project, environment, rows
<1>2. CASE Verified(w)
  <2>1. PICK step \in {"parse", "lookup"} :
          Goto(w, step) /\ (step = "lookup" => call[w].op # "import")
    BY <1>2 DEF Identified, Importing
  <2>2. UNCHANGED <<answer, task>>
    BY <1>2 DEF Identified
  <2>3. /\ step \in Connected \ {"begin", "stamp", "insert"}
        /\ step \notin {"reread", "identify"} \cup Placed \cup Served
        /\ call[w].step \in Connected /\ "parse" \notin Served
        /\ {"register", "insert"} \subseteq Placed
    BY <1>1, StepsApart, AssetSteps
  <2>4. call'[w].step = step /\ call'[w].op = call[w].op
    BY <2>1, <2>3, GotoFacts DEF IInv, StoreInv, Phases
  <2>5. OnlyAt(task, task', w) /\ task' \in [Workers -> Tasks]
    BY <2>2, TaskStays DEF IInv, AssetsInv
  <2>6. TaskHolds(call[w], task[w])'
    BY <2>1, <2>2, <2>3, <2>4 DEF IInv, AssetsInv, TasksHold, TaskHolds
  <2>7. QED
    BY <1>1, <2>1, <2>2, <2>3, <2>5, <2>6, GoesKeeps
<1>3. CASE ~Verified(w)
  <2>1. Refuse(w)
    BY <1>3 DEF Identified
  <2>2. QED
    BY <1>1, <2>1, RefuseKeeps
<1>4. QED
  BY <1>2, <1>3

LEMMA ParseKeeps ==
  ASSUME IInv, NEW w \in Workers, Parse(w)
  PROVE  IInv'
<1>1. /\ Importing(w) /\ call[w].step = "parse" /\ KeepsLocks(w)
      /\ UNCHANGED <<diskVars, rows, cache>>
  BY DEF Parse, KeepsLocks, project, environment, rows
<1>2. PICK content : content = IF call[w].op = "import" THEN task[w].content ELSE source
  OBVIOUS
<1>3. CASE <<content, task[w].encoding>> \in Parsable
  <2>1. /\ task' = [task EXCEPT ![w].content = content] /\ UNCHANGED answer
        /\ Goto(w, IF call[w].op = "import" THEN "identify" ELSE "reread")
    BY <1>2, <1>3 DEF Parse
  <2>2. PICK step \in {"identify", "reread"} :
          /\ Goto(w, step)
          /\ step = IF call[w].op = "import" THEN "identify" ELSE "reread"
    BY <2>1
  <2>3. content \in Contents
    BY <1>3, AssetAssumption
  <2>4. task \in [Workers -> Tasks]
    BY DEF IInv, AssetsInv, TasksHold
  <2>5. /\ task' \in [Workers -> Tasks] /\ OnlyAt(task, task', w)
        /\ task'[w].content = content /\ task'[w].raw = task[w].raw
        /\ task'[w].encoding = task[w].encoding
    BY <2>1, <2>3, <2>4, SetContent
  <2>6. /\ step \in Connected \ {"begin", "stamp", "insert"}
        /\ step \notin Placed \cup Served /\ call[w].step \in Connected
        /\ {"register", "insert"} \subseteq Placed
    BY <1>1, StepsApart, AssetSteps
  <2>7. call'[w].step = step /\ call'[w].op = call[w].op
    BY <2>2, <2>6, GotoFacts DEF IInv, StoreInv, Phases
  <2>8. call[w].op = "import" => task[w].raw = task[w].content
    BY DEF IInv, AssetsInv, TasksHold, TaskHolds
  <2>9. TaskHolds(call[w], task[w])'
    BY <1>2, <1>3, <2>2, <2>5, <2>6, <2>7, <2>8 DEF TaskHolds
  <2>10. call[w].op # "inspect"
    BY <1>1, AssetSteps, OpenedOperation DEF IInv
  <2>11. QED
    BY <1>1, <2>1, <2>2, <2>5, <2>6, <2>9, <2>10, GoesKeeps
<1>4. CASE ~(<<content, task[w].encoding>> \in Parsable)
  <2>1. Refuse(w)
    BY <1>2, <1>4 DEF Parse
  <2>2. QED
    BY <1>1, <2>1, RefuseKeeps
<1>5. QED
  BY <1>3, <1>4

LEMMA RereadKeeps ==
  ASSUME IInv, NEW w \in Workers, Reread(w)
  PROVE  IInv'
<1>1. /\ call[w].op = "import_path" /\ call[w].step = "reread" /\ KeepsLocks(w)
      /\ UNCHANGED <<diskVars, rows, cache>>
  BY DEF Reread, At, KeepsLocks, project, environment, rows
<1>2. CASE SameSource(w)
  <2>1. /\ task' = [task EXCEPT ![w].raw = source] /\ UNCHANGED answer
        /\ Goto(w, "identify") /\ source = task[w].content
    BY <1>2 DEF Reread, SameSource
  <2>2. task \in [Workers -> Tasks] /\ source \in Contents
    BY DEF IInv, AssetsInv, TasksHold, RegistryHolds
  <2>3. /\ task' \in [Workers -> Tasks] /\ OnlyAt(task, task', w)
        /\ task'[w].raw = source /\ task'[w].content = task[w].content
        /\ task'[w].encoding = task[w].encoding
    BY <2>1, <2>2, SetRaw
  <2>4. /\ "identify" \in Connected \ {"begin", "stamp", "insert"}
        /\ "identify" \notin Placed \cup Served /\ call[w].step \in Connected
        /\ {"register", "insert"} \subseteq Placed
    BY <1>1, StepsApart, AssetSteps
  <2>5. call'[w].step = "identify" /\ call'[w].op = call[w].op
    BY <2>1, <2>4, GotoFacts DEF IInv, StoreInv, Phases
  <2>6. <<task[w].content, task[w].encoding>> \in Parsable
    BY <1>1 DEF IInv, AssetsInv, TasksHold, TaskHolds
  <2>7. TaskHolds(call[w], task[w])'
    BY <2>1, <2>3, <2>4, <2>5, <2>6 DEF TaskHolds
  <2>8. QED
    BY <1>1, <2>1, <2>3, <2>4, <2>7, GoesKeeps
<1>3. CASE ~SameSource(w)
  <2>1. Refuse(w)
    BY <1>3 DEF Reread
  <2>2. QED
    BY <1>1, <2>1, RefuseKeeps
<1>4. QED
  BY <1>2, <1>3

\* The parts of TasksHold for w and for the others.
LEMMA TasksJoin ==
  ASSUME TasksHold, NEW w \in Workers, OnlyAt(call, call', w), OnlyAt(task, task', w),
         task' \in [Workers -> Tasks],
         \A v \in Workers \ {w} : TaskHolds(call[v], task[v])',
         TaskHolds(call[w], task[w])',
         call'[w].step \in Placed =>
           \/ call[w].step \in Placed /\ task'[w].asset = task[w].asset
           \/ \A v \in Workers \ {w} :
                call[v].step \in Placed => task[v].asset # task'[w].asset
  PROVE  TasksHold'
<1>1. ASSUME NEW u \in Workers, NEW v \in Workers,
             call'[u].step \in Placed, call'[v].step \in Placed,
             task'[u].asset = task'[v].asset
      PROVE  u = v
  <2>1. \A x \in Workers \ {w} : call'[x] = call[x] /\ task'[x] = task[x]
    BY DEF OnlyAt
  <2>2. CASE u # w /\ v # w
    BY <1>1, <2>1, <2>2 DEF TasksHold
  <2>3. CASE u = w /\ v # w
    BY <1>1, <2>1, <2>3 DEF TasksHold
  <2>4. CASE u # w /\ v = w
    BY <1>1, <2>1, <2>4 DEF TasksHold
  <2>5. QED
    BY <2>2, <2>3, <2>4
<1>2. QED
  BY <1>1 DEF TasksHold

\* The next of the identities not given out yet.
LEMMA NextAsset ==
  ASSUME NEW T, T \subseteq Assets, T # {}
  PROVE  (CHOOSE a \in T : \A b \in T : a =< b) \in T
<1>1. T \subseteq Nat
  BY AssetAssumption
<1>2. \E x \in T : \A y \in T : x =< y
  BY <1>1, LeastOf
<1>3. QED
  BY <1>2

LEMMA IdentifyKeeps ==
  ASSUME IInv, NEW w \in Workers, Identify(w)
  PROVE  IInv'
<1>1. /\ call[w].step = "identify" /\ KeepsLocks(w) /\ Assets \ used # {}
      /\ UNCHANGED <<diskVars, registry, files, source, tampered, cache>>
  BY DEF Identify, KeepsLocks, project, environment
<1>2. CASE contained
  <2>1. PICK asset : asset = CHOOSE a \in Assets \ used : \A b \in Assets \ used : a =< b
    OBVIOUS
  <2>2. asset \in Assets \ used
    BY <1>1, <2>1, NextAsset
  <2>3. /\ task' = [task EXCEPT ![w].asset = asset] /\ used' = used \cup {asset}
        /\ Goto(w, "stage") /\ UNCHANGED answer
    BY <1>2, <2>1 DEF Identify
  <2>4. task \in [Workers -> Tasks]
    BY DEF IInv, AssetsInv, TasksHold
  <2>5. /\ task' \in [Workers -> Tasks] /\ OnlyAt(task, task', w)
        /\ task'[w].asset = asset /\ task'[w].raw = task[w].raw
        /\ task'[w].content = task[w].content /\ task'[w].encoding = task[w].encoding
    BY <2>2, <2>3, <2>4, SetAsset
  <2>6. /\ "stage" \in Connected \ {"begin", "stamp", "insert"}
        /\ "stage" \in Placed /\ "stage" \notin Served /\ call[w].step \in Connected
        /\ {"register", "insert"} \subseteq Placed
    BY <1>1, StepsApart, AssetSteps
  <2>7. call'[w].step = "stage" /\ call'[w].op = call[w].op /\ OnlyAt(call, call', w)
    BY <2>3, <2>6, GotoFacts DEF IInv, StoreInv, Phases
  <2>8. /\ <<task[w].content, task[w].encoding>> \in Parsable /\ task[w].raw = task[w].content
    BY <1>1 DEF IInv, AssetsInv, TasksHold, TaskHolds
  <2>9. ~IsRegistered(asset)
    BY <2>2 DEF IsRegistered, IInv, AssetsInv, RegistryHolds, RowHolds
  <2>10. TaskHolds(call[w], task[w])'
    BY <1>1, <2>3, <2>5, <2>6, <2>7, <2>8, <2>9 DEF TaskHolds, IsRegistered
  <2>11. ASSUME NEW v \in Workers \ {w}
         PROVE  /\ TaskHolds(call[v], task[v])'
                /\ call[v].step \in Placed => task[v].asset # task'[w].asset
    <3>1. call'[v] = call[v] /\ task'[v] = task[v] /\ TaskHolds(call[v], task[v])
      BY <2>5, <2>7 DEF OnlyAt, IInv, AssetsInv, TasksHold
    <3>2. QED
      BY <1>1, <2>2, <2>3, <2>5, <3>1 DEF TaskHolds, IsRegistered, RowOf
  <2>12. TasksHold'
    BY <2>5, <2>7, <2>10, <2>11, TasksJoin DEF IInv, AssetsInv
  <2>13. RegistryHolds'
    BY <1>1, <2>2, <2>3 DEF IInv, AssetsInv, RegistryHolds, RowHolds
  <2>14. ResultsHold'
    BY <1>1, <2>3 DEF IInv, AssetsInv, ResultsHold, ResultHolds
  <2>15. CacheHolds'
    BY <1>1, CacheStays DEF IInv, AssetsInv
  <2>16. StoreInv'
    <3>1. db \in Wholes /\ call[w].op # "inspect"
      BY <1>1, AssetSteps, OpenedOperation DEF IInv
    <3>2. QED
      BY <1>1, <2>3, <2>6, <3>1, ConnectedGoes DEF IInv
  <2>17. QED
    BY <2>12, <2>13, <2>14, <2>15, <2>16 DEF IInv, AssetsInv
<1>3. CASE ~contained
  <2>1. Refuse(w) /\ UNCHANGED used
    BY <1>3 DEF Identify
  <2>2. QED
    BY <1>1, <2>1, RefuseKeeps DEF rows
<1>4. QED
  BY <1>2, <1>3

\* An import that is at the copy keeps its task.
LEMMA StageKeeps ==
  ASSUME IInv, NEW w \in Workers, Stage(w)
  PROVE  IInv'
<1>1. /\ call[w].step = "stage" /\ KeepsLocks(w) /\ Goto(w, "promote")
      /\ UNCHANGED <<diskVars, rows, cache, answer, task>>
  BY DEF Stage, KeepsLocks, project, environment, rows
<1>2. /\ "promote" \in Connected \ {"begin", "stamp", "insert"}
      /\ "promote" \in Placed /\ "promote" \notin Served /\ call[w].step \in Connected
      /\ call[w].step \in Placed
  BY <1>1, StepsApart, AssetSteps
<1>3. OnlyAt(task, task', w) /\ task' \in [Workers -> Tasks]
  BY <1>1, TaskStays DEF IInv, AssetsInv
<1>4. call'[w].step = "promote" /\ call'[w].op = call[w].op
  BY <1>1, <1>2, GotoFacts DEF IInv, StoreInv, Phases
<1>5. TaskHolds(call[w], task[w])
  BY DEF IInv, AssetsInv, TasksHold
<1>6. TaskHolds(call[w], task[w])'
  BY <1>1, <1>2, <1>4, <1>5 DEF TaskHolds, IsRegistered, rows
<1>7. call[w].op # "inspect"
  BY <1>1, AssetSteps, OpenedOperation DEF IInv
<1>8. QED
  BY <1>1, <1>2, <1>3, <1>6, <1>7, GoesKeeps

LEMMA StageFailsKeeps ==
  ASSUME IInv, NEW w \in Workers, StageFails(w)
  PROVE  IInv'
BY RefuseKeeps DEF StageFails, KeepsLocks, project, environment, rows

\* A call touches no copy but its own.
LEMMA OwnCopy ==
  ASSUME IInv, NEW w \in Workers, call[w].step \in Placed,
         OnlyAt(call, call', w), OnlyAt(task, task', w),
         files' \in [Assets -> Contents \cup {None}],
         \A a \in Assets \ {task[w].asset} : files'[a] = files[a],
         UNCHANGED <<registry, source, used, tampered>>
  PROVE  /\ RegistryHolds'
         /\ \A v \in Workers \ {w} : TaskHolds(call[v], task[v])'
<1>1. ~IsRegistered(task[w].asset)
  BY DEF IInv, AssetsInv, TasksHold, TaskHolds
<1>2. RegistryHolds'
  <2>1. ASSUME NEW row \in registry
        PROVE  RowHolds(row)'
    <3>1. RowHolds(row) /\ row.asset \in Assets
      BY DEF IInv, AssetsInv, RegistryHolds, RowHolds
    <3>2. row.asset # task[w].asset
      BY <1>1 DEF IsRegistered
    <3>3. QED
      BY <3>1, <3>2 DEF RowHolds
  <2>2. QED
    BY <2>1 DEF IInv, AssetsInv, RegistryHolds
<1>3. ASSUME NEW v \in Workers \ {w}
      PROVE  TaskHolds(call[v], task[v])'
  <2>1. call'[v] = call[v] /\ task'[v] = task[v] /\ TaskHolds(call[v], task[v])
    BY DEF OnlyAt, IInv, AssetsInv, TasksHold
  <2>2. call[v].step \in Placed =>
          task[v].asset \in Assets /\ task[v].asset # task[w].asset
    BY <2>1 DEF IInv, AssetsInv, TasksHold, TaskHolds, RegistryHolds
  <2>3. {"register", "insert"} \subseteq Placed
    BY AssetSteps
  <2>4. QED
    BY <2>1, <2>2, <2>3 DEF TaskHolds, IsRegistered, RowOf
<1>4. QED
  BY <1>2, <1>3

LEMMA PromoteKeeps ==
  ASSUME IInv, NEW w \in Workers, Promote(w)
  PROVE  IInv'
<1>1. /\ call[w].step = "promote" /\ KeepsLocks(w) /\ Goto(w, "register")
      /\ files' = [files EXCEPT ![task[w].asset] = task[w].raw]
      /\ UNCHANGED <<diskVars, registry, source, used, tampered, cache, answer, task>>
  BY DEF Promote, KeepsLocks, project, environment
<1>2. /\ "register" \in Connected \ {"begin", "stamp", "insert"}
      /\ "register" \in Placed /\ "register" \notin Served /\ call[w].step \in Connected
      /\ call[w].step \in Placed
  BY <1>1, StepsApart, AssetSteps
<1>3. OnlyAt(task, task', w) /\ task' \in [Workers -> Tasks]
  BY <1>1, TaskStays DEF IInv, AssetsInv
<1>4. call'[w].step = "register" /\ call'[w].op = call[w].op /\ OnlyAt(call, call', w)
  BY <1>1, <1>2, GotoFacts DEF IInv, StoreInv, Phases
<1>5. /\ TaskHolds(call[w], task[w]) /\ task[w].asset \in Assets
      /\ files \in [Assets -> Contents \cup {None}] /\ task[w].raw \in Contents \cup {None}
  BY <1>2 DEF IInv, AssetsInv, TasksHold, TaskHolds, RegistryHolds, Tasks
<1>6. /\ files' \in [Assets -> Contents \cup {None}]
      /\ \A a \in Assets \ {task[w].asset} : files'[a] = files[a]
      /\ files'[task[w].asset] = task[w].raw
  BY <1>1, <1>5
<1>7. RegistryHolds' /\ \A v \in Workers \ {w} : TaskHolds(call[v], task[v])'
  BY <1>1, <1>2, <1>3, <1>4, <1>6, OwnCopy
<1>8. TaskHolds(call[w], task[w])'
  BY <1>1, <1>2, <1>4, <1>5, <1>6 DEF TaskHolds, IsRegistered
<1>9. TasksHold'
  BY <1>1, <1>2, <1>3, <1>4, <1>7, <1>8, TasksJoin DEF IInv, AssetsInv
<1>10. ResultsHold' /\ CacheHolds'
  BY <1>1, CacheStays DEF IInv, AssetsInv, ResultsHold, ResultHolds
<1>11. StoreInv'
  <2>1. db \in Wholes /\ call[w].op # "inspect"
    BY <1>1, AssetSteps, OpenedOperation DEF IInv
  <2>2. QED
    BY <1>1, <1>2, <2>1, ConnectedGoes DEF IInv
<1>12. QED
  BY <1>7, <1>9, <1>10, <1>11 DEF IInv, AssetsInv

LEMMA RegisterKeeps ==
  ASSUME IInv, NEW w \in Workers, Register(w)
  PROVE  IInv'
<1>1. /\ call[w].step = "register" /\ Goto(w, "insert") /\ writer = None /\ writer' = w
      /\ UNCHANGED <<diskVars, rows, cache, answer, task>>
  BY DEF Register, project, environment, rows
<1>2. KeepsLocks(w)
  BY <1>1, StoreAssumption DEF KeepsLocks
<1>3. /\ "insert" \in Connected \ {"begin", "stamp"}
      /\ "insert" \in Placed /\ "insert" \notin Served /\ call[w].step \in Connected
      /\ call[w].step \in Placed /\ "insert" \notin Writing \cup {"created", "connect"}
  BY <1>1, StepsApart, AssetSteps
<1>4. OnlyAt(task, task', w) /\ task' \in [Workers -> Tasks]
  BY <1>1, TaskStays DEF IInv, AssetsInv
<1>5. /\ call'[w].step = "insert" /\ call'[w].op = call[w].op
      /\ call'[w].id = call[w].id
  BY <1>1, <1>3, GotoFacts DEF IInv, StoreInv, Phases
<1>6. TaskHolds(call[w], task[w])
  BY DEF IInv, AssetsInv, TasksHold
<1>7. TaskHolds(call[w], task[w])'
  BY <1>1, <1>3, <1>5, <1>6 DEF TaskHolds, IsRegistered, rows
<1>8. AssetsInv'
  BY <1>1, <1>3, <1>4, <1>7, AssetsGo
<1>9. StoreInv'
  <2>1. /\ db \in Wholes /\ call[w].op \notin {"create", "inspect"}
        /\ manifest \in Ids /\ call[w].id = manifest
    BY <1>1, AssetSteps, OpenedOperation DEF IInv
  <2>2. manifest' = manifest /\ db' = db
    BY <1>1 DEF diskVars
  <2>3. CreationHolds(call[w])'
    <3>1. {"manifest", "text"} \subseteq Writing
      BY DEF Writing
    <3>2. QED
      BY <1>3, <1>5, <2>1, <3>1 DEF CreationHolds
  <2>4. OpeningHolds(call[w])'
    BY <1>5, <2>1, <2>2 DEF OpeningHolds
  <2>5. CallHolds(call[w], w)'
    BY <1>1, <1>5, <2>3, <2>4 DEF CallHolds
  <2>6. "insert" \in Phases \ Writing
    BY <1>3, StepsApart
  <2>7. QED
    BY <1>1, <1>2, <2>5, <2>6, StoreGoes DEF IInv
<1>10. QED
  BY <1>8, <1>9 DEF IInv

\* The row of an import goes in beside the others and changes none of them.
LEMMA RegisteredKeeps ==
  ASSUME IInv, NEW w \in Workers, Registered(w)
  PROVE  IInv'
<1> DEFINE row == Row(task[w].asset, task[w].content, task[w].encoding, call[w].id)
           a == [op |-> call[w].op, ok |-> TRUE, row |-> row, decoder |-> NoDecoder]
<1>1. /\ Importing(w) /\ call[w].step = "insert"
      /\ registry' = registry \cup {row} /\ Finish(w, a)
      /\ task' = [task EXCEPT ![w] = NoTask] /\ writer' = None
      /\ UNCHANGED <<diskVars, files, source, used, tampered, cache>>
  BY DEF Registered, Return, project, environment
<1>2. call[w].step \in Placed /\ call[w].step \in Opened
  BY <1>1, AssetSteps
<1>3. /\ TaskHolds(call[w], task[w]) /\ task[w].asset \in Assets /\ task[w].asset \in used
      /\ <<task[w].content, task[w].encoding>> \in Parsable /\ ~IsRegistered(task[w].asset)
      /\ task[w].asset \notin tampered => files[task[w].asset] = task[w].content
  BY <1>1, <1>2 DEF IInv, AssetsInv, TasksHold, TaskHolds, RegistryHolds
<1>4. /\ row.asset = task[w].asset /\ row.content = task[w].content
      /\ row.encoding = task[w].encoding /\ row.project = call[w].id
  BY DEF Row
<1>5. task[w].content \in Contents /\ task[w].encoding \in Encodings /\ call[w].id \in Ids
  BY <1>2, <1>3, AssetAssumption, OpenedOperation DEF IInv
<1>6. row \in Rows
  BY <1>3, <1>5 DEF Row, Rows
<1>7. a.op = call[w].op /\ a.row = row
  OBVIOUS
<1> HIDE DEF row, a
<1>8. /\ OnlyAt(call, call', w) /\ OnlyAt(answer, answer', w) /\ call'[w] = Idle /\ answer'[w] = a
  BY <1>1, FinishFacts DEF IInv, StoreInv
<1>9. KeepsLocks(w)
  <2>1. writer = w
    BY <1>1 DEF IInv, StoreInv, CallHolds
  <2>2. QED
    BY <2>1 DEF KeepsLocks
<1>10. StoreInv'
  <2>1. call[w].op \in {"import", "import_path"}
    BY <1>1 DEF Importing
  <2>2. AnswerHolds(answer[w])'
    BY <1>7, <1>8, <2>1, OtherAnswers
  <2>3. QED
    BY <1>1, <1>9, <2>2, StoreFinishes DEF IInv
<1>11. RegistryHolds'
  <2>1. \A r \in registry : r.asset # row.asset
    BY <1>3, <1>4 DEF IsRegistered
  <2>2. ASSUME NEW r \in registry' PROVE RowHolds(r)'
    <3>1. CASE r \in registry
      BY <1>1, <3>1 DEF IInv, AssetsInv, RegistryHolds, RowHolds
    <3>2. CASE r = row
      BY <1>1, <1>3, <1>4, <3>2 DEF RowHolds
    <3>3. QED
      BY <1>1, <3>1, <3>2
  <2>3. QED
    BY <1>1, <1>6, <2>1, <2>2 DEF IInv, AssetsInv, RegistryHolds
<1>12. ASSUME NEW asset, IsRegistered(asset)
       PROVE  IsRegistered(asset)' /\ (RowOf(asset))' = RowOf(asset)
  <2>1. RowOf(asset) \in registry /\ RowOf(asset).asset = asset
    BY <1>12, RowOfIs DEF IInv, AssetsInv
  <2>2. \A r \in registry' : r.asset = asset => r = RowOf(asset)
    BY <1>1, <1>11, <2>1 DEF RegistryHolds
  <2>3. QED
    BY <1>1, <2>1, <2>2 DEF IsRegistered, RowOf
<1>13. ASSUME NEW v \in Workers \ {w}
       PROVE  TaskHolds(call[v], task[v])'
  <2>1. task \in [Workers -> Tasks]
    BY DEF IInv, AssetsInv, TasksHold
  <2>2. call'[v] = call[v] /\ task'[v] = task[v] /\ TaskHolds(call[v], task[v])
    BY <1>1, <1>8, <2>1 DEF OnlyAt, IInv, AssetsInv, TasksHold
  <2>3. call[v].step \in Placed => task[v].asset # row.asset
    BY <1>2, <1>4 DEF IInv, AssetsInv, TasksHold
  <2>4. call[v].step \in Placed => ~IsRegistered(task[v].asset)'
    BY <1>1, <2>2, <2>3 DEF TaskHolds, IsRegistered
  <2>5. /\ call[v].step \in Served => IsRegistered(task[v].asset)'
        /\ call[v].step \in Served \ {"read"} =>
             task[v].raw = (RowOf(task[v].asset)').content
    <3>1. CASE call[v].step \in Served
      <4>1. IsRegistered(task[v].asset)
        BY <2>2, <3>1 DEF TaskHolds
      <4>2. IsRegistered(task[v].asset)' /\ RowOf(task[v].asset)' = RowOf(task[v].asset)
        BY <1>12, <2>2, <4>1 DEF IsRegistered, RowOf
      <4>3. QED
        BY <2>2, <4>2 DEF TaskHolds
    <3>2. QED
      BY <3>1
  <2>6. QED
    BY <1>1, <2>2, <2>4, <2>5 DEF TaskHolds
<1>14. TasksHold'
  <2>1. NoTask \in Tasks /\ task \in [Workers -> Tasks]
    BY TaskOfFacts DEF NoTask, IInv, AssetsInv, TasksHold
  <2>2. task' \in [Workers -> Tasks] /\ OnlyAt(task, task', w)
    BY <1>1, <2>1 DEF OnlyAt
  <2>3. call'[w].op = "idle" /\ call'[w].step \notin Opened
    BY <1>8 DEF Idle, CallOf, None, Opened, Placed, Served
  <2>4. TaskHolds(call[w], task[w])' /\ call'[w].step \notin Placed
    BY <2>3, PlainTask DEF Opened
  <2>5. QED
    BY <1>8, <1>13, <2>2, <2>4, TasksJoin DEF IInv, AssetsInv
<1>15. ResultsHold'
  <2>1. registry \subseteq registry' /\ row \in registry'
    BY <1>1
  <2>2. call[w].op \in {"import", "import_path"}
    BY <1>1 DEF Importing
  <2>3. ResultHolds(answer[w])'
    BY <1>7, <1>8, <2>1, <2>2 DEF ResultHolds
  <2>4. QED
    BY <1>8, <2>1, <2>3, ResultsMove DEF IInv, AssetsInv
<1>16. CacheHolds'
  BY <1>1, CacheStays DEF IInv, AssetsInv
<1>17. QED
  BY <1>10, <1>11, <1>14, <1>15, <1>16 DEF IInv, AssetsInv

LEMMA RegisterFailsKeeps ==
  ASSUME IInv, NEW w \in Workers, RegisterFails(w)
  PROVE  IInv'
<1> DEFINE a == [op |-> call[w].op, ok |-> FALSE]
<1>1. /\ call[w].step \in {"register", "insert"} /\ Fail(w) /\ Finish(w, a) /\ KeepsLocks(w)
      /\ task' = [task EXCEPT ![w] = NoTask]
      /\ files' \in {files, [files EXCEPT ![task[w].asset] = None]}
      /\ UNCHANGED <<diskVars, registry, source, used, tampered, cache>>
  BY DEF RegisterFails, Refuse, Fail, KeepsLocks, project, environment
<1> HIDE DEF a
<1>2. /\ OnlyAt(call, call', w) /\ OnlyAt(answer, answer', w) /\ call'[w] = Idle /\ ~answer'[w].ok
  BY <1>1, FailFacts DEF IInv, StoreInv
<1>3. call[w].step \in Placed
  BY <1>1, AssetSteps
<1>4. NoTask \in Tasks /\ task \in [Workers -> Tasks]
  BY TaskOfFacts DEF NoTask, IInv, AssetsInv, TasksHold
<1>5. task' \in [Workers -> Tasks] /\ OnlyAt(task, task', w)
  BY <1>1, <1>4 DEF OnlyAt
<1>6. /\ files' \in [Assets -> Contents \cup {None}]
      /\ \A x \in Assets \ {task[w].asset} : files'[x] = files[x]
  BY <1>1 DEF IInv, AssetsInv, RegistryHolds
<1>7. RegistryHolds' /\ \A v \in Workers \ {w} : TaskHolds(call[v], task[v])'
  BY <1>1, <1>2, <1>3, <1>5, <1>6, OwnCopy
<1>8. call'[w].op = "idle" /\ call'[w].step \notin Opened
  BY <1>2 DEF Idle, CallOf, None, Opened, Placed, Served
<1>9. TaskHolds(call[w], task[w])' /\ call'[w].step \notin Placed
  BY <1>8, PlainTask DEF Opened
<1>10. TasksHold'
  BY <1>2, <1>5, <1>7, <1>9, TasksJoin DEF IInv, AssetsInv
<1>11. ResultsHold'
  BY <1>1, <1>2, OtherResults, ResultsMove DEF IInv, AssetsInv
<1>12. CacheHolds' /\ StoreInv'
  BY <1>1, CacheStays, StoreFails DEF IInv, AssetsInv
<1>13. QED
  BY <1>7, <1>10, <1>11, <1>12 DEF IInv, AssetsInv

LEMMA ImportStepKeeps ==
  ASSUME IInv, NEW w \in Workers, ImportStep(w)
  PROVE  IInv'
BY ImportKeeps, ParseKeeps, RereadKeeps, IdentifyKeeps, StageKeeps, PromoteKeeps,
   StageFailsKeeps, RegisterKeeps, RegisteredKeeps, RegisterFailsKeeps DEF ImportStep

---------------------------------------------------------------------------
(* The cache. *)

\* An entry is what its key says, and there is one key for a row.
LEMMA EntryFacts ==
  ASSUME NEW e \in Entries, NEW row \in Rows, e.key = KeyOf(row)
  PROVE  e.decoder = DecoderOf(row.content, row.encoding)
<1>1. PICK r \in Rows : e = Entry(r)
  BY DEF Entries
<1>2. KeyOf(r) = KeyOf(row) /\ e.decoder = DecoderOf(r.content, r.encoding)
  BY <1>1 DEF Entry
<1>3. r.content = row.content /\ r.encoding = row.encoding
  BY <1>2 DEF KeyOf
<1>4. QED
  BY <1>2, <1>3

LEMMA PositionFacts ==
  ASSUME CacheHolds, NEW key, IsCached(key)
  PROVE  /\ PositionOf(key) \in 1..Len(cache) /\ cache[PositionOf(key)].key = key
         /\ EntryOf(key) \in Entries /\ EntryOf(key).key = key
<1>1. DOMAIN cache = 1..Len(cache)
  BY LenProperties DEF CacheHolds
<1>2. PositionOf(key) \in 1..Len(cache) /\ cache[PositionOf(key)].key = key
  BY <1>1 DEF IsCached, PositionOf
<1>3. EntryOf(key) \in Entries
  BY <1>2, ElementOfSeq DEF EntryOf, CacheHolds
<1>4. QED
  BY <1>2, <1>3 DEF EntryOf

\* Without the entry of a key, the others stay as they are and in their order.
LEMMA OthersFacts ==
  ASSUME CacheHolds, NEW key
  PROVE  /\ Others(key) \in Seq(Entries)
         /\ Len(Others(key)) = IF IsCached(key) THEN Len(cache) - 1 ELSE Len(cache)
         /\ OneOfEach(Others(key))
         /\ \A i \in DOMAIN Others(key) : Others(key)[i].key # key
<1>1. cache \in Seq(Entries) /\ Len(cache) \in Nat /\ DOMAIN cache = 1..Len(cache)
  BY LenProperties DEF CacheHolds
<1>2. CASE ~IsCached(key)
  BY <1>1, <1>2 DEF Others, IsCached, CacheHolds
<1>3. CASE IsCached(key)
  <2>1. PICK p \in 1..Len(cache) : p = PositionOf(key) /\ cache[p].key = key
    BY <1>3, PositionFacts
  <2>2. PICK n \in Nat : n = Len(cache)
    BY <1>1
  <2>3. PICK s : s = SubSeq(cache, 1, p - 1)
    OBVIOUS
  <2>4. PICK t : t = SubSeq(cache, p + 1, n)
    OBVIOUS
  <2>5. /\ s \in Seq(Entries) /\ Len(s) = p - 1
        /\ \A i \in 1..(p - 1) : s[i] = cache[i]
    <3>1. \A i \in 1..(p - 1) : cache[i] \in Entries
      BY <1>1, <2>2, ElementOfSeq
    <3>2. 1 \in Int /\ p - 1 \in Int
      OBVIOUS
    <3>3. /\ SubSeq(cache, 1, p - 1) \in Seq(Entries)
          /\ Len(SubSeq(cache, 1, p - 1)) = IF 1 <= p - 1 THEN (p - 1) - 1 + 1 ELSE 0
          /\ \A i \in 1..((p - 1) - 1 + 1) : SubSeq(cache, 1, p - 1)[i] = cache[1 + i - 1]
      BY <3>1, <3>2, SubSeqProperties
    <3>4. QED
      BY <2>1, <2>2, <2>3, <3>3
  <2>6. /\ t \in Seq(Entries) /\ Len(t) = n - p
        /\ \A i \in 1..(n - p) : t[i] = cache[p + i]
    <3>1. \A i \in (p + 1)..n : cache[i] \in Entries
      BY <1>1, <2>2, ElementOfSeq
    <3>2. p + 1 \in Int /\ n \in Int
      BY <2>2
    <3>3. /\ SubSeq(cache, p + 1, n) \in Seq(Entries)
          /\ Len(SubSeq(cache, p + 1, n)) = IF p + 1 <= n THEN n - (p + 1) + 1 ELSE 0
          /\ \A i \in 1..(n - (p + 1) + 1) : SubSeq(cache, p + 1, n)[i] = cache[(p + 1) + i - 1]
      BY <3>1, <3>2, SubSeqProperties
    <3>4. p \in Nat /\ p <= n /\ n - (p + 1) + 1 = n - p
      BY <2>1, <2>2
    <3>5. t \in Seq(Entries) /\ Len(t) = n - p
      BY <2>4, <3>3, <3>4
    <3>6. \A i \in 1..(n - p) : t[i] = cache[(p + 1) + i - 1]
      BY <2>4, <3>3, <3>4
    <3>7. \A i \in 1..(n - p) : (p + 1) + i - 1 = p + i
      BY <3>4
    <3>8. QED
      BY <3>5, <3>6, <3>7
  <2>7. PICK o : o = s \o t
    OBVIOUS
  <2>8. o = Others(key)
    BY <1>3, <2>1, <2>2, <2>3, <2>4, <2>7 DEF Others
  <2>9. /\ o \in Seq(Entries) /\ Len(o) = n - 1
        /\ \A i \in 1..(n - 1) : o[i] = IF i <= p - 1 THEN cache[i] ELSE cache[i + 1]
    <3>1. /\ s \o t \in Seq(Entries) /\ Len(s \o t) = Len(s) + Len(t)
          /\ \A i \in 1..(Len(s) + Len(t)) :
               (s \o t)[i] = IF i <= Len(s) THEN s[i] ELSE t[i - Len(s)]
      BY <2>5, <2>6, ConcatProperties
    <3>2. ASSUME NEW i \in 1..(n - 1)
          PROVE  o[i] = IF i <= p - 1 THEN cache[i] ELSE cache[i + 1]
      <4>1. o[i] = IF i <= p - 1 THEN s[i] ELSE t[i - (p - 1)]
        <5>1. Len(s) = p - 1 /\ Len(t) = n - p
          BY <2>5, <2>6
        <5>2. (p - 1) + (n - p) = n - 1
          BY <2>1, <2>2
        <5>3. i \in 1..(Len(s) + Len(t))
          BY <5>1, <5>2
        <5>4. o[i] = IF i <= Len(s) THEN s[i] ELSE t[i - Len(s)]
          BY <2>7, <3>1, <5>3
        <5>5. QED
          BY <5>1, <5>4
      <4>2. CASE i <= p - 1
        BY <2>5, <4>1, <4>2
      <4>3. CASE ~(i <= p - 1)
        <5>1. i - (p - 1) \in 1..(n - p) /\ p + (i - (p - 1)) = i + 1
          BY <2>1, <2>2, <4>3
        <5>2. QED
          BY <2>6, <4>1, <4>3, <5>1
      <4>4. QED
        BY <4>2, <4>3
    <3>3. Len(s) + Len(t) = n - 1
      BY <2>1, <2>2, <2>5, <2>6
    <3>4. Len(o) = n - 1 /\ o \in Seq(Entries)
      BY <2>7, <3>1, <3>3
    <3>5. QED
      BY <3>2, <3>4
  <2>10. DOMAIN o = 1..(n - 1)
    BY <2>9, LenProperties
  <2>11. \A i \in 1..(n - 1) :
           \E k \in 1..n : /\ o[i] = cache[k] /\ k # p
                           /\ k = IF i <= p - 1 THEN i ELSE i + 1
    BY <2>1, <2>2, <2>9
  <2>12. \A i, j \in 1..n : cache[i].key = cache[j].key => i = j
    BY <1>1, <2>2 DEF CacheHolds, OneOfEach
  <2>13. \A i \in 1..(n - 1) : o[i].key # key
    BY <2>1, <2>2, <2>11, <2>12
  <2>14. ASSUME NEW i \in 1..(n - 1), NEW j \in 1..(n - 1), o[i].key = o[j].key
         PROVE  i = j
    <3>1. PICK k \in 1..n : o[i] = cache[k] /\ k = IF i <= p - 1 THEN i ELSE i + 1
      BY <2>11
    <3>2. PICK m \in 1..n : o[j] = cache[m] /\ m = IF j <= p - 1 THEN j ELSE j + 1
      BY <2>11
    <3>3. k = m
      BY <2>12, <2>14, <3>1, <3>2
    <3>4. QED
      BY <2>1, <2>2, <3>1, <3>2, <3>3
  <2>15. OneOfEach(o)
    BY <2>10, <2>14 DEF OneOfEach
  <2>16. QED
    BY <1>3, <2>2, <2>8, <2>9, <2>10, <2>13, <2>15
<1>4. QED
  BY <1>2, <1>3

\* One more entry, of a key that is not among the others.
LEMMA AppendFacts ==
  ASSUME NEW s \in Seq(Entries), NEW e \in Entries, OneOfEach(s),
         \A i \in DOMAIN s : s[i].key # e.key
  PROVE  Append(s, e) \in Seq(Entries) /\ Len(Append(s, e)) = Len(s) + 1 /\ OneOfEach(Append(s, e))
<1>1. PICK n \in Nat : n = Len(s) /\ DOMAIN s = 1..n
  BY LenProperties
<1>2. PICK a : a = Append(s, e)
  OBVIOUS
<1>3. /\ a \in Seq(Entries) /\ Len(a) = n + 1 /\ DOMAIN a = 1..(n + 1)
      /\ \A i \in 1..n : a[i] = s[i]
      /\ a[n + 1] = e
  BY <1>1, <1>2, AppendProperties, LenProperties
<1>4. ASSUME NEW i \in 1..(n + 1), NEW j \in 1..(n + 1), a[i].key = a[j].key
      PROVE  i = j
  <2>1. CASE i \in 1..n /\ j \in 1..n
    BY <1>1, <1>3, <1>4, <2>1 DEF OneOfEach
  <2>2. CASE i = n + 1 /\ j \in 1..n
    BY <1>1, <1>3, <1>4, <2>2
  <2>3. CASE i \in 1..n /\ j = n + 1
    BY <1>1, <1>3, <1>4, <2>3
  <2>4. QED
    BY <2>1, <2>2, <2>3
<1>5. OneOfEach(a)
  BY <1>3, <1>4 DEF OneOfEach
<1>6. QED
  BY <1>1, <1>2, <1>3, <1>5

\* The bound is kept by forgetting the entries in front.
LEMMA LastFacts ==
  ASSUME NEW s \in Seq(Entries), OneOfEach(s)
  PROVE  Last(s) \in Seq(Entries) /\ Len(Last(s)) =< MaxEntries /\ OneOfEach(Last(s))
<1>1. PICK n \in Nat : n = Len(s) /\ DOMAIN s = 1..n
  BY LenProperties
<1>2. PICK m \in Nat : m = MaxEntries /\ m > 0
  BY AssetAssumption
<1>3. CASE n =< m
  BY <1>1, <1>2, <1>3 DEF Last
<1>4. CASE ~(n =< m)
  <2>1. PICK k \in Nat : k = n - m
    BY <1>4
  <2>2. PICK l : l = SubSeq(s, k + 1, n)
    OBVIOUS
  <2>3. l = Last(s)
    <3>1. ~(Len(s) =< MaxEntries) /\ Len(s) - MaxEntries + 1 = k + 1
      BY <1>1, <1>2, <1>4, <2>1
    <3>2. QED
      BY <1>1, <2>2, <3>1 DEF Last
  <2>4. /\ l \in Seq(Entries) /\ Len(l) = m
        /\ \A i \in 1..m : l[i] = s[k + i]
    <3>1. \A i \in (k + 1)..n : s[i] \in Entries
      BY <1>1, <2>1, ElementOfSeq
    <3>2. k + 1 \in Int /\ n \in Int
      OBVIOUS
    <3>3. /\ SubSeq(s, k + 1, n) \in Seq(Entries)
          /\ Len(SubSeq(s, k + 1, n)) = IF k + 1 <= n THEN n - (k + 1) + 1 ELSE 0
          /\ \A i \in 1..(n - (k + 1) + 1) : SubSeq(s, k + 1, n)[i] = s[(k + 1) + i - 1]
      BY <3>1, <3>2, SubSeqProperties
    <3>4. QED
      BY <1>2, <1>4, <2>1, <2>2, <3>3
  <2>5. DOMAIN l = 1..m
    BY <2>4, LenProperties
  <2>6. \A i, j \in 1..n : s[i].key = s[j].key => i = j
    BY <1>1 DEF OneOfEach
  <2>7. ASSUME NEW i \in 1..m, NEW j \in 1..m, l[i].key = l[j].key
        PROVE  i = j
    <3>1. k + i \in 1..n /\ k + j \in 1..n
      BY <1>4, <2>1
    <3>2. k + i = k + j
      BY <2>4, <2>6, <2>7, <3>1
    <3>3. QED
      BY <3>2
  <2>8. OneOfEach(l)
    BY <2>5, <2>7 DEF OneOfEach
  <2>9. QED
    BY <1>2, <2>3, <2>4, <2>8
<1>5. QED
  BY <1>3, <1>4

---------------------------------------------------------------------------
(* Reading. *)

\* What a read that has found its row relies on.
LEMMA ServedFacts ==
  ASSUME IInv, NEW w \in Workers, call[w].step \in Served
  PROVE  /\ call[w].step \in Opened /\ call[w].step \in Connected
         /\ RowOf(task[w].asset) \in registry /\ RowOf(task[w].asset) \in Rows
         /\ call[w].step # "read" => task[w].raw = RowOf(task[w].asset).content
<1>1. TaskHolds(call[w], task[w])
  BY DEF IInv, AssetsInv, TasksHold
<1>2. IsRegistered(task[w].asset)
  BY <1>1 DEF TaskHolds
<1>3. RowOf(task[w].asset) \in registry /\ RowOf(task[w].asset) \in Rows
  BY <1>2, RowOfIs DEF IInv, AssetsInv
<1>4. QED
  BY <1>1, <1>3, StepsApart, AssetSteps DEF TaskHolds

LEMMA LookupKeeps ==
  ASSUME IInv, NEW w \in Workers, Lookup(w)
  PROVE  IInv'
<1>1. /\ call[w].step = "lookup" /\ KeepsLocks(w) /\ UNCHANGED <<diskVars, rows, cache>>
  BY DEF Lookup, KeepsLocks, project, environment, rows
<1>2. PICK asset : asset = task[w].asset
  OBVIOUS
<1>3. CASE ~IsRegistered(asset) \/ RowOf(asset).project # call[w].id
  <2>1. Refuse(w)
    BY <1>2, <1>3 DEF Lookup
  <2>2. QED
    BY <1>1, <2>1, RefuseKeeps
<1>4. CASE ~(~IsRegistered(asset) \/ RowOf(asset).project # call[w].id)
  <2>1. IsRegistered(asset) /\ RowOf(asset) \in registry
    BY <1>4, RowOfIs DEF IInv, AssetsInv
  <2>2. call[w].step \in Opened /\ call[w].step \in Connected
    BY <1>1, StepsApart, AssetSteps
  <2>3. CASE call[w].op = "get"
    <3>1. Return(w, RowOf(asset), NoDecoder)
      BY <1>2, <1>4, <2>3 DEF Lookup
    <3>2. CacheHolds'
      BY <1>1, CacheStays DEF IInv, AssetsInv
    <3>3. QED
      BY <1>1, <2>1, <2>2, <2>3, <3>1, <3>2, ReturnKeeps
  <2>4. CASE call[w].op # "get"
    <3>1. Goto(w, "read") /\ UNCHANGED <<answer, task>>
      BY <1>2, <1>4, <2>4 DEF Lookup
    <3>2. /\ "read" \in Connected \ {"begin", "stamp", "insert"}
          /\ "read" \notin {"reread", "identify"} \cup Placed
          /\ {"register", "insert"} \subseteq Placed
      BY StepsApart, AssetSteps
    <3>3. call'[w].step = "read" /\ call'[w].op = call[w].op
      BY <3>1, <3>2, GotoFacts DEF IInv, StoreInv, Phases
    <3>4. OnlyAt(task, task', w) /\ task' \in [Workers -> Tasks]
      BY <3>1, TaskStays DEF IInv, AssetsInv
    <3>5. TaskHolds(call[w], task[w])
      BY DEF IInv, AssetsInv, TasksHold
    <3>6. TaskHolds(call[w], task[w])'
      BY <1>1, <1>2, <2>1, <3>1, <3>2, <3>3, <3>5 DEF TaskHolds, IsRegistered, rows
    <3>7. call[w].op # "inspect"
      BY <2>2, OpenedOperation DEF IInv
    <3>8. QED
      BY <1>1, <2>2, <3>1, <3>2, <3>4, <3>6, <3>7, GoesKeeps
  <2>5. QED
    BY <2>3, <2>4
<1>5. QED
  BY <1>3, <1>4

LEMMA ReadKeeps ==
  ASSUME IInv, NEW w \in Workers, Read(w)
  PROVE  IInv'
<1>1. /\ call[w].step = "read" /\ KeepsLocks(w) /\ UNCHANGED <<diskVars, rows, cache>>
  BY DEF Read, KeepsLocks, project, environment, rows
<1>2. call[w].step \in Served
  BY <1>1, AssetSteps
<1>3. CASE IsVerified(task[w].asset)
  <2>1. PICK raw : raw = files[task[w].asset]
    OBVIOUS
  <2>2. /\ task' = [task EXCEPT ![w].raw = raw] /\ UNCHANGED answer
        /\ \E step \in {"load", "consult"} : Goto(w, step)
    BY <1>3, <2>1 DEF Read
  <2>3. PICK step \in {"load", "consult"} : Goto(w, step)
    BY <2>2
  <2>4. raw = RowOf(task[w].asset).content /\ raw \in Contents
    BY <1>2, <1>3, <2>1, ServedFacts DEF IsVerified, Rows
  <2>5. task \in [Workers -> Tasks] /\ TaskHolds(call[w], task[w])
    BY DEF IInv, AssetsInv, TasksHold
  <2>6. /\ task' \in [Workers -> Tasks] /\ OnlyAt(task, task', w)
        /\ task'[w].raw = raw /\ task'[w].content = task[w].content
        /\ task'[w].asset = task[w].asset
    BY <2>2, <2>4, <2>5, SetRaw
  <2>7. /\ step \in Connected \ {"begin", "stamp", "insert"}
        /\ step \notin {"reread", "identify"} \cup Placed
        /\ {"register", "insert"} \subseteq Placed
    BY StepsApart, AssetSteps
  <2>8. call'[w].step = step /\ call'[w].op = call[w].op
    BY <2>3, <2>7, GotoFacts DEF IInv, StoreInv, Phases
  <2>9. call[w].op \notin {"import", "inspect"}
    BY <1>2, <2>5, ServedFacts, OpenedOperation DEF IInv, TaskHolds
  <2>10. TaskHolds(call[w], task[w])'
    BY <1>1, <1>2, <2>4, <2>5, <2>6, <2>7, <2>8, <2>9 DEF TaskHolds, IsRegistered, RowOf, rows
  <2>11. QED
    BY <1>1, <1>2, <2>2, <2>3, <2>6, <2>7, <2>9, <2>10, ServedFacts, GoesKeeps
<1>4. CASE ~IsVerified(task[w].asset)
  <2>1. Refuse(w)
    BY <1>4 DEF Read
  <2>2. QED
    BY <1>1, <2>1, RefuseKeeps
<1>5. QED
  BY <1>3, <1>4

LEMMA LoadedKeeps ==
  ASSUME IInv, NEW w \in Workers, Loaded(w)
  PROVE  IInv'
<1>1. /\ call[w].step = "load" /\ KeepsLocks(w) /\ UNCHANGED <<diskVars, rows, cache>>
  BY DEF Loaded, KeepsLocks, project, environment, rows
<1>2. call[w].step \in Served
  BY <1>1, AssetSteps
<1>3. CASE Parses(w)
  <2>1. PICK row \in registry : row = RowOf(task[w].asset) /\ task[w].raw = row.content
    BY <1>1, <1>2, ServedFacts
  <2>2. Return(w, row, Parsed(w)) /\ Parsed(w) = DecoderOf(row.content, row.encoding)
    BY <1>3, <2>1 DEF Loaded, Parsed
  <2>3. CacheHolds'
    BY <1>1, CacheStays DEF IInv, AssetsInv
  <2>4. QED
    BY <1>1, <1>2, <2>2, <2>3, ServedFacts, ReturnKeeps
<1>4. CASE ~Parses(w)
  <2>1. Refuse(w)
    BY <1>4 DEF Loaded
  <2>2. QED
    BY <1>1, <2>1, RefuseKeeps
<1>5. QED
  BY <1>3, <1>4

\* An entry that is used goes to the end of the cache.
LEMMA Touched ==
  ASSUME CacheHolds, NEW key, IsCached(key), cache' = Append(Others(key), EntryOf(key))
  PROVE  CacheHolds'
<1>1. EntryOf(key) \in Entries /\ EntryOf(key).key = key
  BY PositionFacts
<1>2. PICK s : s = Others(key)
  OBVIOUS
<1>3. /\ s \in Seq(Entries) /\ Len(s) = Len(cache) - 1 /\ OneOfEach(s)
      /\ \A i \in DOMAIN s : s[i].key # key
  BY <1>2, OthersFacts
<1>4. PICK e \in Entries : e = EntryOf(key) /\ e.key = key
  BY <1>1
<1>5. /\ Append(s, e) \in Seq(Entries) /\ Len(Append(s, e)) = Len(s) + 1
      /\ OneOfEach(Append(s, e))
  BY <1>3, <1>4, AppendFacts
<1>6. Len(cache) \in Nat /\ Len(cache) =< MaxEntries
  BY LenProperties DEF CacheHolds
<1>7. cache' = Append(s, e) /\ Len(cache') = Len(cache)
  BY <1>2, <1>3, <1>4, <1>5, <1>6
<1>8. OneOfEach(cache)'
  BY <1>5, <1>7 DEF OneOfEach
<1>9. QED
  BY <1>5, <1>6, <1>7, <1>8 DEF CacheHolds

\* A new entry takes the place of one of its key, or of the first.
LEMMA Put ==
  ASSUME CacheHolds, NEW row \in Rows, NEW e, e = Entry(row),
         cache' = Last(Append(Others(KeyOf(row)), e))
  PROVE  CacheHolds'
<1>1. e \in Entries /\ e.key = KeyOf(row)
  BY DEF Entries, Entry
<1>2. PICK s : s = Others(KeyOf(row))
  OBVIOUS
<1>3. /\ s \in Seq(Entries) /\ OneOfEach(s)
      /\ \A i \in DOMAIN s : s[i].key # e.key
  BY <1>1, <1>2, OthersFacts
<1>4. PICK a : a = Append(s, e)
  OBVIOUS
<1>5. a \in Seq(Entries) /\ OneOfEach(a)
  BY <1>1, <1>3, <1>4, AppendFacts
<1>6. Last(a) \in Seq(Entries) /\ Len(Last(a)) =< MaxEntries /\ OneOfEach(Last(a))
  BY <1>5, LastFacts
<1>7. cache' = Last(a)
  BY <1>2, <1>4
<1>8. OneOfEach(cache)'
  BY <1>6, <1>7 DEF OneOfEach
<1>9. QED
  BY <1>6, <1>7, <1>8 DEF CacheHolds

LEMMA ConsultKeeps ==
  ASSUME IInv, NEW w \in Workers, Consult(w)
  PROVE  IInv'
<1>1. /\ call[w].step = "consult" /\ KeepsLocks(w) /\ UNCHANGED <<diskVars, rows>>
  BY DEF Consult, KeepsLocks, project, environment, rows
<1>2. call[w].step \in Served
  BY <1>1, AssetSteps
<1>3. PICK row \in registry : row = RowOf(task[w].asset) /\ row \in Rows
  BY <1>2, ServedFacts
<1>4. PICK key : key = KeyOf(row)
  OBVIOUS
<1>5. CacheHolds
  BY DEF IInv, AssetsInv
<1>6. CASE IsCached(key)
  <2>1. cache' = Append(Others(key), EntryOf(key)) /\ Return(w, row, EntryOf(key).decoder)
    BY <1>3, <1>4, <1>6 DEF Consult
  <2>2. EntryOf(key).decoder = DecoderOf(row.content, row.encoding)
    BY <1>3, <1>4, <1>5, <1>6, PositionFacts, EntryFacts
  <2>3. CacheHolds'
    BY <1>5, <1>6, <2>1, Touched
  <2>4. QED
    BY <1>1, <1>2, <2>1, <2>2, <2>3, ServedFacts, ReturnKeeps
<1>7. CASE ~IsCached(key)
  <2>1. Goto(w, "compile") /\ UNCHANGED <<answer, task, cache>>
    BY <1>3, <1>4, <1>7 DEF Consult
  <2>2. /\ "compile" \in Connected \ {"begin", "stamp", "insert"}
        /\ "compile" \notin {"reread", "identify"} \cup Placed
        /\ {"register", "insert"} \subseteq Placed
    BY StepsApart, AssetSteps
  <2>3. call'[w].step = "compile" /\ call'[w].op = call[w].op
    BY <2>1, <2>2, GotoFacts DEF IInv, StoreInv, Phases
  <2>4. OnlyAt(task, task', w) /\ task' \in [Workers -> Tasks]
    BY <2>1, TaskStays DEF IInv, AssetsInv
  <2>5. TaskHolds(call[w], task[w])
    BY DEF IInv, AssetsInv, TasksHold
  <2>6. TaskHolds(call[w], task[w])'
    BY <1>1, <1>2, <2>1, <2>2, <2>3, <2>5 DEF TaskHolds, IsRegistered, RowOf, rows
  <2>7. call[w].op # "inspect"
    BY <1>2, ServedFacts, OpenedOperation DEF IInv
  <2>8. QED
    BY <1>1, <1>2, <2>1, <2>2, <2>4, <2>6, <2>7, ServedFacts, GoesKeeps
<1>8. QED
  BY <1>6, <1>7

LEMMA CompileKeeps ==
  ASSUME IInv, NEW w \in Workers, Compile(w)
  PROVE  IInv'
<1>1. /\ call[w].step = "compile" /\ KeepsLocks(w) /\ UNCHANGED <<diskVars, rows>>
  BY DEF Compile, KeepsLocks, project, environment, rows
<1>2. call[w].step \in Served
  BY <1>1, AssetSteps
<1>3. PICK row \in registry :
        row = RowOf(task[w].asset) /\ row \in Rows /\ task[w].raw = row.content
  BY <1>1, <1>2, ServedFacts
<1>4. CASE Parses(w)
  <2>1. Parsed(w) = DecoderOf(row.content, row.encoding)
    BY <1>3 DEF Parsed
  <2>2. /\ cache' = Last(Append(Others(KeyOf(row)), [key |-> KeyOf(row), decoder |-> Parsed(w)]))
        /\ Return(w, row, Parsed(w))
    BY <1>3, <1>4 DEF Compile
  <2>3. PICK e : e = Entry(row) /\ e = [key |-> KeyOf(row), decoder |-> Parsed(w)]
    BY <2>1 DEF Entry
  <2>4. CacheHolds'
    BY <1>3, <2>2, <2>3, Put DEF IInv, AssetsInv
  <2>5. QED
    BY <1>1, <1>2, <2>1, <2>2, <2>4, ServedFacts, ReturnKeeps
<1>5. CASE ~Parses(w)
  <2>1. Refuse(w) /\ UNCHANGED cache
    BY <1>5 DEF Compile
  <2>2. QED
    BY <1>1, <2>1, RefuseKeeps
<1>6. QED
  BY <1>4, <1>5

LEMMA ReadStepKeeps ==
  ASSUME IInv, NEW w \in Workers, ReadStep(w)
  PROVE  IInv'
BY ImportKeeps, LookupKeeps, ReadKeeps, LoadedKeeps, ConsultKeeps, CompileKeeps DEF ReadStep

---------------------------------------------------------------------------
(* What others do, and the end of the process. *)

LEMMA TamperKeeps ==
  ASSUME IInv, Tamper
  PROVE  IInv'
<1>1. UNCHANGED <<storeVars, registry, cache, task, used>>
  BY DEF Tamper
<1>2. /\ root' = root /\ manifest' = manifest /\ db' = db /\ writer' = writer
      /\ call' = call /\ answer' = answer /\ registry' = registry /\ cache' = cache
      /\ task' = task /\ used' = used
  BY <1>1 DEF storeVars, diskVars
<1>3. StoreInv'
  BY <1>2 DEF IInv, StoreInv, DiskHolds, CallHolds, CreationHolds, OpeningHolds,
              AnswerHolds, IsCurrent
<1>4. CacheHolds' /\ ResultsHold'
  BY <1>2, CacheStays DEF IInv, AssetsInv, ResultsHold, ResultHolds
<1>5. /\ files' \in [Assets -> Contents \cup {None}] /\ source' \in Contents
      /\ tampered \subseteq tampered'
      /\ \A a \in Assets : a \notin tampered' => files'[a] = files[a]
  <2>1. files \in [Assets -> Contents \cup {None}] /\ source \in Contents
    BY DEF IInv, AssetsInv, RegistryHolds
  <2>2. CASE UNCHANGED <<files, tampered>>
    BY <2>1, <2>2 DEF Tamper
  <2>3. ASSUME NEW asset \in Assets, NEW content \in Contents \cup {None},
               files' = [files EXCEPT ![asset] = content],
               tampered' = tampered \cup {asset}, source' = source
        PROVE  <1>5
    BY <2>1, <2>3
  <2>4. \/ UNCHANGED <<files, tampered>>
        \/ \E asset \in Assets, content \in Contents \cup {None} :
             /\ files' = [files EXCEPT ![asset] = content]
             /\ tampered' = tampered \cup {asset} /\ source' = source
    BY DEF Tamper
  <2>5. QED
    BY <2>2, <2>3, <2>4
<1>6. RegistryHolds'
  BY <1>2, <1>5 DEF IInv, AssetsInv, RegistryHolds, RowHolds, Rows
<1>7. TasksHold'
  <2>1. ASSUME NEW w \in Workers
        PROVE  TaskHolds(call[w], task[w])'
    <3>1. TaskHolds(call[w], task[w]) /\ used \subseteq Assets
      BY DEF IInv, AssetsInv, TasksHold, RegistryHolds
    <3>2. {"register", "insert"} \subseteq Placed
      BY AssetSteps
    <3>3. QED
      BY <1>2, <1>5, <3>1, <3>2 DEF TaskHolds, IsRegistered, RowOf
  <2>2. QED
    BY <1>2, <2>1 DEF IInv, AssetsInv, TasksHold
<1>8. QED
  BY <1>3, <1>4, <1>6, <1>7 DEF IInv, AssetsInv

LEMMA EmptyCacheHolds ==
  ASSUME NEW c, c = <<>>
  PROVE  c \in Seq(Entries) /\ Len(c) =< MaxEntries /\ OneOfEach(c)
BY AssetAssumption DEF OneOfEach

LEMMA CrashKeeps ==
  ASSUME IInv, Crash
  PROVE  IInv'
<1>1. /\ Killed /\ cache' = <<>> /\ task' = [w \in Workers |-> NoTask] /\ UNCHANGED rows
      /\ call' = [w \in Workers |-> Idle] /\ answer' = [w \in Workers |-> Pending]
  BY DEF Crash, Killed, environment, rows
<1>2. StoreInv'
  BY <1>1, KilledKeeps DEF IInv
<1>3. TasksHold'
  <2>1. NoTask \in Tasks
    BY TaskOfFacts DEF NoTask
  <2>2. \A w \in Workers : call'[w].op = "idle" /\ call'[w].step \notin Opened
    BY <1>1 DEF Idle, CallOf, None, Opened, Placed, Served
  <2>3. \A w \in Workers : TaskHolds(call[w], task[w])' /\ call'[w].step \notin Placed
    BY <2>2, PlainTask DEF Opened
  <2>4. QED
    BY <1>1, <2>1, <2>3 DEF TasksHold
<1>4. ResultsHold'
  <2>1. \A w \in Workers : ~answer'[w].ok
    BY <1>1 DEF Pending
  <2>2. QED
    BY <1>1, <2>1, OtherResults DEF ResultsHold
<1>5. CacheHolds'
  BY <1>1, EmptyCacheHolds DEF CacheHolds, OneOfEach
<1>6. QED
  BY <1>1, <1>2, <1>3, <1>4, <1>5, RegistryStays DEF IInv, AssetsInv

---------------------------------------------------------------------------
(* The invariant and what it says. *)

LEMMA IInvInit == Init => IInv
<1> SUFFICES ASSUME Init PROVE IInv
  OBVIOUS
<1>1. StoreInv
  BY StoreInvInit DEF Init
<1>2. /\ call = [w \in Workers |-> Idle] /\ answer = [w \in Workers |-> Pending]
      /\ task = [w \in Workers |-> NoTask] /\ cache = <<>> /\ source \in Contents
      /\ used = {row.asset : row \in registry} /\ tampered = {}
      /\ files = [asset \in Assets |->
                    IF IsRegistered(asset) THEN RowOf(asset).content ELSE None]
      /\ registry = IF db = WholeDatabase(Current, manifest)
                    THEN {Row(o[1], o[2][1], o[2][2], manifest) : o \in Owned}
                    ELSE {}
  BY DEF Init, StoreInit
<1>3. /\ registry \subseteq Rows
      /\ \A row \in registry : <<row.content, row.encoding>> \in Parsable
      /\ \A r, s \in registry : r.asset = s.asset => r = s
  <2>1. CASE registry = {}
    BY <2>1
  <2>2. CASE registry # {}
    <3>1. /\ db = WholeDatabase(Current, manifest)
          /\ registry = {Row(o[1], o[2][1], o[2][2], manifest) : o \in Owned}
      BY <1>2, <2>2
    <3>2. manifest \in Ids
      <4>1. db # Missing
        BY <3>1, WholeFields, Tables DEF Missing, Database, Current
      <4>2. QED
        BY <4>1 DEF Init, StoreInit
    <3>3. \A o \in Owned : /\ o[1] \in Assets /\ o[2] \in Parsable
                           /\ o[2][1] \in Contents /\ o[2][2] \in Encodings
                           /\ o[2] = <<o[2][1], o[2][2]>>
      BY AssetAssumption
    <3>4. \A o \in Owned :
            LET row == Row(o[1], o[2][1], o[2][2], manifest)
            IN row \in Rows /\ <<row.content, row.encoding>> \in Parsable /\ row.asset = o[1]
      BY <3>2, <3>3 DEF Row, Rows
    <3>5. \A o, p \in Owned : o[1] = p[1] => o = p
      BY AssetAssumption
    <3>6. ASSUME NEW row \in registry
          PROVE  /\ row \in Rows /\ <<row.content, row.encoding>> \in Parsable
                 /\ \E o \in Owned : /\ row = Row(o[1], o[2][1], o[2][2], manifest)
                                     /\ row.asset = o[1]
      BY <3>1, <3>4
    <3>7. ASSUME NEW r \in registry, NEW s \in registry, r.asset = s.asset
          PROVE  r = s
      BY <3>5, <3>6, <3>7
    <3>8. QED
      BY <3>6, <3>7
  <2>3. QED
    BY <2>1, <2>2
<1>4. \A row \in registry : IsRegistered(row.asset) /\ RowOf(row.asset) = row
  BY <1>3 DEF IsRegistered, RowOf
<1>5. \A a : IsRegistered(a) => RowOf(a) \in registry
  BY DEF IsRegistered, RowOf
<1>6. RegistryHolds
  <2>1. files \in [Assets -> Contents \cup {None}]
    BY <1>2, <1>3, <1>5 DEF Rows
  <2>2. used \subseteq Assets
    BY <1>2, <1>3 DEF Rows
  <2>3. \A row \in registry : RowHolds(row)
    BY <1>2, <1>3, <1>4 DEF Rows, RowHolds
  <2>4. QED
    BY <1>2, <1>3, <2>1, <2>2, <2>3 DEF RegistryHolds
<1>7. TasksHold
  <2>1. NoTask \in Tasks /\ NoTask.raw = NoTask.content
    BY TaskOfFacts DEF NoTask
  <2>2. \A w \in Workers : call[w].op = "idle" /\ call[w].step \notin Opened
    BY <1>2 DEF Idle, CallOf, None, Opened, Placed, Served
  <2>3. \A w \in Workers : TaskHolds(call[w], task[w])
    <3>1. {"reread", "identify", "lookup"} \cup Placed \cup Served \subseteq Opened
          /\ {"register", "insert"} \subseteq Placed
      BY AssetSteps
    <3>2. QED
      BY <2>2, <3>1 DEF TaskHolds
  <2>4. \A w \in Workers : call[w].step \notin Placed
    BY <2>2, AssetSteps
  <2>5. QED
    BY <1>2, <2>1, <2>3, <2>4 DEF TasksHold
<1>8. ResultsHold
  BY <1>2 DEF ResultsHold, ResultHolds, Pending
<1>9. CacheHolds
  BY <1>2, EmptyCacheHolds DEF CacheHolds
<1>10. QED
  BY <1>1, <1>6, <1>7, <1>8, <1>9 DEF IInv, AssetsInv

LEMMA IInvNext == IInv /\ [Next]_vars => IInv'
<1> SUFFICES ASSUME IInv, [Next]_vars PROVE IInv'
  OBVIOUS
<1>1. ASSUME NEW w \in Workers,
             StoreStep(w) \/ Opening(w) \/ Identified(w) \/ ImportStep(w) \/ ReadStep(w)
      PROVE  IInv'
  BY <1>1, StoreStepKeeps, OpeningKeeps, IdentifiedKeeps, ImportStepKeeps, ReadStepKeeps
<1>2. CASE Crash
  BY <1>2, CrashKeeps
<1>3. CASE Tamper
  BY <1>3, TamperKeeps
<1>4. CASE UNCHANGED vars
  <2>1. /\ root' = root /\ manifest' = manifest /\ db' = db /\ writer' = writer
        /\ call' = call /\ answer' = answer /\ UNCHANGED <<rows, cache, task>>
    BY <1>4 DEF vars, storeVars, diskVars, assetVars, rows
  <2>2. StoreInv'
    BY <2>1 DEF IInv, StoreInv, DiskHolds, CallHolds, CreationHolds, OpeningHolds,
                AnswerHolds, IsCurrent
  <2>3. TasksHold'
    BY <2>1 DEF IInv, AssetsInv, TasksHold, TaskHolds, IsRegistered, RowOf, rows
  <2>4. ResultsHold'
    BY <2>1 DEF IInv, AssetsInv, ResultsHold, ResultHolds, rows
  <2>5. QED
    BY <2>1, <2>2, <2>3, <2>4, RegistryStays, CacheStays DEF IInv, AssetsInv
<1>5. QED
  BY <1>1, <1>2, <1>3, <1>4 DEF Next

LEMMA IInvAlways == Spec => []IInv
BY IInvInit, IInvNext, PTL DEF Spec

\* Whatever write of a creation failed, whoever migrated at the same time and
\* wherever the process was killed: a database has the tables of its version, a
\* manifest stands beside one, and what was answered is current, complete and of one
\* identity (create_database, migrate_database, ProjectService).
THEOREM WholeProject == Spec => []ProjectIsWhole
<1>1. IInv => ProjectIsWhole
  BY StoreInvIsEnough DEF IInv
<1>2. QED
  BY <1>1, IInvAlways, PTL

\* A registered asset is a document, its bytes are there unless others touched them,
\* and an import that answered is registered, with any number of imports at once
\* (_persist_imported_document, _reread_verified).
THEOREM StoredAssets == Spec => []RegisteredIsStored
<1>1. IInv => RegisteredIsStored
  <2>1. SUFFICES ASSUME IInv PROVE RegisteredIsStored
    OBVIOUS
  <2>2. \A row \in registry :
          /\ <<row.content, row.encoding>> \in Parsable
          /\ row.asset \notin tampered => files[row.asset] = row.content
          /\ RowOf(row.asset) = row
    <3>1. SUFFICES ASSUME NEW row \in registry
                   PROVE  /\ <<row.content, row.encoding>> \in Parsable
                          /\ row.asset \notin tampered => files[row.asset] = row.content
                          /\ RowOf(row.asset) = row
      OBVIOUS
    <3>2. RegistryHolds
      BY <2>1 DEF IInv, AssetsInv
    <3>3. RowHolds(row)
      BY <3>2 DEF RegistryHolds
    <3>4. QED
      BY <3>2, <3>3, RowOfRow DEF RowHolds
  <2>3. \A w \in Workers :
          answer[w].ok /\ answer[w].op \in {"import", "import_path"} =>
            answer[w].row \in registry
    <3>1. SUFFICES ASSUME NEW w \in Workers, answer[w].ok,
                          answer[w].op \in {"import", "import_path"}
                   PROVE  answer[w].row \in registry
      OBVIOUS
    <3>2. ResultHolds(answer[w])
      BY <2>1 DEF IInv, AssetsInv, ResultsHold
    <3>3. QED
      BY <3>1, <3>2 DEF ResultHolds
  <2>4. QED
    BY <2>2, <2>3 DEF RegisteredIsStored
<1>2. QED
  BY <1>1, IInvAlways, PTL

\* A caller gets what the registered bytes mean under the registered encoding, from
\* the cache or from a compilation of its own; the cache keeps to its bound and to one
\* entry for a key (load_decoder, DecoderCache).
THEOREM RegisteredDecoders == Spec => []DecodesRegistered
<1>1. IInv => DecodesRegistered
  BY DEF IInv, AssetsInv, ResultsHold, ResultHolds, CacheHolds, OneOfEach, DecodesRegistered
<1>2. QED
  BY <1>1, IInvAlways, PTL
=============================================================================
