------------------------------- MODULE DbcDecode -------------------------------
(***************************************************************************)
(* What a DBC document makes of a frame: the model a document has to fit   *)
(* (dbc/model.py), the plan each message is compiled into and the decode   *)
(* of one frame, a batch or a work set (dbc/decode.py, dbc/decode_set.py), *)
(* behind the requests of api/dbc.py, and the stepwise Base64 decode an    *)
(* import starts with.                                                     *)
(*                                                                         *)
(* A byte is a number below 256.  A text of the transport is the sequence  *)
(* of its characters' classes: a letter of the alphabet, the padding, or   *)
(* any other.  A physical value is left out but for whether it is finite:  *)
(* raw values up to the signal's limit give one.  Names, units, labels and *)
(* comments say nothing about a decode; a name stays where it links a      *)
(* signal to its switch.                                                   *)
(***************************************************************************)
EXTENDS Integers, Sequences, FiniteSets, SequencesExt

CONSTANTS
  Imports,    \* the imports submitted: a text, and the messages it stands for
  Requests,   \* the decode requests submitted
  ChunkChars, \* DECODE_CHUNK_CHARS
  MaxBytes,   \* MAX_DBC_IMPORT_BYTES
  ExtraPads,  \* whether the library takes padding behind whole quanta
  MaxFrames   \* MAX_BATCH_FRAMES and DecodeFrameSet.MAX_FRAMES

None == "none"
Letter == "A"
Pad == "="
Other == "!"
Nothing == [nothing |-> TRUE]

\* DbcSignal, DbcMessage and Frame, as far as their fields' types tell.
Signals == [name : STRING \ {None}, start : Int, length : Int, big : BOOLEAN,
            signed : BOOLEAN, float : BOOLEAN, switch : BOOLEAN,
            parent : STRING, ids : SUBSET Int, limit : Int]
Messages == [id : Int, extended : BOOLEAN, fd : BOOLEAN, length : Int,
             signals : Seq(Signals)]
Frames == [sequence : Int, id : Int, extended : BOOLEAN, fd : BOOLEAN,
           data : Seq(0..255)]

ASSUME DecodeAssumption ==
  /\ ChunkChars \in Nat \ {0} /\ ChunkChars % 4 = 0
  /\ MaxBytes \in Nat /\ MaxFrames \in Nat
  /\ ExtraPads \in BOOLEAN
  /\ Imports \subseteq [text : Seq({Letter, Pad, Other}), messages : Seq(Messages)]
  /\ Requests \subseteq [kind : {"one", "batch", "set"}, frames : Seq(Frames)]

VARIABLES
  database,   \* the database of the last document imported
  plans,      \* the plan of each of its identifiers
  submitted,  \* the last request
  answer      \* what it was answered

vars == <<database, plans, submitted, answer>>

---------------------------------------------------------------------------
(* The canonical model. *)

IdentifierLimit(extended) == IF extended THEN 536870911 ELSE 2047

\* DbcSignal: a switch has no parent; a parent comes with ids.
ValidSignal(s) ==
  /\ s.start >= 0 /\ s.length >= 1
  /\ s.switch => s.parent = None /\ s.ids = {}
  /\ (s.parent = None) = (s.ids = {})

Unique(values) == \A i, j \in DOMAIN values : values[i] = values[j] => i = j

\* DbcMessage.
ValidMessage(m) ==
  /\ m.id \in 0..IdentifierLimit(m.extended)
  /\ m.length \in 0..(IF m.fd THEN 64 ELSE 8)
  /\ \A i \in DOMAIN m.signals : ValidSignal(m.signals[i])
  /\ Unique([i \in DOMAIN m.signals |-> m.signals[i].name])

\* DbcDatabase: the pair, never the identifier alone, names a message.
ValidDatabase(messages) ==
  /\ \A i \in DOMAIN messages : ValidMessage(messages[i])
  /\ Unique([i \in DOMAIN messages |-> <<messages[i].id, messages[i].extended>>])

DlcOf(fd) == 0..8 \cup (IF fd THEN {12, 16, 20, 24, 32, 48, 64} ELSE {})

\* Frame.
CanonicalFrame(f) ==
  /\ f.sequence >= 0
  /\ f.id \in 0..IdentifierLimit(f.extended)
  /\ Len(f.data) \in DlcOf(f.fd)

---------------------------------------------------------------------------
(* Compiling. *)

\* The window of bytes the bits of a signal lie in, and how far its last bit
\* is from the end of the window.
LittleWindowUnshifted(s) ==
  LET shift == s.start % 8
  IN [first |-> s.start \div 8,
      bytes |-> (s.length + 7) \div 8,
      shift |-> shift]
LittleWindow(s) ==
  LET shift == s.start % 8
  IN [first |-> s.start \div 8,
      bytes |-> (shift + s.length + 7) \div 8,
      shift |-> shift]

NetworkStart(s) == 8 * (s.start \div 8) + (7 - (s.start % 8))

BigWindow(s) ==
  LET first == NetworkStart(s) \div 8
      bytes == (NetworkStart(s) + s.length - 1) \div 8 - first + 1
  IN [first |-> first,
      bytes |-> bytes,
      shift |-> bytes * 8 - (NetworkStart(s) - first * 8) - s.length]

\* _compile_signal: outside the payload there is no plan.  A shift below zero,
\* which the code refuses too, cannot come about (WindowsFit).
Fits(s, bits) ==
  /\ s.length =< bits
  /\ (IF s.big THEN NetworkStart(s) ELSE s.start) + s.length =< bits

Window(s) == IF s.big THEN BigWindow(s) ELSE LittleWindow(s)

SignalsOf(m) == {m.signals[i] : i \in DOMAIN m.signals}
Switches(m) == {s \in SignalsOf(m) : s.switch}

\* _resolve_multiplexer: one switch, and every dependent signal names it.
AmbiguousMultiplexing(m) ==
  \/ Cardinality(Switches(m)) > 1
  \/ \E s \in SignalsOf(m) :
        s.parent # None /\ \A w \in Switches(m) : w.name # s.parent

\* _compile_message.
CompileMessage(m) ==
  LET bits == 8 * m.length
  IN [length |-> m.length,
      fd |-> m.fd,
      unsupported |-> \/ AmbiguousMultiplexing(m)
                      \/ \E s \in SignalsOf(m) : s.float \/ ~Fits(s, bits),
      signals |-> m.signals,
      switches |-> Switches(m)]

\* DbcDecoder(): the plan of every identifier pair.
Compile(messages) ==
  [key \in {<<messages[i].id, messages[i].extended>> : i \in DOMAIN messages} |->
     CompileMessage(CHOOSE m \in {messages[i] : i \in DOMAIN messages} :
                      <<m.id, m.extended>> = key)]

---------------------------------------------------------------------------
(* Decoding. *)

Pow2[k \in Nat] == IF k = 0 THEN 1 ELSE 2 * Pow2[k - 1]

\* The bytes of a window, the one that weighs most first, and int.from_bytes.
Covered(data, window, big) ==
  [k \in 1..window.bytes |->
     data[IF big THEN window.first + k ELSE window.first + window.bytes - k + 1]]
Number(bytes) ==
  LET number[k \in 0..Len(bytes)] ==
        IF k = 0 THEN 0 ELSE 256 * number[k - 1] + bytes[k]
  IN number[Len(bytes)]

\* _SignalPlan.raw_value.
RawValue(s, data) ==
  LET window == Window(s)
      number == Number(Covered(data, window, s.big))
      value == (number \div Pow2[window.shift]) % Pow2[s.length]
  IN IF s.signed /\ value >= Pow2[s.length - 1] THEN value - Pow2[s.length] ELSE value

\* The physical value is a finite number.
IsFinite(s, raw) == raw \in -s.limit..s.limit

\* A signal is decoded when it depends on no switch, or on the value it has.
IsSelected(plan, s, data) ==
  s.parent # None =>
     \E w \in plan.switches : RawValue(w, data) \in s.ids

DecodedSignals(plan, data) ==
  LET decoded[i \in 0..Len(plan.signals)] ==
        IF i = 0 THEN <<>>
        ELSE IF IsSelected(plan, plan.signals[i], data)
             THEN Append(decoded[i - 1], plan.signals[i])
        ELSE decoded[i - 1]
  IN decoded[Len(plan.signals)]

Failure(reason) == [failure |-> reason]
Decoded(signals, data) ==
  [signals |-> [i \in DOMAIN signals |->
                  [name |-> signals[i].name, raw |-> RawValue(signals[i], data)]]]

\* decode_frame, _MessagePlan.decode: one signal that fails, fails the frame.
Outcome(f) ==
  LET key == <<f.id, f.extended>>
      plan == plans[key]
      signals == DecodedSignals(plan, f.data)
  IN IF key \notin DOMAIN plans THEN Failure("not_found")
     ELSE IF plan.fd # f.fd THEN Failure("type_mismatch")
     ELSE IF plan.unsupported THEN Failure("unsupported")
     ELSE IF Len(f.data) < plan.length THEN Failure("too_short")
     ELSE IF \E i \in DOMAIN signals :
               ~IsFinite(signals[i], RawValue(signals[i], f.data))
          THEN Failure("not_finite")
     ELSE Decoded(signals, f.data)

\* _outcomes: one per frame, in the order submitted.
Outcomes(frames) == [i \in DOMAIN frames |-> Outcome(frames[i])]

---------------------------------------------------------------------------
(* The requests. *)

Ascending(frames) ==
  \A i \in 1..Len(frames) - 1 : frames[i].sequence < frames[i + 1].sequence
Contiguous(frames) ==
  \A i \in 1..Len(frames) - 1 : frames[i + 1].sequence = frames[i].sequence + 1

\* The validators of DbcDecodeRequest, ...BatchRequest and ...FramesRequest.
Acceptable(request) ==
  /\ \A i \in DOMAIN request.frames : CanonicalFrame(request.frames[i])
  /\ Len(request.frames) \in 1..MaxFrames
  /\ request.kind = "one" => Len(request.frames) = 1
  /\ request.kind = "batch" => Contiguous(request.frames)
  /\ request.kind = "set" => Ascending(request.frames)

\* _decode_one lets the failure of its frame be the failure of the request.
Response(request) ==
  LET outcomes == Outcomes(request.frames)
  IN IF ~Acceptable(request) THEN Failure("request")
     ELSE IF request.kind = "one" /\ "failure" \in DOMAIN outcomes[1] THEN outcomes[1]
     ELSE [outcomes |-> outcomes]

Decode ==
  /\ submitted = Nothing
  /\ database # <<>>
  /\ \E request \in Requests :
        /\ submitted' = request
        /\ answer' = Response(request)
  /\ UNCHANGED <<database, plans>>

\* base64.b64decode(validate=True): nothing but the alphabet, and padding that
\* ends the text and completes its last quantum.
Letters(text) == Cardinality({i \in DOMAIN text : text[i] = Letter})
Strict(text) ==
  LET pads == Len(text) - Letters(text)
      rest == Letters(text) % 4
  IN /\ \A i \in DOMAIN text : text[i] = IF i =< Letters(text) THEN Letter ELSE Pad
     /\ rest # 1
     /\ rest = 0 => pads = 0 \/ (Letters(text) # 0 /\ ExtraPads)
     /\ rest \in {2, 3} => pads = 4 - rest

\* The steps of _decode_strict_base64.
Steps(text) == (Len(text) + ChunkChars - 1) \div ChunkChars
Least(a, b) == IF a < b THEN a ELSE b
Step(text, i) ==
  SubSeq(text, (i - 1) * ChunkChars + 1, Least(i * ChunkChars, Len(text)))

\* _decode_strict_base64: padding in the last step only.
StepwisePermissive(text) == \A i \in 1..Steps(text) : Strict(Step(text, i))
Stepwise(text) ==
  \A i \in 1..Steps(text) :
     /\ Pad \in ToSet(Step(text, i)) => i = Steps(text)
     /\ Strict(Step(text, i))

\* The longest text of a document within the bound.  A shorter one may still
\* stand for a byte or two too many.
MaxChars == 4 * ((MaxBytes + 2) \div 3)
BytesOf(text) == (Letters(text) * 3) \div 4

\* decode_import_content: neither empty nor longer than the bound.
Importable(text) ==
  /\ text # <<>> /\ Len(text) =< MaxChars
  /\ Stepwise(text)
  /\ BytesOf(text) =< MaxBytes

\* POST /dbc/assets: a document the model refuses changes nothing.
Import ==
  /\ submitted = Nothing
  /\ \E import \in Imports :
       /\ submitted' = import
       /\ IF Importable(import.text) /\ ValidDatabase(import.messages)
          THEN /\ database' = import.messages
               /\ plans' = Compile(import.messages)
               /\ answer' = [imported |-> TRUE]
          ELSE /\ answer' = Failure("import")
               /\ UNCHANGED <<database, plans>>

\* The client is done with its answer.
Done ==
  /\ submitted # Nothing
  /\ submitted' = Nothing
  /\ answer' = Nothing
  /\ UNCHANGED <<database, plans>>

Init ==
  /\ database = <<>>
  /\ plans = <<>>
  /\ submitted = Nothing
  /\ answer = Nothing

Next == Import \/ Decode \/ Done

Spec == Init /\ [][Next]_vars

---------------------------------------------------------------------------
(* The reference: a signal read bit by bit, in the numbering of a DBC      *)
(* document, and a message read signal by signal.                          *)

BitAt(data, p) == (data[p \div 8 + 1] \div Pow2[p % 8]) % 2

\* The position of the bit of weight k: a little-endian signal counts up from
\* its start; a big-endian one starts with its highest bit, goes down within a
\* byte and on to the top of the next.
Walk(s) ==
  LET walk[k \in 0..s.length - 1] ==
        IF k = 0 THEN s.start
        ELSE IF walk[k - 1] % 8 = 0 THEN walk[k - 1] + 15 ELSE walk[k - 1] - 1
  IN walk
Position(s, k) == IF s.big THEN Walk(s)[s.length - 1 - k] ELSE s.start + k

BitsInside(s, bits) == \A k \in 0..s.length - 1 : Position(s, k) < bits

\* Two's complement: the highest bit of a signed signal weighs -2^(length-1).
ReferenceValue(s, data) ==
  LET Weight(k) == IF s.signed /\ k = s.length - 1 THEN -Pow2[k] ELSE Pow2[k]
      value[k \in 0..s.length] ==
        IF k = 0 THEN 0
        ELSE value[k - 1] + Weight(k - 1) * BitAt(data, Position(s, k - 1))
  IN value[s.length]

MessagesFor(f) == {m \in ToSet(database) : m.id = f.id /\ m.extended = f.extended}

Decodable(m, f) ==
  /\ m.fd = f.fd /\ m.length =< Len(f.data)
  /\ \A s \in SignalsOf(m) : ~s.float /\ BitsInside(s, 8 * m.length)
  /\ \A v, w \in Switches(m) : v = w
  /\ \A s \in SignalsOf(m) : s.parent = None \/ \E w \in Switches(m) : w.name = s.parent

\* The signals a frame of m carries: all but those of another multiplex.
Carried(m, f) ==
  {s \in SignalsOf(m) :
     \A w \in Switches(m) : s.parent = w.name => ReferenceValue(w, f.data) \in s.ids}

IsReference(outcome, f) ==
  LET decodable == {m \in MessagesFor(f) :
                      /\ Decodable(m, f)
                      /\ \A s \in Carried(m, f) :
                            ReferenceValue(s, f.data) \in -s.limit..s.limit}
  IN IF decodable = {} THEN "failure" \in DOMAIN outcome
     ELSE \A m \in decodable :
            /\ "signals" \in DOMAIN outcome
            /\ Len(outcome.signals) = Cardinality(Carried(m, f))
            /\ ToSet(outcome.signals) =
                 {[name |-> s.name, raw |-> ReferenceValue(s, f.data)] : s \in Carried(m, f)}

\* Every frame of a request is answered, in its place, with what its own bits
\* say and whatever becomes of the other frames; what cannot be decoded without
\* a guess is a failure and never a value (_compile_signal, _resolve_multiplexer,
\* _MessagePlan.decode, _outcomes).
DecodesAreExact ==
  "outcomes" \in DOMAIN answer =>
     /\ Len(answer.outcomes) = Len(submitted.frames)
     /\ \A i \in DOMAIN submitted.frames :
           IsReference(answer.outcomes[i], submitted.frames[i])

\* Whole quanta, the last one padded at most.
Canonical(text) ==
  /\ Strict(text) /\ Len(text) % 4 = 0
  /\ Cardinality({i \in DOMAIN text : text[i] = Pad}) =< 2

\* Decoding in steps takes no text the whole-payload decode refuses, and no
\* canonical text within the bound is lost (_decode_strict_base64).
StepsDecodeTheWhole ==
  "text" \in DOMAIN submitted =>
     LET text == submitted.text
     IN /\ Stepwise(text) => Strict(text)
        /\ Canonical(text) => Stepwise(text)

\* The plans are those of the database: a refused import leaves no half of it.
TypeOK ==
  /\ ValidDatabase(database)
  /\ database # <<>> => plans = Compile(database)
===============================================================================
