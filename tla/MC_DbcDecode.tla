------------------------------ MODULE MC_DbcDecode -----------------------------
(* Every placement of one signal in two bytes, each way of multiplexing, and *)
(* every text of up to two and a half steps.                                 *)
EXTENDS DbcDecode

Signal(start, length, big, signed) ==
  [name |-> "s", start |-> start, length |-> length, big |-> big, signed |-> signed,
   float |-> FALSE, switch |-> FALSE, parent |-> None, ids |-> {}, limit |-> 70000]
Message(signals) ==
  [id |-> 1, extended |-> FALSE, fd |-> FALSE, length |-> 2, signals |-> signals]

Placed == {Signal(start, length, big, signed) :
             start \in 0..16, length \in 1..17, big \in BOOLEAN, signed \in BOOLEAN}

Selector == [Signal(1, 2, FALSE, FALSE) EXCEPT !.name = "w", !.switch = TRUE]
SignedSelector == [Selector EXCEPT !.signed = TRUE]
Dependent(name, ids) ==
  [Signal(7, 9, TRUE, TRUE) EXCEPT !.name = name, !.parent = "w", !.ids = ids]
Narrow == [Signal(8, 8, FALSE, TRUE) EXCEPT !.name = "n", !.limit = 100]

MCDatabases ==
  {<<Message(<<s>>)>> : s \in Placed} \cup
  {<<Message(<<Dependent("a", {1}), w, Dependent("b", {1, 3}), Narrow>>),
     [Message(<<[Narrow EXCEPT !.float = TRUE]>>) EXCEPT !.extended = TRUE]>> :
     w \in {Selector, SignedSelector}} \cup
  {<<Message(<<Dependent("a", {1})>>)>>,
   <<Message(<<Selector, [Selector EXCEPT !.name = "v"], Dependent("a", {1})>>)>>,
   <<Message(<<Selector, [Dependent("a", {1}) EXCEPT !.parent = "v"]>>)>>,
   <<Message(<<Selector, Selector>>)>>,
   <<Message(<<[Narrow EXCEPT !.parent = "w"]>>)>>,
   <<[Message(<<>>) EXCEPT !.length = 12], Message(<<>>)>>,
   <<[Message(<<Narrow>>) EXCEPT !.fd = TRUE], [Message(<<>>) EXCEPT !.extended = TRUE]>>,
   <<Message(<<>>), Message(<<Narrow>>)>>}

FrameOf(sequence, data) ==
  [sequence |-> sequence, id |-> 1, extended |-> FALSE, fd |-> FALSE, data |-> data]
Bytes == {0, 2, 129, 255}
MCRequests ==
  {[kind |-> "one", frames |-> <<FrameOf(1, <<b, c>>)>>] : b, c \in Bytes} \cup
  {[kind |-> kind, frames |-> <<FrameOf(1, <<2, 255>>), f>>] :
     kind \in {"batch", "set"},
     f \in {FrameOf(2, <<129>>), FrameOf(3, <<7, 127, 1>>), FrameOf(1, <<0, 0>>),
            [FrameOf(2, <<0, 128>>) EXCEPT !.extended = TRUE],
            [FrameOf(2, <<6, 128>>) EXCEPT !.fd = TRUE],
            FrameOf(2, <<0, 0, 0, 0, 0, 0, 0, 0, 0>>)}} \cup
  {[kind |-> "set", frames |-> <<>>]}

Quantum == <<Letter, Letter, Letter, Letter>>
MCTexts ==
  BoundedSeq({Letter, Pad}, 8) \cup
  {<<Other>>, <<Letter, Other, Pad, Pad>>, Quantum \o Quantum \o <<Pad>>,
   Quantum \o Quantum \o <<Letter, Pad>>}
MCImports == {[text |-> Quantum, messages |-> messages] : messages \in MCDatabases}
        \cup {[text |-> text, messages |-> <<Message(<<>>)>>] : text \in MCTexts}
================================================================================
