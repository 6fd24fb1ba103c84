---------------------------- MODULE MCAnyLibrary ----------------------------
(***************************************************************************)
(* AnyLibrary for TLC: a library that answers whatever it likes: batches   *)
(* that parse, batches that do not, sizes in and out of the buffer, every  *)
(* way a result code is told apart.  The u64 counters wrap at              *)
(* CounterLimit, so a stream that never ends is a cycle.                   *)
(***************************************************************************)
EXTENDS AnyLibrary

Word(length, refused, kind, total) ==
    [reserved |-> 0, length |-> length,
     body |-> [refused |-> refused, kind |-> kind, total |-> total]]
Noise      == Word(0, None, "Other", 0)
Other      == Word(8, None, "Other", 0)
Last(n)    == Word(24, None, "DocumentEnd", n)
Unreadable == Word(8, "WrongFixedLength", "Other", 0)

\* A batch of records laid at the offsets in at; the rest reads as noise.
Bytes(wire, plen, at) ==
    [magic |-> TRUE, wire |-> wire, plen |-> plen,
     at |-> [p \in HeaderOffsets(plen) |->
                IF p \in DOMAIN at THEN at[p] ELSE Noise]]

Empty == [p \in {} |-> Noise]

MCContents ==
    {Bytes(2, 0, Empty), Bytes(3, 0, Empty),
     Bytes(2, 8, [p \in {0} |-> Other]), Bytes(2, 12, [p \in {0} |-> Other]), Bytes(2, 8, [p \in {0} |-> Unreadable]),
     Bytes(2, 24, [p \in {0} |-> Last(1)]), Bytes(2, 24, [p \in {0} |-> Last(2)]),
     Bytes(2, 32, [p \in {0, 8} |-> IF p = 0 THEN Other ELSE Last(2)]),
     Bytes(2, 16, [p \in {0, 8} |-> IF p = 0 THEN Other ELSE Noise])}

\* Below a header, a header, exact sizes of the batches above, one past the
\* ceiling, one past the host.
MCSizes == {0, 11, 12, 20, 36, 44, 45, 60}

\* What a refusal leaves in the buffer is never read, so one content stands
\* for them all.
MCAnswers ==
    [code : {"OK"}, written : MCSizes, done : BOOLEAN, bytes : MCContents]
    \cup [code : {"BUFFER_TOO_SMALL", "CANCELED", "INTERNAL_ERROR"},
          written : MCSizes, done : {FALSE}, bytes : {Bytes(3, 0, Empty)}]
=============================================================================
