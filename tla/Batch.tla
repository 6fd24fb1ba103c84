------------------------------- MODULE Batch -------------------------------
(***************************************************************************)
(* One batch of the decode stream as src/src/batch.rs reads it: the batch  *)
(* header (BatchReader::new), the walk over the records behind it          *)
(* (Records) and the resumption of a walk in the middle                    *)
(* (BatchReader::records_from).                                            *)
(*                                                                         *)
(* An operator commented as a slip is its neighbour with a plausible       *)
(* mistake in it; the runs show that their properties notice.              *)
(*                                                                         *)
(* The bytes are abstracted to what those functions look at:               *)
(*   magic    the first four bytes are VACB                                *)
(*   wire     the wire version field                                       *)
(*   plen     the payload_length field                                     *)
(*   at       for an offset p of the payload, what the eight bytes found   *)
(*            there read as when they are taken for a record header        *)
(* and a header is [reserved, length, body], where body is what decode()   *)
(* answers for a record of that header: a refusal or an item.  The offsets *)
(* of at are the word-aligned ones, the only ones a walk can stand at.     *)
(***************************************************************************)
EXTENDS Integers

CONSTANT None               \* Rust's None, and "no refusal"

\* The rules a batch, an offset and a record's frame are refused by.
FrameRefusals ==
    {"ShortBatchHeader", "BadMagic", "AbiMismatch", "PayloadPastBuffer",
     "BeforeFirstRecord", "PastEndOfBatch", "NotAligned",
     "ShortRecordHeader", "LengthBelowHeader", "LengthNotMultipleOfFour",
     "LengthPastPayload", "RecordReservedNotZero", "Internal"}

ASSUME NoneAssumption == None \notin FrameRefusals

BATCH_HEADER_LEN  == 12
RECORD_HEADER_LEN == 8
WIRE_VERSION      == 2

\* Where a whole record header can be read in a payload of n bytes.
HeaderOffsets(n) == {p \in 0 .. n : p % 4 = 0 /\ p + RECORD_HEADER_LEN <= n}

\* What an item of the stream is told apart by: the frame records the stream
\* remembers, the warnings it counts, and every other record.
Kinds == {"DocumentBegin", "ViewEnd", "DocumentEnd", "Warning", "Other"}

\* body is [refused, kind, total]: what decode() refuses the record by, or the
\* item it makes of it.  total is the total_records of a DocumentEnd, and means
\* nothing in an item of another kind.  decode() never answers Internal: that
\* its reads stay inside the record is the subject of Payload.
IsBytes(b) ==
    /\ b.magic \in BOOLEAN
    /\ b.wire \in Nat
    /\ b.plen \in Nat
    /\ DOMAIN b.at = HeaderOffsets(b.plen)
    /\ \A p \in HeaderOffsets(b.plen) :
          /\ b.at[p].reserved \in Nat
          /\ b.at[p].length \in Nat
          /\ b.at[p].body.refused # "Internal"
          /\ b.at[p].body.kind \in Kinds
          /\ b.at[p].body.total \in Nat

-----------------------------------------------------------------------------
(* BatchReader *)

\* BatchReader::new on the first size bytes of b: the rule it is refused by.
ReaderRefusal(size, b) ==
    IF size < BATCH_HEADER_LEN                THEN "ShortBatchHeader"
    ELSE IF ~b.magic                          THEN "BadMagic"
    ELSE IF b.wire # WIRE_VERSION             THEN "AbiMismatch"
    ELSE IF BATCH_HEADER_LEN + b.plen > size  THEN "PayloadPastBuffer"
    ELSE None

total_len(b) == BATCH_HEADER_LEN + b.plen

\* Slip: the budget counts whole records only, without the one more.
walk_from_Short(b, pos) ==
    [pos |-> pos,
     budget |-> (b.plen - pos) \div RECORD_HEADER_LEN,
     stopped |-> FALSE]

\* The walk that starts pos bytes into the payload, with one step of budget
\* per smallest possible record left, and one more.
walk_from(b, pos) ==
    [pos |-> pos,
     budget |-> (b.plen - pos) \div RECORD_HEADER_LEN + 1,
     stopped |-> FALSE]

records(b) == walk_from(b, 0)

\* BatchReader::records_from: why the offset is not one to resume at.
ResumeRefusal(b, offset) ==
    IF offset < BATCH_HEADER_LEN                  THEN "BeforeFirstRecord"
    ELSE IF offset > total_len(b)                 THEN "PastEndOfBatch"
    ELSE IF (offset - BATCH_HEADER_LEN) % 4 # 0   THEN "NotAligned"
    ELSE None

\* Slip: the offset is taken for one into the payload.
records_from_Headless(b, offset) == walk_from(b, offset)

records_from(b, offset) == walk_from(b, offset - BATCH_HEADER_LEN)

-----------------------------------------------------------------------------
(* Records *)

\* Slip: the offset into the payload is handed out.
Offset_InPayload(r) == r.pos

Offset(r) == BATCH_HEADER_LEN + r.pos

\* Slip: a length is not asked to be a multiple of four.
FramingRefusal_Unaligned(remaining, h) ==
    IF h.length < RECORD_HEADER_LEN  THEN "LengthBelowHeader"
    ELSE IF h.length > remaining     THEN "LengthPastPayload"
    ELSE IF h.reserved # 0           THEN "RecordReservedNotZero"
    ELSE None

\* Slip: a length may run past the payload.
FramingRefusal_Past(remaining, h) ==
    IF h.length < RECORD_HEADER_LEN  THEN "LengthBelowHeader"
    ELSE IF h.length % 4 # 0         THEN "LengthNotMultipleOfFour"
    ELSE IF h.reserved # 0           THEN "RecordReservedNotZero"
    ELSE None

\* The framing rules of Records::step, in their order.
FramingRefusal(remaining, h) ==
    IF h.length < RECORD_HEADER_LEN  THEN "LengthBelowHeader"
    ELSE IF h.length % 4 # 0         THEN "LengthNotMultipleOfFour"
    ELSE IF h.length > remaining     THEN "LengthPastPayload"
    ELSE IF h.reserved # 0           THEN "RecordReservedNotZero"
    ELSE None

\* A step of a walk: where it leaves the walk, and what it answers.  A record
\* whose framing is sound moves the walk, also when decode() refuses it.
Answered(r, refused, kind, total) ==
    [r |-> r, refused |-> refused, kind |-> kind, total |-> total]
Refused(r, refusal) == Answered(r, refusal, None, 0)

step(b, r) ==
    LET spent     == [r EXCEPT !.budget = @ - 1]
        remaining == b.plen - r.pos
        h         == b.at[r.pos]
        moved     == [spent EXCEPT !.pos = @ + h.length]
    IN  IF r.budget = 0                            THEN Refused(r, "Internal")
        ELSE IF remaining < 0                      THEN Refused(spent, "Internal")
        ELSE IF remaining < RECORD_HEADER_LEN      THEN Refused(spent, "ShortRecordHeader")
        ELSE IF FramingRefusal(remaining, h) # None
             THEN Refused(spent, FramingRefusal(remaining, h))
        ELSE Answered(moved, h.body.refused, h.body.kind, h.body.total)

\* Records::next: whether the walk is over, and otherwise what it answers.
IsOver(b, r) == r.stopped \/ r.pos >= b.plen

Stopped(r) == [r EXCEPT !.stopped = TRUE]

next(b, r) ==
    LET a == step(b, r)
    IN  IF a.refused = None THEN a ELSE [a EXCEPT !.r = Stopped(@)]
=============================================================================
