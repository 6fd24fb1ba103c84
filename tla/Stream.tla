------------------------------- MODULE Stream -------------------------------
(***************************************************************************)
(* The pull loop behind PrimitiveStream: Core of src/src/stream.rs.  One   *)
(* step is one turn of the loop in Core::next or one turn of the loop in   *)
(* Core::pull; a call of the library is a step that begins it and a step   *)
(* that takes its answer, so that other threads run in between.            *)
(*                                                                         *)
(* The library is not here: AnyLibrary composes the stream with one that   *)
(* answers whatever the C signature allows, Decode with one that keeps the *)
(* contract of native/viprs_acadsharp.h and a thread that cancels.         *)
(***************************************************************************)
EXTENDS Batch

CONSTANTS
    InitialBatchBytes,  \* Core::new's initial_batch_bytes
    MaxBatchBytes,      \* Core::new's max_batch_bytes
    MaxEmptyBatches,    \* MAX_EMPTY_BATCHES_IN_A_ROW
    HostMax,            \* usize::MAX
    CounterLimit        \* 2^64: records, warnings and batches are counted in u64

ASSUME SizesAssumption ==
    /\ InitialBatchBytes \in Nat
    /\ MaxBatchBytes \in Nat
    /\ HostMax \in Nat
    /\ BATCH_HEADER_LEN <= HostMax
    /\ MaxBatchBytes <= HostMax
ASSUME ErrorsAssumption == None \notin {"Internal", "Batch", "BatchTooLarge"}
ASSUME CountersAssumption == MaxEmptyBatches \in Nat /\ CounterLimit \in Nat \ {0}

VARIABLES
    buf_len,        \* buf.len()
    buf,            \* what the front of buf holds
    batch_len, cursor, native_done, empty_batches_in_a_row, finished, failed,
    records_seen, warnings_seen, batches_pulled,
    document_begin, view_end,   \* whether the record has gone past
    document_end,               \* its total_records, or None
    grown,          \* the local of Core::pull
    pc,             \* "idle": no call of next(); "loop": at the top of its loop;
                    \* "native": in the library
    answer,         \* what the last next() answered
    calls           \* history: calls of the library since next() was called

buffer    == <<buf_len, buf, batch_len, cursor>>
flags     == <<native_done, empty_batches_in_a_row, finished, failed>>
counters  == <<records_seen, warnings_seen, batches_pulled>>
landmarks == <<document_begin, view_end, document_end>>
control   == <<grown, pc, answer, calls>>
core      == <<buffer, flags, counters, landmarks>>
streamVars == <<core, control>>

Maximum(m, n) == IF m > n THEN m ELSE n
Clamp(n, low, high) == IF n < low THEN low ELSE IF n > high THEN high ELSE n

\* Core::new: the ceiling wins over the starting size, and neither is less
\* than a batch header.
max_batch_bytes == Maximum(MaxBatchBytes, BATCH_HEADER_LEN)
initial         == Clamp(InitialBatchBytes, BATCH_HEADER_LEN, max_batch_bytes)

\* A u64 that is incremented.
Count(n) == (n + 1) % CounterLimit

ZeroBytes == [magic |-> FALSE, wire |-> 0, plen |-> 0,
              at |-> [p \in HeaderOffsets(0) |-> 0]]

\* What next() answers.
NotYet      == [tag |-> "not yet"]
Item(a)     == [tag |-> "item", kind |-> a.kind, total |-> a.total]
Err(error)  == [tag |-> "error", error |-> error]
End         == [tag |-> "none"]

CoreInit ==
    /\ buf_len = initial
    /\ buf = ZeroBytes
    /\ batch_len = 0
    /\ cursor = 0
    /\ native_done = FALSE
    /\ empty_batches_in_a_row = 0
    /\ finished = FALSE
    /\ failed = FALSE
    /\ records_seen = 0 /\ warnings_seen = 0 /\ batches_pulled = 0
    /\ document_begin = FALSE /\ view_end = FALSE /\ document_end = None

Init ==
    /\ CoreInit
    /\ grown = FALSE
    /\ pc = "idle"
    /\ answer = NotYet
    /\ calls = 0

-----------------------------------------------------------------------------
(* Core::next, except the library's side of a pull *)

\* Slip: a failure is noted, but does not finish the stream.
stop_Open(failure) ==
    /\ finished' = (finished \/ ~failure)
    /\ failed' = (failed \/ failure)

\* Slip: the stream finishes without a note of the failure.
stop_Unmarked(failure) ==
    /\ finished' = TRUE
    /\ UNCHANGED failed

stop(failure) ==
    /\ finished' = TRUE
    /\ failed' = (failed \/ failure)

Return(a) ==
    /\ pc' = "idle"
    /\ answer' = a
    /\ UNCHANGED <<grown, calls>>

\* The caller asks for the next item.
Call ==
    /\ pc = "idle"
    /\ pc' = "loop"
    /\ calls' = 0
    /\ UNCHANGED <<core, grown, answer>>

\* if self.finished { return None; }
AfterTheEnd ==
    /\ pc = "loop"
    /\ finished
    /\ Return(End)
    /\ UNCHANGED core

InBatch == pc = "loop" /\ ~finished /\ cursor < batch_len

\* Core::step up to the record: the walk resumed at the cursor of this batch.
\* StepError is the refusal it ends in, None when there is a record.
Resumed == records_from(buf, cursor)
StepError ==
    IF ReaderRefusal(batch_len, buf) # None         THEN "Batch"
    ELSE IF ResumeRefusal(buf, cursor) # None       THEN "Internal"
    ELSE IF IsOver(buf, Resumed)                    THEN "Internal"
    ELSE IF next(buf, Resumed).refused # None       THEN "Batch"
    ELSE None

\* Core::step answering a record, with everything it writes down on the way.
YieldRecord ==
    /\ InBatch
    /\ StepError = None
    /\ LET a == next(buf, Resumed)
       IN  /\ cursor' = Offset(a.r)
           /\ records_seen' = Count(records_seen)
           /\ document_begin' = (document_begin \/ a.kind = "DocumentBegin")
           /\ view_end' = (view_end \/ a.kind = "ViewEnd")
           /\ document_end' = IF a.kind = "DocumentEnd" THEN a.total ELSE document_end
           /\ warnings_seen' = IF a.kind = "Warning" THEN Count(warnings_seen)
                                                     ELSE warnings_seen
           /\ Return(Item(a))
    /\ UNCHANGED <<buf_len, buf, batch_len, flags, batches_pulled>>

\* Core::step refusing: the stream stops for good.
RefuseRecord ==
    /\ InBatch
    /\ StepError # None
    /\ stop(TRUE)
    /\ Return(Err(StepError))
    /\ UNCHANGED <<buffer, native_done, empty_batches_in_a_row, counters, landmarks>>

\* Slip: what is left in the buffer is forgotten once the library is done.
Drained_Early == pc = "loop" /\ ~finished /\ (native_done \/ cursor >= batch_len)

Drained == pc = "loop" /\ ~finished /\ cursor >= batch_len

\* The last batch is read to its end: no further call of the library.
EndStream ==
    /\ Drained
    /\ native_done
    /\ stop(FALSE)
    /\ Return(End)
    /\ UNCHANGED <<buffer, native_done, empty_batches_in_a_row, counters, landmarks>>

CallLibrary ==
    /\ pc' = "native"
    /\ calls' = calls + 1

\* Slip: the done of the last batch is not looked at.
Pull_AfterDone ==
    /\ Drained
    /\ grown' = FALSE
    /\ CallLibrary
    /\ UNCHANGED <<core, answer>>

\* Core::pull begins.
Pull ==
    /\ Drained
    /\ ~native_done
    /\ grown' = FALSE
    /\ CallLibrary
    /\ UNCHANGED <<core, answer>>

-----------------------------------------------------------------------------
(* Core::pull, taking an answer of the library: a code, *written, *done and *)
(* the bytes it left in the buffer it was lent.                            *)

IsAnswer(a) == a.written \in Nat /\ a.done \in BOOLEAN /\ IsBytes(a.bytes)

\* Error::from_native_code
from_native_code(code) ==
    CASE code = "OK"                                    -> None
      [] code \in {"INTERNAL_ERROR", "BUFFER_TOO_SMALL"} -> "Internal"
      [] OTHER                                          -> code

IsEmptyBatch(a) == a.written = BATCH_HEADER_LEN /\ ~a.done

SizeInBuffer(a) == BATCH_HEADER_LEN <= a.written /\ a.written <= buf_len

\* Slip: payload-free batches are not counted.
EmptyBatches_Uncounted(a) == empty_batches_in_a_row

\* Slip: a batch with a payload does not end the row.
EmptyBatches_EverSoFar(a) ==
    empty_batches_in_a_row + (IF IsEmptyBatch(a) THEN 1 ELSE 0)

\* What the answer makes of empty_batches_in_a_row.
EmptyBatches(a) == IF IsEmptyBatch(a) THEN empty_batches_in_a_row + 1 ELSE 0

\* Slip: the buffer may grow any number of times in one pull.
PullError_GrowsAgain(a) ==
    CASE a.code = "OK" ->
            IF a.written > HostMax \/ ~SizeInBuffer(a)  THEN "Internal"
            ELSE IF EmptyBatches(a) > MaxEmptyBatches   THEN "Internal"
            ELSE None
      [] a.code = "BUFFER_TOO_SMALL" ->
            IF a.written > max_batch_bytes              THEN "BatchTooLarge"
            ELSE IF a.written <= buf_len                THEN "Internal"
            ELSE None
      [] OTHER -> from_native_code(a.code)

\* The error Core::pull leaves with on this answer, None when it does not.
PullError(a) ==
    CASE a.code = "OK" ->
            IF a.written > HostMax \/ ~SizeInBuffer(a)  THEN "Internal"
            ELSE IF EmptyBatches(a) > MaxEmptyBatches   THEN "Internal"
            ELSE None
      [] a.code = "BUFFER_TOO_SMALL" ->
            IF grown                                    THEN "Internal"
            ELSE IF a.written > max_batch_bytes         THEN "BatchTooLarge"
            ELSE IF a.written > HostMax                 THEN "Internal"
            ELSE IF a.written <= buf_len                THEN "Internal"
            ELSE None
      [] OTHER -> from_native_code(a.code)

\* A batch is taken: back to the top of the loop in Core::next.
TakeBatch(a) ==
    /\ pc = "native"
    /\ a.code = "OK"
    /\ PullError(a) = None
    /\ buf' = a.bytes
    /\ empty_batches_in_a_row' = EmptyBatches(a)
    /\ batch_len' = a.written
    /\ cursor' = BATCH_HEADER_LEN
    /\ native_done' = a.done
    /\ batches_pulled' = Count(batches_pulled)
    /\ pc' = "loop"
    /\ UNCHANGED <<buf_len, finished, failed, records_seen, warnings_seen,
                   landmarks, grown, answer, calls>>

\* The buffer grows to the size that was named, and the call is made again.
GrowBuffer(a) ==
    /\ pc = "native"
    /\ a.code = "BUFFER_TOO_SMALL"
    /\ PullError(a) = None
    /\ buf' = a.bytes
    /\ buf_len' = a.written
    /\ grown' = TRUE
    /\ CallLibrary
    /\ UNCHANGED <<batch_len, cursor, flags, counters, landmarks, answer>>

\* Every other answer ends the stream.
RefusePull(a) ==
    /\ pc = "native"
    /\ PullError(a) # None
    /\ buf' = a.bytes
    /\ empty_batches_in_a_row' = IF a.code = "OK" /\ SizeInBuffer(a)
                                 THEN EmptyBatches(a) ELSE empty_batches_in_a_row
    /\ stop(TRUE)
    /\ Return(Err(PullError(a)))
    /\ UNCHANGED <<buf_len, batch_len, cursor, native_done, counters, landmarks>>

Receive(a) == TakeBatch(a) \/ GrowBuffer(a) \/ RefusePull(a)

-----------------------------------------------------------------------------

\* The steps of the thread that called next().
NextItem == AfterTheEnd \/ YieldRecord \/ RefuseRecord \/ EndStream \/ Pull

\* Slip: seeing the last record is taken for having seen them all.
is_complete_AtTheEnd == document_end # None /\ ~failed

\* PrimitiveStream::is_complete
is_complete == document_end # None /\ ~failed /\ document_end = records_seen

-----------------------------------------------------------------------------
(* Properties *)

TypeOK ==
    /\ buf_len \in BATCH_HEADER_LEN .. max_batch_bytes
    /\ IsBytes(buf)
    /\ batch_len \in 0 .. buf_len
    /\ cursor \in Nat
    /\ native_done \in BOOLEAN
    /\ empty_batches_in_a_row \in 0 .. (MaxEmptyBatches + 1)
    /\ finished \in BOOLEAN /\ failed \in BOOLEAN
    /\ records_seen \in Nat /\ warnings_seen \in Nat /\ batches_pulled \in Nat
    /\ document_begin \in BOOLEAN /\ view_end \in BOOLEAN
    /\ document_end \in Nat \cup {None}
    /\ grown \in BOOLEAN
    /\ pc \in {"idle", "loop", "native"}
    /\ calls \in Nat
    /\ answer.tag \in {"not yet", "item", "error", "none"}

\* The invariant the safety properties rest on: where the loops stand while a
\* call of next() is under way.
InLibrary ==
    pc = "native" => ~finished /\ ~native_done /\ cursor >= batch_len
Placed ==
    ~finished /\ cursor < batch_len /\ ReaderRefusal(batch_len, buf) = None
        => ResumeRefusal(buf, cursor) = None
CallsSoFar ==
    /\ ~finished => empty_batches_in_a_row <= MaxEmptyBatches /\ ~failed
    /\ pc = "loop" /\ ~finished /\ ~native_done /\ cursor >= batch_len
          => calls <= 2 * empty_batches_in_a_row
    /\ pc = "native"
          => calls <= 2 * empty_batches_in_a_row + (IF grown THEN 2 ELSE 1)
    /\ calls <= 2 * (MaxEmptyBatches + 1)

StreamInv == TypeOK /\ InLibrary /\ Placed /\ CallsSoFar

\* However the library answers, one call of next() asks it for at most two
\* batches (one refusal for room, one retry) per payload-free batch it may
\* send in a row, and one more: the loop in Core::next cannot be kept turning
\* by padding, nor the one in Core::pull by asking for room.
CallsAreBounded == calls <= 2 * (MaxEmptyBatches + 1)

\* The place Core::step resumes at in an unfinished batch that parses is one
\* BatchReader::records_from accepts: "this crate lost track of where it was
\* inside a batch" (stream.rs:351) is never said, whatever the library writes.
NeverLosesTrack ==
    InBatch /\ ReaderRefusal(batch_len, buf) = None
        => ResumeRefusal(buf, cursor) = None

\* The walk of a record is never refused with BatchError::Internal, "I got
\* confused reading the batch", since a resumed walk counts a budget of its own.
NoInternalRecordRefusal ==
    InBatch /\ ReaderRefusal(batch_len, buf) = None
            /\ ResumeRefusal(buf, cursor) = None /\ ~IsOver(buf, Resumed)
        => next(buf, Resumed).refused # "Internal"

\* The two errors with which Core::step blames this crate are never answered,
\* however malformed the batches and whatever was kept from the one before.  The
\* third Error::Internal of Core::step is: a batch with bytes behind its payload
\* ends in "a batch with bytes left in it produced no record" (IsOver in
\* StepError, stream.rs:354-358), and there it is the library that is at fault.
NeverLostNorConfused == NeverLosesTrack /\ NoInternalRecordRefusal

\* The buffer never shrinks, never passes the ceiling the caller set, and
\* grows at most once in one pull, by which the batch still owed must fit.
GrowsOncePerBatch ==
    [][ buf_len' # buf_len
        => /\ buf_len < buf_len' /\ buf_len' <= max_batch_bytes
           /\ ~grown /\ grown'
           /\ batches_pulled' = batches_pulled ]_streamVars

\* PrimitiveStream is a fused iterator of fallible items: each call is
\* answered, at most one error comes out, and None follows it for good.
Life == IF ~finished THEN "open" ELSE IF failed THEN "failed" ELSE "ended"

Fused == INSTANCE FusedIterator WITH asked <- pc # "idle",
                                     life  <- Life,
                                     last  <- answer.tag

ImplementsFusedIterator == Fused!Spec

-----------------------------------------------------------------------------
(* What the documentation says of the stream, and the code does not do *)

\* The doc of PrimitiveStream::document_end: "None after a refusal".
NoTotalsAfterRefusal == failed => document_end = None

\* The header on VIPRS_ACAD_WIRE_VERSION: it is carried in every batch header
\* so that a consumer can refuse a stream it cannot parse.  A stream that
\* ended in order ended in a batch of the wire version this crate parses.
ForeignWireIsRefused == finished /\ ~failed => buf.wire = WIRE_VERSION
=============================================================================
