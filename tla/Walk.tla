-------------------------------- MODULE Walk --------------------------------
(***************************************************************************)
(* A caller of the pure half of the crate walking one batch: it opens a    *)
(* BatchReader on the bytes, asks a Records for one record after another,  *)
(* keeps offsets Records::offset hands out, and resumes at them later, or  *)
(* at an offset of its own (src/src/batch.rs).                             *)
(***************************************************************************)
EXTENDS Batch

CONSTANTS Contents,         \* the batches the caller may be given
          Sizes,            \* how many bytes the slice it is given may hold
          Offsets           \* the offsets it may make up

ASSUME ContentsAssumption == \A b \in Contents : IsBytes(b)
ASSUME OffsetsAssumption  == Sizes \subseteq Nat /\ Offsets \subseteq Nat

VARIABLES
    bytes, size,    \* the slice: what it holds and how long it is
    reader,         \* "none", "ok", or the rule BatchReader::new refused by
    iter,           \* the Records, or None before the first
    handed,         \* the offsets handed out by a walk that began at the first
                    \* record or at an offset handed out before
    honest,         \* whether iter is such a walk
    answer          \* the last answer of Records::next: at which offset, what
                    \* it was refused by, and whether it was the None of the end

vars == <<bytes, size, reader, iter, handed, honest, answer>>

NoAnswer == [at |-> 0, over |-> FALSE, refused |-> None]

Init ==
    /\ bytes \in Contents
    /\ size \in Sizes
    /\ reader = "none"
    /\ iter = None
    /\ handed = {}
    /\ honest = FALSE
    /\ answer = NoAnswer

Open ==
    /\ reader = "none"
    /\ reader' = IF ReaderRefusal(size, bytes) = None
                 THEN "ok" ELSE ReaderRefusal(size, bytes)
    /\ UNCHANGED <<bytes, size, iter, handed, honest, answer>>

\* BatchReader::records
Start ==
    /\ reader = "ok"
    /\ iter' = records(bytes)
    /\ honest' = TRUE
    /\ answer' = NoAnswer
    /\ UNCHANGED <<bytes, size, reader, handed>>

\* Records::offset, kept by the caller
Keep ==
    /\ iter # None
    /\ honest
    /\ handed' = handed \cup {Offset(iter)}
    /\ UNCHANGED <<bytes, size, reader, iter, honest, answer>>

\* BatchReader::records_from at an offset it accepts; a refusal is an error
\* value and changes nothing
Resume(offset) ==
    /\ reader = "ok"
    /\ ResumeRefusal(bytes, offset) = None
    /\ iter' = records_from(bytes, offset)
    /\ honest' = (offset \in handed)
    /\ answer' = NoAnswer
    /\ UNCHANGED <<bytes, size, reader, handed>>

\* Records::next at the end of the payload, or after a refusal
NextOver ==
    /\ iter # None
    /\ IsOver(bytes, iter)
    /\ iter' = Stopped(iter)
    /\ answer' = [at |-> Offset(iter), over |-> TRUE, refused |-> None]
    /\ UNCHANGED <<bytes, size, reader, handed, honest>>

\* Records::next in the middle of the payload
NextRecord ==
    /\ iter # None
    /\ ~IsOver(bytes, iter)
    /\ iter' = next(bytes, iter).r
    /\ answer' = [at |-> Offset(iter), over |-> FALSE,
                  refused |-> next(bytes, iter).refused]
    /\ UNCHANGED <<bytes, size, reader, handed, honest>>

Next ==
    \/ Open
    \/ Start
    \/ Keep
    \/ \E offset \in Offsets \cup handed : Resume(offset)
    \/ NextOver
    \/ NextRecord

Spec == Init /\ [][Next]_vars

-----------------------------------------------------------------------------

TypeOK ==
    /\ IsBytes(bytes)
    /\ size \in Nat
    /\ iter \in [pos : 0 .. bytes.plen, budget : Nat, stopped : BOOLEAN] \cup {None}
    /\ handed \subseteq Nat
    /\ honest \in BOOLEAN
    /\ answer.at \in Nat

\* A walk that has not stopped never spends its budget before the payload, so
\* the iteration bound of Records::step is the backstop its comment calls it
\* and no batch, well formed or not, resumed anywhere, is answered with the
\* error that says the crate has a bug.
NeverInternal == answer.refused # "Internal"

\* An offset Records::offset hands out, after any number of records and after
\* a refusal, is one BatchReader::records_from accepts, which is what
\* Core::step relies on when it takes a refusal there for a bug of the crate.
OffsetsAreAccepted == iter # None => ResumeRefusal(bytes, Offset(iter)) = None

\* The invariant these rest on: the budget left covers every record that may
\* still come, and a walk that answered a refusal or its end has stopped.
BudgetCovers ==
    iter # None /\ ~iter.stopped
        => bytes.plen - iter.pos < RECORD_HEADER_LEN * iter.budget
AnswersStop ==
    iter # None /\ (answer.refused # None \/ answer.over) => iter.stopped

WalkInv == TypeOK /\ OffsetsAreAccepted /\ BudgetCovers /\ AnswersStop /\ NeverInternal

\* Where the records of a batch start and end, from the framing alone: the
\* least set that holds the beginning of the payload and, with the start of a
\* soundly framed record, its end.
Words(b) == {p \in 0 .. b.plen : p % 4 = 0}
Soundly(b, p) == p \in HeaderOffsets(b.plen) /\ FramingRefusal(b.plen - p, b.at[p]) = None
Closed(b, S) == 0 \in S /\ \A p \in S : Soundly(b, p) => p + b.at[p].length \in S
Boundaries(b) == {p \in Words(b) : \A S \in SUBSET Words(b) : Closed(b, S) => p \in S}

\* A walk resumed at an offset an earlier walk handed out is always at a
\* record boundary of the batch: it reads the records the producer wrote,
\* however often the caller stopped, kept an offset and came back.
ResumedWalksStayOnRecords ==
    /\ honest /\ iter # None => iter.pos \in Boundaries(bytes)
    /\ \A offset \in handed : offset - BATCH_HEADER_LEN \in Boundaries(bytes)

\* Records is fused: once it has answered a refusal or None it stands where it
\* stood and answers None, whatever bytes follow.
Fused ==
    [][ (answer.refused # None \/ answer.over) /\ (NextOver \/ NextRecord)
        => answer'.over /\ iter' = iter ]_vars
=============================================================================
