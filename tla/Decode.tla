------------------------------- MODULE Decode -------------------------------
(***************************************************************************)
(* A decode from end to end: the stream of Stream, a library that keeps    *)
(* the contract native/viprs_acadsharp.h states for                        *)
(* viprs_acad_decode_next_batch, the caller that drains the stream, and    *)
(* another thread that holds a clone of the CancelToken                    *)
(* (src/src/cancel.rs).                                                    *)
(*                                                                         *)
(* The library decodes a script: the records of one view and how their     *)
(* production ends, in order or in a code.  How many records go into a     *)
(* batch is its own choice; the one it has chosen is not reconsidered when *)
(* the buffer turns out too small.                                         *)
(***************************************************************************)
EXTENDS Stream, Sequences

CONSTANTS
    Scripts,        \* the decodes: [records, ends, lossy], ends a code or
                    \* "OK", lossy if records may be lost and nothing said
    PadMax          \* payload-free batches in a row the library may send

\* What the stream is told apart by in a record of a script.
Record == {r \in [length : Nat, kind : Kinds, total : Nat] :
              r.length >= RECORD_HEADER_LEN /\ r.length % 4 = 0}

\* The contract on a script: BUFFER_TOO_SMALL is not how a production ends, and
\* a DocumentEnd tells how many records its view has.
ASSUME ScriptsAssumption ==
    /\ PadMax \in 0 .. MaxEmptyBatches
    /\ \A s \in Scripts :
          /\ s.records \in Seq(Record) /\ Len(s.records) < CounterLimit
          /\ s.lossy \in BOOLEAN
          /\ s.ends # "BUFFER_TOO_SMALL"
          /\ \A i \in DOMAIN s.records :
                s.records[i].kind = "DocumentEnd" => s.records[i].total = Len(s.records)

ASSUME NoneIsNoValue == None \notin Nat \cup BOOLEAN

VARIABLES
    script,
    sent,           \* how many of the script's records are behind the library
    staged,         \* the size of the batch it has committed to, or None
    pads,           \* payload-free batches it sent in a row
    over,           \* it reported done, or refused for a reason of its own
    flag,           \* the AtomicU32 of the CancelToken
    looked,         \* in a call: what the library found in flag, None before
    handed,         \* history: the records written into accepted batches
    delivered,      \* history: the records next() answered
    noticeBy        \* history: None, or the number of batches that may have
                    \* been pulled when the cancellation is noticed

libraryVars == <<script, sent, staged, pads, over, looked, handed>>
threadVars  == <<flag, noticeBy>>
vars == <<streamVars, libraryVars, threadVars, delivered>>

DecodeInit ==
    /\ Init
    /\ script \in Scripts
    /\ sent = 0
    /\ staged = None
    /\ pads = 0
    /\ over = FALSE
    /\ flag = FALSE
    /\ looked = None
    /\ handed = << >>
    /\ delivered = << >>
    /\ noticeBy = None

-----------------------------------------------------------------------------
(* The bytes of a batch *)

Ends(rs) ==
    LET end[i \in 0 .. Len(rs)] == IF i = 0 THEN 0 ELSE end[i - 1] + rs[i].length
    IN  end

HeaderOf(r) == [reserved |-> 0, length |-> r.length,
                body |-> [refused |-> None, kind |-> r.kind, total |-> r.total]]
Inside      == [reserved |-> 1, length |-> 0,
                body |-> [refused |-> None, kind |-> "Other", total |-> 0]]

Frame(rs) ==
    LET end  == Ends(rs)
        plen == end[Len(rs)]
    IN  [magic |-> TRUE, wire |-> WIRE_VERSION, plen |-> plen,
         at |-> [p \in HeaderOffsets(plen) |->
                    IF \E i \in DOMAIN rs : end[i - 1] = p
                    THEN HeaderOf(rs[CHOOSE i \in DOMAIN rs : end[i - 1] = p])
                    ELSE Inside]]

FrameSize(rs) == BATCH_HEADER_LEN + Ends(rs)[Len(rs)]

-----------------------------------------------------------------------------
(* The library *)

Remaining == Len(script.records) - sent

\* The n records behind the first skipped ones.
Run(skipped, n) == SubSeq(script.records, sent + skipped + 1, sent + skipped + n)

\* It looks at the flag as a call begins.
LookAtFlag ==
    /\ pc = "native"
    /\ looked = None
    /\ looked' = flag
    /\ UNCHANGED <<streamVars, script, sent, staged, pads, over, handed,
                   threadVars, delivered>>

Answering == pc = "native" /\ looked # None /\ looked' = None

Refusal(code) == [code |-> code, written |-> 0, done |-> FALSE, bytes |-> buf]

\* A refusal of the decode's own: the flag was set, or production failed.  A
\* library that has committed to a batch may hand it out all the same.
Refuse ==
    /\ Answering
    /\ \/ looked /\ Receive(Refusal("CANCELED"))
       \/ ~looked /\ staged = None /\ script.ends # "OK" /\ Receive(Refusal(script.ends))
    /\ over' = TRUE
    /\ UNCHANGED <<script, sent, staged, pads, handed, threadVars, delivered>>

\* Free to go on: the flag was clear, or the batch was already framed.
GoesOn == Answering /\ (looked => staged # None)

\* The batch does not fit: nothing is written and nothing is consumed.
AskForRoom ==
    /\ GoesOn
    /\ \E n \in 1 .. Remaining :
          /\ staged \in {None, n}
          /\ FrameSize(Run(0, n)) > buf_len
          /\ Receive([code |-> "BUFFER_TOO_SMALL", written |-> FrameSize(Run(0, n)),
                      done |-> FALSE, bytes |-> buf])
          /\ staged' = n
    /\ UNCHANGED <<script, sent, pads, over, handed, threadVars, delivered>>

\* A batch is written.  It may carry nothing, and the one that is the last may
\* say so itself or leave it to a payload-free one behind it.
WriteBatch ==
    /\ GoesOn
    /\ \E n \in 0 .. Remaining, skipped \in 0 .. Remaining, done \in BOOLEAN :
          /\ skipped > 0 => script.lossy /\ staged = None
          /\ skipped + n <= Remaining
          /\ staged \in {None, n}
          /\ FrameSize(Run(skipped, n)) <= buf_len
          /\ done => script.ends = "OK" /\ skipped + n = Remaining
          /\ n = 0 /\ ~done => pads < PadMax
          /\ Receive([code |-> "OK", written |-> FrameSize(Run(skipped, n)),
                      done |-> done, bytes |-> Frame(Run(skipped, n))])
          /\ sent' = sent + skipped + n
          /\ pads' = IF n = 0 /\ ~done THEN pads + 1 ELSE 0
          /\ over' = done
          /\ handed' = handed \o Run(skipped, n)
    /\ staged' = None
    /\ UNCHANGED <<script, threadVars, delivered>>

Library == LookAtFlag \/ Refuse \/ AskForRoom \/ WriteBatch

-----------------------------------------------------------------------------
(* The two threads *)

\* Slip: the flag is never stored.
Cancel_Unstored ==
    /\ ~flag
    /\ noticeBy' = IF finished THEN None
                   ELSE IF pc = "native" THEN batches_pulled + 1 ELSE batches_pulled
    /\ UNCHANGED <<flag, streamVars, libraryVars, delivered>>

\* CancelToken::cancel, at any moment.  A call of the library that is under
\* way may have looked already, and still bring one batch.
Cancel ==
    /\ ~flag
    /\ flag' = TRUE
    /\ noticeBy' = IF finished THEN None
                   ELSE IF pc = "native" THEN batches_pulled + 1 ELSE batches_pulled
    /\ UNCHANGED <<streamVars, libraryVars, delivered>>

Ask == Call /\ UNCHANGED <<libraryVars, threadVars, delivered>>

\* A turn of the loop in Core::next.
Turn ==
    /\ NextItem
    /\ delivered' = IF pc' = "idle" /\ answer'.tag = "item"
                    THEN Append(delivered, answer') ELSE delivered
    /\ UNCHANGED <<libraryVars, threadVars>>

DecodeNext == Ask \/ Turn \/ Library \/ Cancel

\* The caller drains the stream as the example on PrimitiveStream does, and
\* the library answers.  Nobody has to cancel.
DecodeSpec ==
    /\ DecodeInit
    /\ [][DecodeNext]_vars
    /\ WF_vars(Ask /\ ~finished)
    /\ WF_vars(Turn)
    /\ WF_vars(Library)

-----------------------------------------------------------------------------
(* Properties *)

Given(rs) == [i \in DOMAIN rs |-> Item(rs[i])]

\* "The only completeness proof there is": when is_complete() says so, the
\* caller has been given every record of the view, in order, even by a library
\* that loses records without a word.
CompleteIsWhole == is_complete => delivered = Given(script.records)

\* Whatever ends a stream, every record of every batch that was pulled has come
\* out before it: neither the last batch nor a refusal behind it cuts off what
\* the buffer still holds.
EverythingPulledComesOut == finished => delivered = Given(handed)

\* A library that keeps the contract is never blamed: the only errors are its
\* own, a cancellation somebody asked for, and a batch that is really larger
\* than the ceiling.
NoFalseAlarm ==
    answer.tag = "error" =>
        \/ answer.error = "CANCELED" /\ flag
        \/ answer.error = from_native_code(script.ends)
        \/ /\ answer.error = "BatchTooLarge"
           /\ staged # None /\ FrameSize(Run(0, staged)) > max_batch_bytes

\* docs/THREADING.md, "Cancellation is observed between batches": a flag that
\* is visible when batches_pulled reads k lets no further batch through, and
\* one that is set during a call of the library at most the batch of that call.
CancelIsNoticed == noticeBy # None => batches_pulled <= noticeBy

\* A library that has reported done or refused for a reason of its own is not
\* called again, so the stream leans neither on the latch of the contract nor
\* on the empty batch a call after done would bring.
NeverAsksAgain == over => pc # "native"

\* A decode delivers the records of the view in order, and answers None without
\* an error only behind the last of them.  Nothing of the kind can be promised
\* of a library that loses records, whose decode delivers nothing and is cut.
DecodedView(v) == \E s \in Scripts : v = Given(s.records)

Promise == INSTANCE Delivery WITH View  <- DecodedView,
                                  view  <- Given(script.records),
                                  out   <- IF script.lossy THEN << >> ELSE delivered,
                                  state <- IF Life = "open" THEN "open"
                                           ELSE IF Life = "failed" \/ script.lossy THEN "cut"
                                           ELSE "whole"

ImplementsDelivery == Promise!Spec
=============================================================================
