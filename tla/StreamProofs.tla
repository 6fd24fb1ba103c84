---------------------------- MODULE StreamProofs ----------------------------
(***************************************************************************)
(* The theorems of the stream: what each of its steps preserves, what      *)
(* holds of it whatever the library answers (AnyLibrary: for any sizes,    *)
(* any bound on payload-free batches, and any set of answers, however      *)
(* large, however malformed the batches in it), and what a decode is by a  *)
(* library that keeps its contract (Decode: whatever the view, its records *)
(* and how the library cuts them into batches).                            *)
(***************************************************************************)
EXTENDS AnyLibrary, Decode, SequenceTheorems, WellFoundedInduction, TLAPS

-----------------------------------------------------------------------------
(* What every step of the stream preserves, whatever the library answers *)

\* The starting size and the ceiling Core::new settles on: a batch header fits
\* both, and the ceiling wins.
LEMMA InitialSize ==
    /\ max_batch_bytes \in Nat /\ max_batch_bytes >= BATCH_HEADER_LEN
    /\ max_batch_bytes <= HostMax
    /\ initial \in BATCH_HEADER_LEN .. max_batch_bytes
BY SizesAssumption DEF max_batch_bytes, initial, Maximum, Clamp, BATCH_HEADER_LEN

\* A counter that is incremented is a natural number.
LEMMA CountIsNat == \A n \in Nat : Count(n) \in Nat
BY CountersAssumption DEF Count

\* Core::new leaves a stream in which nothing is owed and nothing is read.
LEMMA InitEstablishes == Init => StreamInv
<1> SUFFICES ASSUME Init PROVE StreamInv
    OBVIOUS
<1> USE DEF Init, CoreInit
<1>1. TypeOK
  <2>1. IsBytes(buf)
    BY DEF ZeroBytes, IsBytes, HeaderOffsets, RECORD_HEADER_LEN
  <2>2. initial \in BATCH_HEADER_LEN .. max_batch_bytes
    BY InitialSize
  <2>3. buf_len \in BATCH_HEADER_LEN .. max_batch_bytes /\ batch_len \in 0 .. buf_len
    BY <2>2 DEF BATCH_HEADER_LEN
  <2>4. answer.tag \in {"not yet", "item", "error", "none"}
    BY DEF NotYet
  <2>5. empty_batches_in_a_row \in 0 .. (MaxEmptyBatches + 1)
    BY CountersAssumption
  <2> QED
    BY <2>1, <2>3, <2>4, <2>5 DEF TypeOK
<1>2. InLibrary
  BY DEF InLibrary
<1>3. Placed
  BY DEF Placed
<1>4. CallsSoFar
  BY CountersAssumption DEF CallsSoFar
<1> QED
  BY <1>1, <1>2, <1>3, <1>4 DEF StreamInv

-----------------------------------------------------------------------------
(* One step of a resumed walk *)

\* A step that answers a record in a batch that parses leaves the walk inside
\* the payload, behind a whole number of words, and at a later place.
LEMMA StepMovesOn ==
    ASSUME NEW b, IsBytes(b),
           NEW offset \in Nat, ResumeRefusal(b, offset) = None,
           ~IsOver(b, records_from(b, offset)),
           next(b, records_from(b, offset)).refused = None
    PROVE  LET a == next(b, records_from(b, offset))
           IN  /\ Offset(a.r) \in Nat
               /\ Offset(a.r) >= offset + RECORD_HEADER_LEN
               /\ ResumeRefusal(b, Offset(a.r)) = None
               /\ a.kind \in Kinds
               /\ a.total \in Nat
<1> DEFINE pos == offset - BATCH_HEADER_LEN
           h   == b.at[pos]
<1>1. /\ pos \in Nat /\ pos < b.plen /\ pos % 4 = 0 /\ b.plen \in Nat
  BY NoneAssumption DEF FrameRefusals, ResumeRefusal, IsOver, records_from, walk_from, total_len,
     BATCH_HEADER_LEN, IsBytes
<1>2. /\ b.plen - pos >= RECORD_HEADER_LEN
      /\ FramingRefusal(b.plen - pos, h) = None
      /\ next(b, records_from(b, offset)).r.pos = pos + h.length
      /\ next(b, records_from(b, offset)).kind = h.body.kind
      /\ next(b, records_from(b, offset)).total = h.body.total
  BY <1>1, NoneAssumption DEF FrameRefusals, next, step, records_from, walk_from, Answered, Refused,
     RECORD_HEADER_LEN, FramingRefusal
<1>3. pos \in HeaderOffsets(b.plen)
  BY <1>1, <1>2 DEF HeaderOffsets, RECORD_HEADER_LEN
<1>4. /\ h.length \in Nat /\ h.body.kind \in Kinds /\ h.body.total \in Nat
  BY <1>3 DEF IsBytes
<1>5. /\ h.length >= RECORD_HEADER_LEN /\ h.length % 4 = 0 /\ h.length <= b.plen - pos
  BY <1>2, <1>4, <1>1, NoneAssumption DEF FrameRefusals, FramingRefusal, RECORD_HEADER_LEN
<1>6. (pos + h.length) % 4 = 0
  BY <1>1, <1>4, <1>5
<1> QED
  BY <1>1, <1>2, <1>4, <1>5, <1>6
     DEF Offset, ResumeRefusal, total_len, BATCH_HEADER_LEN, RECORD_HEADER_LEN

-----------------------------------------------------------------------------
(* The steps of the stream *)

\* The numbers of a state, apart from its Booleans.
LEMMA Numbers ==
    StreamInv =>
        /\ buf_len \in BATCH_HEADER_LEN .. max_batch_bytes
        /\ batch_len \in 0 .. buf_len
        /\ cursor \in Nat
        /\ empty_batches_in_a_row \in 0 .. (MaxEmptyBatches + 1)
        /\ records_seen \in Nat /\ warnings_seen \in Nat /\ batches_pulled \in Nat
        /\ calls \in Nat
        /\ calls <= 2 * (MaxEmptyBatches + 1)
        /\ ~finished => empty_batches_in_a_row <= MaxEmptyBatches
BY DEF StreamInv, TypeOK, CallsSoFar

\* next() is called: the calls of the library are counted from nothing.
LEMMA CallPreserves == StreamInv /\ Call => StreamInv'
<1> SUFFICES ASSUME StreamInv, Call PROVE StreamInv'
    OBVIOUS
<1>1. /\ pc = "idle" /\ pc' = "loop" /\ calls' = 0
      /\ UNCHANGED <<buf_len, buf, batch_len, cursor, native_done,
                     empty_batches_in_a_row, finished, failed, grown, answer>>
      /\ UNCHANGED <<counters, landmarks>>
  BY DEF Call, core, buffer, flags
<1>2. TypeOK'
  BY <1>1 DEF StreamInv, TypeOK, counters, landmarks
<1>3. InLibrary' /\ Placed'
  BY <1>1 DEF StreamInv, InLibrary, Placed
<1>4. calls' <= 2 * empty_batches_in_a_row /\ calls' <= 2 * (MaxEmptyBatches + 1)
  BY <1>1, Numbers, CountersAssumption
<1>5. CallsSoFar'
  BY <1>1, <1>4 DEF StreamInv, CallsSoFar
<1> QED
  BY <1>2, <1>3, <1>5 DEF StreamInv

\* A return from next() that changes neither the buffer nor a number: the call
\* bound and the place of the cursor are those of the state before.
LEMMA ReturnPreserves ==
    ASSUME StreamInv, pc' = "idle", NEW tag \in {"item", "error", "none"},
           answer'.tag = tag,
           UNCHANGED <<buf_len, buf, batch_len, cursor, native_done,
                       empty_batches_in_a_row, counters, landmarks, grown, calls>>,
           finished' \in BOOLEAN, failed' \in BOOLEAN,
           finished => finished', ~finished' => ~failed'
    PROVE  StreamInv'
<1>1. TypeOK'
  BY DEF StreamInv, TypeOK, counters, landmarks
<1>2. InLibrary' /\ Placed'
  BY DEF StreamInv, InLibrary, Placed
<1>3. CallsSoFar'
  BY DEF StreamInv, CallsSoFar
<1> QED
  BY <1>1, <1>2, <1>3 DEF StreamInv

LEMMA EndPreserves == StreamInv /\ (AfterTheEnd \/ EndStream) => StreamInv'
<1> SUFFICES ASSUME StreamInv, AfterTheEnd \/ EndStream PROVE StreamInv'
    OBVIOUS
<1>1. finished \in BOOLEAN /\ failed \in BOOLEAN /\ (~finished => ~failed)
  BY DEF StreamInv, TypeOK, CallsSoFar
<1>2. answer'.tag = "none" /\ pc' = "idle" /\ UNCHANGED <<grown, calls>>
  <2>1. Return(End)
    BY DEF AfterTheEnd, EndStream
  <2> QED
    BY <2>1 DEF Return, End
<1>3. UNCHANGED <<buf_len, buf, batch_len, cursor, native_done,
                  empty_batches_in_a_row, counters, landmarks>>
  BY DEF AfterTheEnd, EndStream, core, buffer, flags
<1>4. /\ finished' \in BOOLEAN /\ failed' \in BOOLEAN
      /\ finished => finished'
      /\ ~finished' => ~failed'
  BY <1>1 DEF AfterTheEnd, EndStream, core, flags, stop
<1> QED
  BY <1>2, <1>3, <1>4, ReturnPreserves

LEMMA RefuseRecordPreserves == StreamInv /\ RefuseRecord => StreamInv'
<1> SUFFICES ASSUME StreamInv, RefuseRecord PROVE StreamInv'
    OBVIOUS
<1>1. answer'.tag = "error" /\ pc' = "idle" /\ UNCHANGED <<grown, calls>>
  BY DEF RefuseRecord, Return, Err
<1>2. UNCHANGED <<buf_len, buf, batch_len, cursor, native_done,
                  empty_batches_in_a_row, counters, landmarks>>
  BY DEF RefuseRecord, buffer
<1>3. finished' = TRUE /\ failed' \in BOOLEAN
  BY DEF RefuseRecord, stop
<1> QED
  BY <1>1, <1>2, <1>3, ReturnPreserves

\* The cursor a record leaves is inside the batch, so the next one is resumed
\* at a place records_from accepts.
LEMMA YieldRecordPreserves == StreamInv /\ YieldRecord => StreamInv'
<1> SUFFICES ASSUME StreamInv, YieldRecord PROVE StreamInv'
    OBVIOUS
<1> DEFINE a == next(buf, Resumed)
<1>1. /\ IsBytes(buf) /\ cursor \in Nat
      /\ ResumeRefusal(buf, cursor) = None
      /\ ~IsOver(buf, records_from(buf, cursor))
      /\ next(buf, records_from(buf, cursor)).refused = None
  BY ErrorsAssumption DEF StreamInv, YieldRecord, StepError, Resumed, TypeOK
<1>2. /\ Offset(a.r) \in Nat
      /\ ResumeRefusal(buf, Offset(a.r)) = None
      /\ a.kind \in Kinds
      /\ a.total \in Nat
  BY <1>1, StepMovesOn DEF Resumed
<1>3. /\ cursor' = Offset(a.r)
      /\ records_seen' = Count(records_seen)
      /\ warnings_seen' \in {warnings_seen, Count(warnings_seen)}
      /\ document_begin' \in BOOLEAN
      /\ view_end' \in BOOLEAN
      /\ document_end' \in {document_end, a.total}
      /\ UNCHANGED <<grown, calls>>
      /\ pc' = "idle"
      /\ answer' = Item(a)
  BY DEF YieldRecord, Return
<1>4. UNCHANGED <<buf_len, buf, batch_len, flags, batches_pulled>>
  BY DEF YieldRecord
<1>5. records_seen' \in Nat /\ warnings_seen' \in Nat
  BY <1>3, Numbers, CountIsNat
<1>6. TypeOK'
  BY <1>2, <1>3, <1>4, <1>5 DEF StreamInv, TypeOK, flags, Item
<1>7. InLibrary' /\ Placed'
  BY <1>2, <1>3, <1>4 DEF InLibrary, Placed
<1>8. CallsSoFar'
  BY <1>3, <1>4 DEF StreamInv, CallsSoFar, flags
<1> QED
  BY <1>6, <1>7, <1>8 DEF StreamInv

LEMMA PullPreserves == StreamInv /\ Pull => StreamInv'
<1> SUFFICES ASSUME StreamInv, Pull PROVE StreamInv'
    OBVIOUS
<1>1. /\ pc = "loop" /\ ~finished /\ cursor >= batch_len /\ ~native_done
      /\ pc' = "native" /\ grown' = FALSE /\ calls' = calls + 1
      /\ UNCHANGED <<buf_len, buf, batch_len, cursor, native_done,
                     empty_batches_in_a_row, finished, failed, answer>>
      /\ UNCHANGED <<counters, landmarks>>
  BY DEF Pull, Drained, CallLibrary, core, buffer, flags
<1>2. calls' \in Nat
  BY <1>1, Numbers
<1>3. TypeOK'
  BY <1>1, <1>2 DEF StreamInv, TypeOK, counters, landmarks
<1>4. InLibrary' /\ Placed'
  BY <1>1 DEF StreamInv, InLibrary, Placed
<1>5. calls <= 2 * empty_batches_in_a_row /\ empty_batches_in_a_row <= MaxEmptyBatches
  BY <1>1 DEF StreamInv, CallsSoFar
<1>6. /\ calls' <= 2 * empty_batches_in_a_row + 1
      /\ calls' <= 2 * (MaxEmptyBatches + 1)
  BY <1>1, <1>5, Numbers, CountersAssumption
<1>7. CallsSoFar'
  BY <1>1, <1>6 DEF StreamInv, CallsSoFar
<1> QED
  BY <1>3, <1>4, <1>7 DEF StreamInv

-----------------------------------------------------------------------------
(* The answers of the library *)

\* In the library, the calls so far are two for each payload-free batch in a
\* row, and the ones of this pull.
LEMMA InPull ==
    StreamInv /\ pc = "native" =>
        /\ ~finished /\ ~failed /\ ~native_done /\ cursor >= batch_len
        /\ empty_batches_in_a_row <= MaxEmptyBatches
        /\ ~grown => calls <= 2 * empty_batches_in_a_row + 1
        /\ grown => calls <= 2 * empty_batches_in_a_row + 2
BY DEF StreamInv, InLibrary, CallsSoFar

\* A batch is taken.  The cursor stands at its first record, and the calls made
\* for it are paid for by one more payload-free batch, by its payload, or by
\* its being the last.
LEMMA TakeBatchPreserves ==
    ASSUME StreamInv, NEW a, IsAnswer(a), TakeBatch(a)
    PROVE  StreamInv'
<1>0. EmptyBatches(a) \in Nat
  BY Numbers, CountersAssumption DEF EmptyBatches
<1>1. /\ BATCH_HEADER_LEN <= a.written /\ a.written <= buf_len
      /\ EmptyBatches(a) <= MaxEmptyBatches
  <2>1. SizeInBuffer(a) /\ ~(EmptyBatches(a) > MaxEmptyBatches)
    BY ErrorsAssumption DEF TakeBatch, PullError
  <2> QED
    BY <2>1, <1>0, CountersAssumption DEF SizeInBuffer
<1>2. /\ pc' = "loop" /\ buf' = a.bytes /\ batch_len' = a.written
      /\ cursor' = BATCH_HEADER_LEN /\ native_done' = a.done
      /\ empty_batches_in_a_row' = EmptyBatches(a)
      /\ batches_pulled' = Count(batches_pulled)
      /\ UNCHANGED <<buf_len, finished, failed, records_seen, warnings_seen,
                     landmarks, grown, answer, calls>>
  BY DEF TakeBatch
<1>3. /\ a.written \in Nat /\ a.done \in BOOLEAN /\ IsBytes(a.bytes)
      /\ a.bytes.plen \in Nat
  BY DEF IsAnswer, IsBytes
<1>4. EmptyBatches(a) \in 0 .. (MaxEmptyBatches + 1)
  BY <1>1, Numbers, CountersAssumption DEF EmptyBatches
<1>5. batch_len' \in 0 .. buf_len /\ cursor' \in Nat /\ batches_pulled' \in Nat
  BY <1>1, <1>2, <1>3, Numbers, CountIsNat DEF BATCH_HEADER_LEN
<1>6. TypeOK'
  BY <1>2, <1>3, <1>4, <1>5 DEF StreamInv, TypeOK, landmarks
<1>7. InLibrary'
  BY <1>2 DEF InLibrary
<1>8. Placed'
  <2>1. ResumeRefusal(a.bytes, BATCH_HEADER_LEN) = None
    BY <1>3 DEF ResumeRefusal, total_len, BATCH_HEADER_LEN
  <2> QED
    BY <2>1, <1>2 DEF Placed
<1>9. calls <= 2 * empty_batches_in_a_row + 2
  <2>1. pc = "native"
    BY DEF TakeBatch
  <2>2. CASE grown
    BY <2>1, <2>2, InPull
  <2>3. CASE ~grown
    BY <2>1, <2>3, InPull, Numbers
  <2> QED
    BY <2>2, <2>3
<1>10. IsEmptyBatch(a) => calls <= 2 * EmptyBatches(a)
  BY <1>9, Numbers DEF EmptyBatches
<1>11. ~a.done /\ BATCH_HEADER_LEN >= a.written => IsEmptyBatch(a)
  <2>1. BATCH_HEADER_LEN >= a.written => a.written = BATCH_HEADER_LEN
    BY <1>1, <1>3 DEF BATCH_HEADER_LEN
  <2> QED
    BY <2>1 DEF IsEmptyBatch
<1>12. ~failed
  BY InPull DEF TakeBatch
<1>13. CallsSoFar'
  BY <1>1, <1>2, <1>10, <1>11, <1>12 DEF StreamInv, CallsSoFar
<1> QED
  BY <1>6, <1>7, <1>8, <1>13 DEF StreamInv

\* The buffer grows to a size above its own and below the ceiling, once.
LEMMA GrowBufferPreserves ==
    ASSUME StreamInv, NEW a, IsAnswer(a), GrowBuffer(a)
    PROVE  /\ StreamInv'
           /\ ~grown /\ buf_len < a.written /\ a.written <= max_batch_bytes
<1>1. ~grown /\ ~(a.written > max_batch_bytes) /\ ~(a.written <= buf_len)
  BY ErrorsAssumption DEF GrowBuffer, PullError
<1>2. /\ pc = "native" /\ pc' = "native" /\ buf' = a.bytes /\ buf_len' = a.written
      /\ grown' = TRUE /\ calls' = calls + 1
      /\ UNCHANGED <<batch_len, cursor, native_done, empty_batches_in_a_row,
                     finished, failed, answer>>
      /\ UNCHANGED <<counters, landmarks>>
  BY DEF GrowBuffer, CallLibrary, flags
<1>3. a.written \in Nat /\ IsBytes(a.bytes)
  BY DEF IsAnswer
<1>4. /\ buf_len < a.written /\ a.written <= max_batch_bytes
      /\ a.written \in BATCH_HEADER_LEN .. max_batch_bytes
      /\ batch_len \in 0 .. a.written
  BY <1>1, <1>3, InitialSize, Numbers DEF BATCH_HEADER_LEN
<1>5. calls' \in Nat
  BY <1>2, Numbers
<1>6. TypeOK'
  BY <1>2, <1>3, <1>4, <1>5 DEF StreamInv, TypeOK, counters, landmarks
<1>7. /\ ~finished /\ ~native_done /\ cursor >= batch_len
      /\ calls <= 2 * empty_batches_in_a_row + 1
      /\ empty_batches_in_a_row <= MaxEmptyBatches
  BY <1>1, <1>2, InPull
<1>8. InLibrary'
  BY <1>2, <1>7 DEF InLibrary
<1>9. Placed'
  <2>1. ~(cursor < batch_len)
    BY <1>7, Numbers
  <2> QED
    BY <2>1, <1>2 DEF Placed
<1>10. /\ calls' <= 2 * empty_batches_in_a_row + 2
       /\ calls' <= 2 * (MaxEmptyBatches + 1)
  BY <1>2, <1>7, Numbers, CountersAssumption
<1>11. CallsSoFar'
  BY <1>2, <1>10 DEF StreamInv, CallsSoFar
<1> QED
  BY <1>1, <1>4, <1>6, <1>8, <1>9, <1>11 DEF StreamInv

LEMMA RefusePullPreserves ==
    ASSUME StreamInv, NEW a, IsAnswer(a), RefusePull(a)
    PROVE  StreamInv'
<1>1. /\ pc' = "idle" /\ answer'.tag = "error" /\ finished' = TRUE
      /\ failed' \in BOOLEAN /\ buf' = a.bytes
      /\ empty_batches_in_a_row' \in {empty_batches_in_a_row, EmptyBatches(a)}
      /\ UNCHANGED <<buf_len, batch_len, cursor, native_done, counters, landmarks,
                     grown, calls>>
  BY DEF RefusePull, stop, Return, Err
<1>2. empty_batches_in_a_row <= MaxEmptyBatches
  BY InPull DEF RefusePull
<1>3. EmptyBatches(a) \in 0 .. (MaxEmptyBatches + 1)
  BY <1>2, Numbers, CountersAssumption DEF EmptyBatches
<1>4. empty_batches_in_a_row' \in 0 .. (MaxEmptyBatches + 1)
  BY <1>1, <1>3, Numbers
<1>5. TypeOK'
  BY <1>1, <1>4 DEF StreamInv, TypeOK, IsAnswer, counters, landmarks
<1>6. InLibrary' /\ Placed'
  BY <1>1 DEF InLibrary, Placed
<1>7. CallsSoFar'
  BY <1>1 DEF StreamInv, CallsSoFar
<1> QED
  BY <1>5, <1>6, <1>7 DEF StreamInv

\* Every step of the stream, and whatever the library answers, leaves the
\* invariant standing.
THEOREM StepPreserves ==
    ASSUME StreamInv, Call \/ NextItem \/ \E a : IsAnswer(a) /\ Receive(a)
    PROVE  StreamInv'
<1>1. CASE Call
  BY <1>1, CallPreserves
<1>2. CASE NextItem
  BY <1>2, EndPreserves, YieldRecordPreserves, RefuseRecordPreserves, PullPreserves
     DEF NextItem
<1>3. CASE \E a : IsAnswer(a) /\ Receive(a)
  <2> PICK a : IsAnswer(a) /\ Receive(a)
    BY <1>3
  <2> QED
    BY TakeBatchPreserves, GrowBufferPreserves, RefusePullPreserves DEF Receive
<1> QED
  BY <1>1, <1>2, <1>3

LEMMA StutterPreserves == StreamInv /\ UNCHANGED streamVars => StreamInv'
<1> SUFFICES ASSUME StreamInv, UNCHANGED streamVars PROVE StreamInv'
    OBVIOUS
<1> USE DEF StreamInv, streamVars, core, control, buffer, flags, counters, landmarks
<1>1. TypeOK'
  BY ZenonT(40) DEF TypeOK
<1>2. InLibrary' /\ Placed'
  BY DEF InLibrary, Placed
<1>3. CallsSoFar'
  BY DEF CallsSoFar
<1> QED
  BY <1>1, <1>2, <1>3

-----------------------------------------------------------------------------
(* Whatever the library answers *)

\* The steps of the specification are steps of StepPreserves.
LEMMA NextIsAStep ==
    Next => Call \/ NextItem \/ \E a : IsAnswer(a) /\ Receive(a)
BY AnswersAssumption DEF Next, LibraryAnswers

\* The stream keeps its invariant, and with it its type: where the loops of
\* Core::next and Core::pull stand, and what a call may have cost so far.
THEOREM Invariance == Spec => []StreamInv
<1>1. Init => StreamInv
  BY InitEstablishes
<1>2. StreamInv /\ [Next]_streamVars => StreamInv'
  <2> SUFFICES ASSUME StreamInv, [Next]_streamVars PROVE StreamInv'
      OBVIOUS
  <2>1. CASE Next
    BY <2>1, NextIsAStep, StepPreserves
  <2>2. CASE UNCHANGED streamVars
    BY <2>2, StutterPreserves
  <2> QED
    BY <2>1, <2>2
<1> QED
  BY <1>1, <1>2, PTL DEF Spec

\* However the library answers, one call of next() makes a bounded number of
\* calls of the library: Core::next and Core::pull cannot be kept turning.
THEOREM BoundedCalls == Spec => []CallsAreBounded
<1>1. StreamInv => CallsAreBounded
  BY Numbers DEF CallsAreBounded
<1> QED
  BY <1>1, Invariance, PTL

\* Core::step never says that it lost track of where it was inside a batch.
THEOREM TrackIsKept == Spec => []NeverLosesTrack
<1>1. StreamInv => NeverLosesTrack
  BY DEF StreamInv, Placed, NeverLosesTrack, InBatch
<1> QED
  BY <1>1, Invariance, PTL

\* A resumed walk that is not over has a budget left and stands inside the
\* payload, so no record is refused with BatchError::Internal.
LEMMA ResumedWalkIsNotInternal ==
    ASSUME NEW b, IsBytes(b),
           NEW offset \in Nat, ResumeRefusal(b, offset) = None,
           ~IsOver(b, records_from(b, offset))
    PROVE  next(b, records_from(b, offset)).refused # "Internal"
<1> DEFINE pos == offset - BATCH_HEADER_LEN
           r   == records_from(b, offset)
           h   == b.at[pos]
<1>1. /\ pos \in Nat /\ pos < b.plen /\ pos % 4 = 0 /\ b.plen \in Nat
  BY NoneAssumption DEF FrameRefusals, ResumeRefusal, IsOver, records_from, walk_from,
     total_len, BATCH_HEADER_LEN, IsBytes
<1>2. r.pos = pos /\ r.budget # 0
  BY <1>1 DEF records_from, walk_from, RECORD_HEADER_LEN
<1>3. ~(b.plen - pos < 0)
  BY <1>1
<1>4. next(b, r).refused = step(b, r).refused
  BY DEF next
<1>5. CASE b.plen - pos < RECORD_HEADER_LEN
  BY <1>2, <1>3, <1>4, <1>5 DEF step, Refused, Answered
<1>6. CASE ~(b.plen - pos < RECORD_HEADER_LEN)
  <2>1. pos \in HeaderOffsets(b.plen)
    BY <1>1, <1>6 DEF HeaderOffsets, RECORD_HEADER_LEN
  <2>2. h.body.refused # "Internal"
    BY <2>1 DEF IsBytes
  <2>3. FramingRefusal(b.plen - pos, h) # "Internal"
    BY NoneAssumption DEF FramingRefusal, FrameRefusals
  <2>4. step(b, r).refused \in {FramingRefusal(b.plen - pos, h), h.body.refused}
    BY <1>2, <1>3, <1>6 DEF step, Refused, Answered
  <2> QED
    BY <2>2, <2>3, <2>4, <1>4
<1> QED
  BY <1>5, <1>6

\* However malformed a batch, it is refused by a rule about its bytes.
THEOREM NoRecordIsInternal == Spec => []NoInternalRecordRefusal
<1>1. StreamInv => NoInternalRecordRefusal
  BY ResumedWalkIsNotInternal
     DEF StreamInv, TypeOK, NoInternalRecordRefusal, Resumed
<1> QED
  BY <1>1, Invariance, PTL

\* "This crate lost track of where it was inside a batch" and "I got confused
\* reading the batch" never come out of a stream.
THEOREM StepKnowsItsPlace == Spec => []NeverLostNorConfused
<1>1. NeverLosesTrack /\ NoInternalRecordRefusal => NeverLostNorConfused
  BY DEF NeverLostNorConfused
<1> QED
  BY <1>1, TrackIsKept, NoRecordIsInternal, PTL

\* The buffer grows at most once in one pull, and never past the ceiling.
THEOREM BoundedGrowth == Spec => GrowsOncePerBatch
<1> DEFINE Growth == buf_len' # buf_len
              => /\ buf_len < buf_len' /\ buf_len' <= max_batch_bytes
                 /\ ~grown /\ grown'
                 /\ batches_pulled' = batches_pulled
<1>1. StreamInv /\ [Next]_streamVars => [Growth]_streamVars
  <2> SUFFICES ASSUME StreamInv, Next, buf_len' # buf_len PROVE Growth
      OBVIOUS
  <2>1. ~Call /\ ~NextItem
    BY DEF Call, NextItem, AfterTheEnd, YieldRecord, RefuseRecord, EndStream, Pull,
           core, buffer
  <2>2. PICK a : IsAnswer(a) /\ Receive(a)
    BY <2>1, NextIsAStep
  <2>3. GrowBuffer(a)
    BY <2>2 DEF Receive, TakeBatch, RefusePull
  <2>4. /\ buf_len' = a.written /\ grown' /\ batches_pulled' = batches_pulled
    BY <2>3 DEF GrowBuffer, counters
  <2> QED
    BY <2>2, <2>3, <2>4, GrowBufferPreserves
<1> QED
  BY <1>1, Invariance, PTL DEF Spec, GrowsOncePerBatch
-----------------------------------------------------------------------------
(* The fused iterator *)

\* A stream that is new is an iterator nobody has asked.
LEMMA FusedInit == Init => Fused!Init
<1> SUFFICES ASSUME Init PROVE Fused!Init
    OBVIOUS
<1>1. pc = "idle" /\ finished = FALSE /\ answer = NotYet
  BY DEF Init, CoreInit
<1>2. (pc # "idle") = FALSE /\ Life = "open" /\ answer.tag = "not yet"
  BY <1>1 DEF Life, NotYet
<1> QED
  BY <1>2 DEF Fused!Init

\* What stop() makes of the life of a stream that was not finished.
LEMMA StopsOnce ==
    ASSUME StreamInv, ~finished, NEW failure \in BOOLEAN, stop(failure)
    PROVE  Life = "open" /\ Life' = IF failure THEN "failed" ELSE "ended"
<1>1. ~failed
  BY DEF StreamInv, CallsSoFar
<1>2. finished' = TRUE /\ failed' = failure
  BY <1>1 DEF stop, StreamInv, TypeOK
<1> QED
  BY <1>2 DEF Life

\* An answer of next() is an answer of the iterator.
LEMMA ReturnsAnswer ==
    ASSUME pc # "idle", NEW a, Return(a)
    PROVE  Fused!Answer(a.tag)
BY DEF Return, Fused!Answer

\* Every step is one of the iterator's or does not concern it.
LEMMA FusedStep ==
    ASSUME StreamInv, Next
    PROVE  [Fused!Next]_(Fused!vars)
<1> USE DEF Fused!Next, Fused!Respond
<1>1. CASE Call
  <2>1. Life' = Life /\ answer'.tag = answer.tag /\ pc = "idle" /\ pc' # "idle"
    BY <1>1 DEF Call, core, flags, Life
  <2> QED
    BY <2>1 DEF Fused!Ask
<1>2. CASE AfterTheEnd
  <2>1. Life' = Life /\ Life # "open"
    BY <1>2 DEF AfterTheEnd, core, flags, Life
  <2>2. Fused!Answer("none")
    BY <1>2, ReturnsAnswer DEF AfterTheEnd, End
  <2> QED
    BY <2>1, <2>2 DEF Fused!Over
<1>3. CASE YieldRecord
  <2>1. Life' = Life /\ Life = "open"
    BY <1>3 DEF YieldRecord, InBatch, flags, Life
  <2>2. Fused!Answer("item")
    BY <1>3, ReturnsAnswer DEF YieldRecord, InBatch, Item
  <2> QED
    BY <2>1, <2>2 DEF Fused!Yield
<1>4. CASE RefuseRecord
  <2>1. Life = "open" /\ Life' = "failed"
    BY <1>4, StopsOnce DEF RefuseRecord, InBatch
  <2>2. Fused!Answer("error")
    BY <1>4, ReturnsAnswer DEF RefuseRecord, InBatch, Err
  <2> QED
    BY <2>1, <2>2 DEF Fused!Fail
<1>5. CASE EndStream
  <2>1. Life = "open" /\ Life' = "ended"
    BY <1>5, StopsOnce DEF EndStream, Drained
  <2>2. Fused!Answer("none")
    BY <1>5, ReturnsAnswer DEF EndStream, Drained, End
  <2> QED
    BY <2>1, <2>2 DEF Fused!End
<1>6. CASE Pull
  <2>1. Life' = Life /\ answer' = answer /\ pc # "idle" /\ pc' # "idle"
    BY <1>6 DEF Pull, Drained, CallLibrary, core, flags, Life
  <2> QED
    BY <2>1 DEF Fused!vars
<1>7. CASE \E a : IsAnswer(a) /\ Receive(a)
  <2> PICK a : IsAnswer(a) /\ Receive(a)
    BY <1>7
  <2>1. CASE TakeBatch(a)
    <3>1. Life' = Life /\ answer' = answer /\ pc # "idle" /\ pc' # "idle"
      BY <2>1 DEF TakeBatch, Life
    <3> QED
      BY <3>1 DEF Fused!vars
  <2>2. CASE GrowBuffer(a)
    <3>1. Life' = Life /\ answer' = answer /\ pc # "idle" /\ pc' # "idle"
      BY <2>2 DEF GrowBuffer, CallLibrary, flags, Life
    <3> QED
      BY <3>1 DEF Fused!vars
  <2>3. CASE RefusePull(a)
    <3>1. pc = "native" /\ stop(TRUE) /\ Return(Err(PullError(a)))
      BY <2>3 DEF RefusePull
    <3>2. Life = "open" /\ Life' = "failed"
      BY <3>1, InPull, StopsOnce
    <3>3. Fused!Answer("error")
      BY <3>1, ReturnsAnswer DEF Err
    <3> QED
      BY <3>2, <3>3 DEF Fused!Fail
  <2> QED
    BY <2>1, <2>2, <2>3 DEF Receive
<1> QED
  BY <1>1, <1>2, <1>3, <1>4, <1>5, <1>6, <1>7, NextIsAStep DEF NextItem

\* PrimitiveStream is a fused iterator of fallible items, whatever the library
\* answers: at most one error comes out, and None follows it for good.  (That
\* every call is answered is liveness, and is left to TLC.)
THEOREM FusedSafety == Spec => Fused!Safety
<1>1. Init => Fused!Init
  BY FusedInit
<1>2. StreamInv /\ [Next]_streamVars => [Fused!Next]_(Fused!vars)
  <2> SUFFICES ASSUME StreamInv, [Next]_streamVars
               PROVE  [Fused!Next]_(Fused!vars)
      OBVIOUS
  <2>1. CASE Next
    BY <2>1, FusedStep
  <2>2. CASE UNCHANGED streamVars
    BY <2>2 DEF streamVars, core, flags, control, Life, Fused!vars
  <2> QED
    BY <2>1, <2>2
<1> QED
  BY <1>1, <1>2, Invariance, PTL DEF Spec, Fused!Safety

-----------------------------------------------------------------------------
(* Where the records of a batch end *)

\* A set of natural numbers with something in it has a least element: how the
\* lemmas below, which induction would prove, are proved from a first failure.
LEMMA LeastOf ==
    ASSUME NEW T \in SUBSET Nat, T # {}
    PROVE  \E n \in T : \A m \in T : n <= m
<1>1. PICK n \in T : \A m \in T : ~(<<m, n>> \in OpToRel(<, Nat))
  BY WFMin, NatLessThanWellFounded
<1>2. \A m \in T : ~(m < n)
  BY <1>1 DEF OpToRel
<1> QED
  BY <1>2

\* The function Ends defines exists: a first length without one would have the
\* one of the length before it extended by a sum.
LEMMA EndsExists ==
    ASSUME NEW rs \in Seq(Record), NEW len \in 0 .. Len(rs)
    PROVE  \E end : end = [i \in 0 .. len |->
                              IF i = 0 THEN 0 ELSE end[i - 1] + rs[i].length]
<1> DEFINE Sums(end, k) == end = [i \in 0 .. k |->
                                    IF i = 0 THEN 0 ELSE end[i - 1] + rs[i].length]
           Without == {k \in Nat : ~ \E end : Sums(end, k)}
<1>1. SUFFICES ASSUME Without # {} PROVE FALSE
  <2>1. len \in Nat
    OBVIOUS
  <2> QED
    BY <1>1, <2>1
<1>2. PICK k \in Without : \A m \in Without : k <= m
  BY <1>1, LeastOf
<1> HIDE DEF Sums
<1>3. CASE k = 0
  <2>1. Sums([i \in {0} |-> 0], 0)
    BY DEF Sums
  <2> QED
    BY <1>2, <1>3, <2>1
<1>4. CASE k # 0
  <2>1. k - 1 \in Nat /\ k - 1 \notin Without
    BY <1>2, <1>4
  <2>2. PICK end : Sums(end, k - 1)
    BY <2>1
  <2> DEFINE more == [i \in 0 .. k |-> IF i = k THEN end[k - 1] + rs[k].length ELSE end[i]]
  <2>3. \A i \in 0 .. k : more[i] = IF i = 0 THEN 0 ELSE more[i - 1] + rs[i].length
    <3> SUFFICES ASSUME NEW i \in 0 .. k
                 PROVE  more[i] = IF i = 0 THEN 0 ELSE more[i - 1] + rs[i].length
        OBVIOUS
    <3>1. CASE i = k
      BY <3>1, <2>1, <1>4
    <3>2. CASE i # k
      <4>1. i \in 0 .. (k - 1) /\ (i # 0 => i - 1 \in 0 .. k /\ i - 1 # k)
        BY <3>2, <2>1
      <4>2. end[i] = IF i = 0 THEN 0 ELSE end[i - 1] + rs[i].length
        BY <4>1, <2>2 DEF Sums
      <4> QED
        BY <3>2, <4>1, <4>2
    <3> QED
      BY <3>1, <3>2
  <2>4. Sums(more, k)
    BY <2>3 DEF Sums
  <2> QED
    BY <1>2, <2>4
<1> QED
  BY <1>3, <1>4

LEMMA RecordsOf ==
    ASSUME NEW rs \in Seq(Record), NEW i \in 1 .. Len(rs)
    PROVE  /\ rs[i].length \in Nat /\ rs[i].length >= RECORD_HEADER_LEN
           /\ rs[i].length % 4 = 0
           /\ rs[i].kind \in Kinds /\ rs[i].total \in Nat
<1>1. rs[i] \in Record
  OBVIOUS
<1> QED
  BY <1>1 DEF Record

LEMMA EndsAre ==
    ASSUME NEW rs \in Seq(Record)
    PROVE  /\ Ends(rs)[0] = 0
           /\ \A i \in 1 .. Len(rs) : Ends(rs)[i] = Ends(rs)[i - 1] + rs[i].length
<1> DEFINE Sums(end) == end = [i \in 0 .. Len(rs) |->
                                 IF i = 0 THEN 0 ELSE end[i - 1] + rs[i].length]
<1>1. \E end : Sums(end)
  BY EndsExists
<1>2. Ends(rs) = CHOOSE end : Sums(end)
  BY DEF Ends
<1> HIDE DEF Sums
<1>3. Sums(Ends(rs))
  BY <1>1, <1>2
<1>4. \A i \in 0 .. Len(rs) :
          Ends(rs)[i] = IF i = 0 THEN 0 ELSE Ends(rs)[i - 1] + rs[i].length
  BY <1>3 DEF Sums
<1>5. 0 \in 0 .. Len(rs) /\ \A i \in 1 .. Len(rs) : i \in 0 .. Len(rs) /\ i # 0
  OBVIOUS
<1> QED
  BY <1>4, <1>5

\* Records end at words.
LEMMA EndsAreWords ==
    ASSUME NEW rs \in Seq(Record)
    PROVE  \A i \in 0 .. Len(rs) : Ends(rs)[i] \in Nat /\ Ends(rs)[i] % 4 = 0
<1> DEFINE Bad == {i \in 0 .. Len(rs) : ~(Ends(rs)[i] \in Nat /\ Ends(rs)[i] % 4 = 0)}
<1> SUFFICES ASSUME Bad # {} PROVE FALSE
    OBVIOUS
<1>1. PICK k \in Bad : \A m \in Bad : k <= m
  <2>1. Bad \in SUBSET Nat
    OBVIOUS
  <2> QED
    BY <2>1, LeastOf
<1>2. k # 0
  BY EndsAre
<1>3. k \in 1 .. Len(rs) /\ k - 1 \in 0 .. Len(rs) /\ k - 1 \notin Bad
  BY <1>1, <1>2
<1>4. Ends(rs)[k - 1] \in Nat /\ Ends(rs)[k - 1] % 4 = 0
  BY <1>3
<1>5. Ends(rs)[k] = Ends(rs)[k - 1] + rs[k].length
  BY <1>3, EndsAre
<1>6. Ends(rs)[k] \in Nat /\ Ends(rs)[k] % 4 = 0
  <2>1. rs[k].length \in Nat /\ rs[k].length % 4 = 0
    BY <1>3, RecordsOf
  <2> QED
    BY <1>4, <1>5, <2>1
<1> QED
  BY <1>6

\* A later record ends at least a header behind an earlier one.
LEMMA EndsGrow ==
    ASSUME NEW rs \in Seq(Record), NEW i \in 0 .. Len(rs), NEW j \in 0 .. Len(rs), i < j
    PROVE  Ends(rs)[i] + RECORD_HEADER_LEN <= Ends(rs)[j]
<1> DEFINE Bad == {k \in 0 .. Len(rs) :
                      i < k /\ ~(Ends(rs)[i] + RECORD_HEADER_LEN <= Ends(rs)[k])}
<1> SUFFICES ASSUME Bad # {} PROVE FALSE
    OBVIOUS
<1>1. PICK k \in Bad : \A m \in Bad : k <= m
  <2>1. Bad \in SUBSET Nat
    OBVIOUS
  <2> QED
    BY <2>1, LeastOf
<1>2. /\ k \in 1 .. Len(rs) /\ k - 1 \in 0 .. Len(rs) /\ k - 1 \notin Bad
      /\ i = k - 1 \/ i < k - 1
  BY <1>1
<1>3. /\ Ends(rs)[k] = Ends(rs)[k - 1] + rs[k].length
      /\ rs[k].length \in Nat /\ rs[k].length >= RECORD_HEADER_LEN
      /\ Ends(rs)[i] \in Nat /\ Ends(rs)[k - 1] \in Nat
  BY <1>2, EndsAre, RecordsOf, EndsAreWords
<1>4. Ends(rs)[i] <= Ends(rs)[k - 1]
  <2>1. CASE i = k - 1
    BY <2>1, <1>3
  <2>2. CASE i < k - 1
    BY <2>2, <1>2, <1>3 DEF RECORD_HEADER_LEN
  <2> QED
    BY <2>1, <2>2, <1>2
<1>5. Ends(rs)[i] + RECORD_HEADER_LEN <= Ends(rs)[k]
  BY <1>3, <1>4 DEF RECORD_HEADER_LEN
<1> QED
  BY <1>5

\* A place at which a record ends tells which one.
LEMMA EndsTellApart ==
    ASSUME NEW rs \in Seq(Record), NEW i \in 0 .. Len(rs), NEW j \in 0 .. Len(rs)
    PROVE  /\ Ends(rs)[i] = Ends(rs)[j] => i = j
           /\ Ends(rs)[i] < Ends(rs)[j] <=> i < j
<1>1. Ends(rs)[i] \in Nat /\ Ends(rs)[j] \in Nat
  BY EndsAreWords
<1>2. CASE i < j
  BY <1>1, <1>2, EndsGrow DEF RECORD_HEADER_LEN
<1>3. CASE j < i
  BY <1>1, <1>3, EndsGrow DEF RECORD_HEADER_LEN
<1>4. CASE i = j
  BY <1>1, <1>4
<1> QED
  BY <1>2, <1>3, <1>4

-----------------------------------------------------------------------------
(* Reading a batch the library framed *)

LEMMA FrameFields ==
    ASSUME NEW rs \in Seq(Record)
    PROVE  /\ Frame(rs).magic = TRUE /\ Frame(rs).wire = WIRE_VERSION
           /\ Frame(rs).plen = Ends(rs)[Len(rs)] /\ Frame(rs).plen \in Nat
           /\ FrameSize(rs) = BATCH_HEADER_LEN + Frame(rs).plen
           /\ FrameSize(rs) \in Nat /\ FrameSize(rs) >= BATCH_HEADER_LEN
<1>1. Len(rs) \in 0 .. Len(rs)
  OBVIOUS
<1>2. Ends(rs)[Len(rs)] \in Nat
  BY <1>1, EndsAreWords
<1> QED
  BY <1>2 DEF Frame, FrameSize, BATCH_HEADER_LEN

\* At the end of a record the header of the next one is found, and elsewhere
\* something that is none.
LEMMA FrameAt ==
    ASSUME NEW rs \in Seq(Record), NEW p \in HeaderOffsets(Frame(rs).plen)
    PROVE  /\ Frame(rs).at[p] \in {HeaderOf(rs[i]) : i \in 1 .. Len(rs)} \cup {Inside}
           /\ \A i \in 1 .. Len(rs) : Ends(rs)[i - 1] = p => Frame(rs).at[p] = HeaderOf(rs[i])
<1>1. DOMAIN rs = 1 .. Len(rs)
  OBVIOUS
<1>2. Frame(rs).at[p] = IF \E i \in 1 .. Len(rs) : Ends(rs)[i - 1] = p
                        THEN HeaderOf(rs[CHOOSE i \in 1 .. Len(rs) : Ends(rs)[i - 1] = p])
                        ELSE Inside
  BY <1>1, FrameFields DEF Frame
<1>3. CASE \E i \in 1 .. Len(rs) : Ends(rs)[i - 1] = p
  <2> DEFINE c == CHOOSE i \in 1 .. Len(rs) : Ends(rs)[i - 1] = p
  <2>1. c \in 1 .. Len(rs) /\ Ends(rs)[c - 1] = p
    BY <1>3
  <2>2. \A i \in 1 .. Len(rs) : Ends(rs)[i - 1] = p => i = c
    <3> SUFFICES ASSUME NEW i \in 1 .. Len(rs), Ends(rs)[i - 1] = p PROVE i = c
        OBVIOUS
    <3> HIDE DEF c
    <3>1. i - 1 \in 0 .. Len(rs) /\ c - 1 \in 0 .. Len(rs)
      BY <2>1
    <3>2. i - 1 = c - 1
      BY <3>1, <2>1, EndsTellApart
    <3> QED
      BY <3>2, <2>1
  <2>3. Frame(rs).at[p] = HeaderOf(rs[c])
    BY <1>2, <1>3
  <2> QED
    BY <2>1, <2>2, <2>3
<1>4. CASE ~ \E i \in 1 .. Len(rs) : Ends(rs)[i - 1] = p
  BY <1>2, <1>4
<1> QED
  BY <1>3, <1>4

LEMMA FrameIsBytes == ASSUME NEW rs \in Seq(Record) PROVE IsBytes(Frame(rs))
<1>1. DOMAIN Frame(rs).at = HeaderOffsets(Frame(rs).plen)
  BY FrameFields DEF Frame
<1>2. ASSUME NEW p \in HeaderOffsets(Frame(rs).plen)
      PROVE  /\ Frame(rs).at[p].reserved \in Nat
             /\ Frame(rs).at[p].length \in Nat
             /\ Frame(rs).at[p].body.refused # "Internal"
             /\ Frame(rs).at[p].body.kind \in Kinds
             /\ Frame(rs).at[p].body.total \in Nat
  <2>1. CASE Frame(rs).at[p] = Inside
    BY <2>1, NoneAssumption DEF Inside, FrameRefusals, Kinds
  <2>2. ASSUME NEW i \in 1 .. Len(rs), Frame(rs).at[p] = HeaderOf(rs[i]) PROVE <1>2!2
    BY <2>2, RecordsOf, NoneAssumption DEF HeaderOf, FrameRefusals
  <2> QED
    BY <2>1, <2>2, FrameAt
<1>3. Frame(rs).magic \in BOOLEAN /\ Frame(rs).wire \in Nat /\ Frame(rs).plen \in Nat
  <2>1. Frame(rs).magic \in BOOLEAN
    <3>1. Frame(rs).magic = TRUE
      BY FrameFields
    <3> QED
      BY <3>1, Zenon
  <2>2. Frame(rs).wire \in Nat /\ Frame(rs).plen \in Nat
    <3>1. Frame(rs).wire = WIRE_VERSION /\ Frame(rs).plen \in Nat
      BY FrameFields
    <3>2. WIRE_VERSION \in Nat
      BY DEF WIRE_VERSION
    <3> QED
      BY <3>1, <3>2
  <2> QED
    BY <2>1, <2>2
<1> QED
  BY <1>1, <1>2, <1>3 DEF IsBytes

\* The walk resumed where a record ends answers the next one and stands where
\* that one ends.
LEMMA FrameStep ==
    ASSUME NEW rs \in Seq(Record), NEW k \in 1 .. Len(rs)
    PROVE  LET r == records_from(Frame(rs), BATCH_HEADER_LEN + Ends(rs)[k - 1])
               a == next(Frame(rs), r)
           IN  /\ ~IsOver(Frame(rs), r)
               /\ a.refused = None /\ a.kind = rs[k].kind /\ a.total = rs[k].total
               /\ Offset(a.r) = BATCH_HEADER_LEN + Ends(rs)[k]
<1> DEFINE b == Frame(rs)
           p == Ends(rs)[k - 1]
           r == records_from(b, BATCH_HEADER_LEN + p)
           h == HeaderOf(rs[k])
<1>1. /\ k - 1 \in 0 .. Len(rs) /\ k \in 0 .. Len(rs) /\ Len(rs) \in 0 .. Len(rs)
      /\ k \in Nat /\ Len(rs) \in Nat /\ k <= Len(rs)
  OBVIOUS
<1>2. /\ p \in Nat /\ p % 4 = 0 /\ Ends(rs)[k] \in Nat /\ Ends(rs)[Len(rs)] \in Nat
  BY <1>1, EndsAreWords
<1>3. Ends(rs)[k] = p + rs[k].length
  BY EndsAre
<1>4. Ends(rs)[k] <= Ends(rs)[Len(rs)]
  <2>1. CASE k = Len(rs)
    BY <2>1, <1>2
  <2>2. CASE k # Len(rs)
    BY <2>2, <1>1, <1>2, EndsTellApart
  <2> QED
    BY <2>1, <2>2
<1>5. /\ rs[k].length \in Nat /\ rs[k].length >= RECORD_HEADER_LEN /\ rs[k].length % 4 = 0
  BY RecordsOf
<1>6. b.plen = Ends(rs)[Len(rs)]
  BY FrameFields
<1>7. p \in HeaderOffsets(b.plen)
  BY <1>2, <1>3, <1>4, <1>5, <1>6 DEF HeaderOffsets, RECORD_HEADER_LEN
<1>8. b.at[p] = h
  BY <1>7, FrameAt
<1> HIDE DEF b, p, h
<1>9. /\ r.pos = p /\ r.stopped = FALSE /\ r.budget # 0
      /\ r = [pos |-> p, budget |-> r.budget, stopped |-> FALSE]
  BY <1>2, <1>3, <1>4, <1>5, <1>6
     DEF records_from, walk_from, BATCH_HEADER_LEN, RECORD_HEADER_LEN
<1>10. /\ ~(b.plen - p < 0) /\ ~(b.plen - p < RECORD_HEADER_LEN)
       /\ ~(p >= b.plen) /\ ~(rs[k].length > b.plen - p)
  BY <1>2, <1>3, <1>4, <1>5, <1>6 DEF RECORD_HEADER_LEN
<1>11. /\ h.length = rs[k].length /\ h.reserved = 0 /\ h.body.refused = None
       /\ h.body.kind = rs[k].kind /\ h.body.total = rs[k].total
  BY DEF h, HeaderOf
<1>12. FramingRefusal(b.plen - p, h) = None
  BY <1>5, <1>10, <1>11 DEF FramingRefusal, RECORD_HEADER_LEN
<1> HIDE DEF r
<1> DEFINE moved == [[r EXCEPT !.budget = @ - 1] EXCEPT !.pos = @ + h.length]
<1>13. step(b, r) = Answered(moved, None, rs[k].kind, rs[k].total)
  BY <1>8, <1>9, <1>10, <1>11, <1>12 DEF step
<1>14. /\ step(b, r).refused = None /\ step(b, r).kind = rs[k].kind
       /\ step(b, r).total = rs[k].total /\ step(b, r).r.pos = p + rs[k].length
  <2>1. moved.pos = p + rs[k].length
    BY <1>9, <1>11
  <2> HIDE DEF moved
  <2> QED
    BY <1>13, <2>1 DEF Answered
<1>15. next(b, r) = step(b, r)
  BY <1>14 DEF next
<1>16. Offset(step(b, r).r) = BATCH_HEADER_LEN + Ends(rs)[k]
  BY <1>14, <1>3, <1>2 DEF Offset, BATCH_HEADER_LEN
<1>17. ~IsOver(b, r)
  BY <1>9, <1>10 DEF IsOver
<1> QED
  BY <1>14, <1>15, <1>16, <1>17 DEF r, b, p

-----------------------------------------------------------------------------
(* The invariant of a decode *)

\* What the library has committed to, and what the stream knows of it.
LibraryInv ==
    /\ script \in Scripts
    /\ sent \in 0 .. Len(script.records)
    /\ pads \in Nat /\ over \in BOOLEAN /\ flag \in BOOLEAN
    /\ looked \in BOOLEAN \cup {None}
    /\ looked # None => pc = "native"
    /\ looked = TRUE => flag
    /\ staged \in Nat \cup {None}
    /\ staged # None => pc = "native" \/ finished
    /\ over => finished \/ native_done
    /\ native_done => sent = Len(script.records)
    /\ ~finished => empty_batches_in_a_row = pads
    /\ pc = "native" /\ grown => staged # None /\ FrameSize(Run(0, staged)) <= buf_len

\* The records written so far are records of the script, and the first ones of
\* it as long as none was lost.
Written ==
    /\ handed \in Seq(Record)
    /\ \A i \in 1 .. Len(handed) :
          \E j \in 1 .. Len(script.records) : handed[i] = script.records[j]
    /\ Len(handed) <= sent
    /\ Len(handed) = sent => handed = SubSeq(script.records, 1, sent)
    /\ ~script.lossy => Len(handed) = sent

\* The caller has been given the first of them, as many as were counted.
Delivered ==
    /\ Len(delivered) \in 0 .. Len(handed)
    /\ delivered = [i \in 1 .. Len(delivered) |-> Item(handed[i])]
    /\ records_seen = Len(delivered)
    /\ document_end # None => document_end = Len(script.records)

\* The buffer holds the last of them, and the cursor stands where the next one
\* the caller has not been given begins.
LastBatch(m) == SubSeq(handed, m + 1, Len(handed))
Reading(m) ==
    /\ buf = Frame(LastBatch(m))
    /\ batch_len = FrameSize(LastBatch(m))
    /\ cursor = BATCH_HEADER_LEN + Ends(LastBatch(m))[Len(delivered) - m]
InBuffer ==
    ~finished => \/ batch_len = 0 /\ cursor = 0 /\ Len(handed) = 0
                 \/ \E m \in 0 .. Len(delivered) : Reading(m)

\* A call that is under way when the flag is set may bring its batch; a call
\* that begins with the flag set, and nothing committed to, brings none.
Notice ==
    /\ noticeBy \in Nat \cup {None}
    /\ noticeBy # None => flag
    /\ noticeBy # None /\ pc = "native" =>
          \/ batches_pulled + 1 <= noticeBy
          \/ staged = None /\ looked # FALSE

DecodeInv ==
    /\ StreamInv /\ LibraryInv /\ Written /\ Delivered /\ InBuffer
    /\ Notice /\ CancelIsNoticed
    /\ NoFalseAlarm /\ (answer.tag = "error" => finished)
    /\ EverythingPulledComesOut

\* What the parts of the invariant say of the numbers and the sequences.
LEMMA Lengths ==
    DecodeInv =>
        /\ Len(handed) \in Nat /\ Len(delivered) \in Nat /\ Len(delivered) <= Len(handed)
        /\ sent \in Nat /\ Len(handed) <= sent /\ sent <= Len(script.records)
        /\ script.records \in Seq(Record) /\ Len(script.records) \in Nat
        /\ Len(script.records) < CounterLimit
        /\ cursor \in Nat /\ batch_len \in Nat /\ buf_len \in Nat /\ batches_pulled \in Nat
<1> SUFFICES ASSUME DecodeInv PROVE Lengths!2
    OBVIOUS
<1>1. /\ script.records \in Seq(Record) /\ Len(script.records) < CounterLimit
  BY ScriptsAssumption DEF DecodeInv, LibraryInv
<1>2. Len(script.records) \in Nat /\ Len(handed) \in Nat
  BY <1>1 DEF DecodeInv, Written
<1>3. cursor \in Nat /\ batch_len \in Nat /\ buf_len \in Nat /\ batches_pulled \in Nat
  BY InitialSize, Numbers DEF DecodeInv, BATCH_HEADER_LEN
<1> QED
  BY <1>1, <1>2, <1>3 DEF DecodeInv, LibraryInv, Written, Delivered

LEMMA LastBatchIs ==
    ASSUME NEW rs \in Seq(Record), NEW m \in 0 .. Len(rs)
    PROVE  /\ SubSeq(rs, m + 1, Len(rs)) \in Seq(Record)
           /\ Len(SubSeq(rs, m + 1, Len(rs))) = Len(rs) - m
           /\ \A i \in 1 .. (Len(rs) - m) : SubSeq(rs, m + 1, Len(rs))[i] = rs[m + i]
OBVIOUS

\* The record at the cursor of a batch that is not read to its end.
LEMMA ReadingOn ==
    ASSUME DecodeInv, NEW m \in 0 .. Len(delivered), Reading(m)
    PROVE  /\ LastBatch(m) \in Seq(Record)
           /\ Len(LastBatch(m)) = Len(handed) - m
           /\ cursor < batch_len <=> Len(delivered) < Len(handed)
<1> DEFINE rs == LastBatch(m)
           k  == Len(delivered) - m
<1>1. handed \in Seq(Record) /\ m \in 0 .. Len(handed)
  BY Lengths DEF DecodeInv, Written
<1>2. rs \in Seq(Record) /\ Len(rs) = Len(handed) - m
  BY <1>1, LastBatchIs DEF LastBatch
<1>3. k \in 0 .. Len(rs) /\ Len(rs) \in 0 .. Len(rs)
  BY <1>1, <1>2, Lengths
<1>4. /\ Ends(rs)[k] \in Nat /\ Ends(rs)[Len(rs)] \in Nat
      /\ Ends(rs)[k] < Ends(rs)[Len(rs)] <=> k < Len(rs)
  BY <1>2, <1>3, EndsAreWords, EndsTellApart
<1>5. cursor = BATCH_HEADER_LEN + Ends(rs)[k] /\ batch_len = BATCH_HEADER_LEN + Ends(rs)[Len(rs)]
  BY DEF Reading, FrameSize
<1>6. cursor < batch_len <=> k < Len(rs)
  BY <1>4, <1>5 DEF BATCH_HEADER_LEN
<1> QED
  BY <1>2, <1>3, <1>6, Lengths

\* A buffer that is read to its end has been given whole.
LEMMA DrainedIsGiven ==
    ASSUME DecodeInv, ~finished, cursor >= batch_len
    PROVE  Len(delivered) = Len(handed)
<1>1. CASE Len(handed) = 0
  BY <1>1, Lengths
<1>2. ASSUME NEW m \in 0 .. Len(delivered), Reading(m) PROVE Len(delivered) = Len(handed)
  <2>1. ~(cursor < batch_len)
    BY Lengths
  <2> QED
    BY <1>2, <2>1, ReadingOn, Lengths
<1> QED
  BY <1>1, <1>2 DEF DecodeInv, InBuffer

LEMMA AllIsGiven ==
    ASSUME handed \in Seq(Record), Delivered, Len(delivered) = Len(handed)
    PROVE  delivered = Given(handed)
BY DEF Delivered, Given

\* Core::step on a batch of this library: the next record, never a refusal.
LEMMA NextRecord ==
    ASSUME DecodeInv, InBatch
    PROVE  LET k == Len(delivered) + 1
               a == next(buf, Resumed)
           IN  /\ StepError = None
               /\ k \in 1 .. Len(handed)
               /\ a.kind = handed[k].kind /\ a.total = handed[k].total
               /\ \E m \in 0 .. Len(delivered) :
                     /\ buf = Frame(LastBatch(m)) /\ batch_len = FrameSize(LastBatch(m))
                     /\ Offset(a.r) = BATCH_HEADER_LEN + Ends(LastBatch(m))[k - m]
<1>1. ~finished /\ cursor < batch_len
  BY DEF InBatch
<1>2. PICK m \in 0 .. Len(delivered) : Reading(m)
  BY <1>1 DEF DecodeInv, InBuffer
<1> DEFINE rs == LastBatch(m)
           k == Len(delivered) + 1
           a == next(buf, Resumed)
<1>3. rs \in Seq(Record) /\ Len(rs) = Len(handed) - m /\ Len(delivered) < Len(handed)
  BY <1>1, <1>2, ReadingOn
<1>4. k \in 1 .. Len(handed) /\ k - m \in 1 .. Len(rs) /\ Len(delivered) - m = (k - m) - 1
  BY <1>3, Lengths
<1>5. rs[k - m] = handed[k]
  <2>1. handed \in Seq(Record) /\ m \in 0 .. Len(handed) /\ k - m \in 1 .. (Len(handed) - m)
    BY <1>3, <1>4, Lengths DEF DecodeInv, Written
  <2>2. rs[k - m] = handed[m + (k - m)]
    BY <2>1, LastBatchIs DEF LastBatch
  <2> QED
    BY <2>1, <2>2, Lengths
<1>6. buf = Frame(rs) /\ batch_len = FrameSize(rs)
      /\ cursor = BATCH_HEADER_LEN + Ends(rs)[(k - m) - 1]
  BY <1>2, <1>4 DEF Reading
<1>7. Resumed = records_from(Frame(rs), BATCH_HEADER_LEN + Ends(rs)[(k - m) - 1])
  BY <1>6 DEF Resumed
<1> HIDE DEF rs
<1>8. /\ ~IsOver(buf, Resumed)
      /\ a.refused = None /\ a.kind = rs[k - m].kind /\ a.total = rs[k - m].total
      /\ Offset(a.r) = BATCH_HEADER_LEN + Ends(rs)[k - m]
  BY <1>3, <1>4, <1>6, <1>7, FrameStep
<1>9. ReaderRefusal(batch_len, buf) = None
  <2>1. /\ buf.magic = TRUE /\ buf.wire = WIRE_VERSION /\ buf.plen \in Nat
        /\ batch_len = BATCH_HEADER_LEN + buf.plen
    BY <1>3, <1>6, FrameFields
  <2>2. ~(batch_len < BATCH_HEADER_LEN) /\ ~(BATCH_HEADER_LEN + buf.plen > batch_len)
    BY <2>1 DEF BATCH_HEADER_LEN
  <2> QED
    BY <2>1, <2>2 DEF ReaderRefusal
<1>10. ResumeRefusal(buf, cursor) = None
  BY <1>1, <1>9 DEF DecodeInv, StreamInv, Placed
<1>11. StepError = None
  BY <1>8, <1>9, <1>10 DEF StepError
<1> QED
  BY <1>2, <1>4, <1>5, <1>6, <1>8, <1>11 DEF rs

-----------------------------------------------------------------------------
(* The caller's thread *)

\* The parts that only speak of the library stand when it takes no step.
LEMMA LibraryRests ==
    ASSUME LibraryInv, Written, UNCHANGED <<libraryVars, flag>>
    PROVE  /\ Written'
           /\ /\ looked # None => pc' = "native"
              /\ staged # None => pc' = "native" \/ finished'
              /\ over => finished' \/ native_done'
              /\ native_done' => native_done
              /\ ~finished' => empty_batches_in_a_row' = pads
              /\ pc' = "native" /\ grown' => staged # None /\ FrameSize(Run(0, staged)) <= buf_len'
              => LibraryInv'
<1>1. UNCHANGED <<script, sent, staged, pads, over, looked, handed, flag>>
  BY DEF libraryVars
<1>2. Written'
  BY <1>1 DEF Written
<1>3. FrameSize(Run(0, staged))' = FrameSize(Run(0, staged))
  BY <1>1 DEF FrameSize, Run
<1> QED
  BY <1>1, <1>2, <1>3 DEF LibraryInv

LEMMA InitIsGood == DecodeInit => DecodeInv
<1> SUFFICES ASSUME DecodeInit PROVE DecodeInv
    OBVIOUS
<1> USE DEF DecodeInit, Init, CoreInit
<1>1. StreamInv
  BY InitEstablishes
<1>2. script.records \in Seq(Record) /\ script \in Scripts
  BY ScriptsAssumption
<1>3. LibraryInv
  <2>1. looked = None /\ looked # TRUE
    BY NoneIsNoValue, Zenon
  <2>2. 0 \in 0 .. Len(script.records)
    BY <1>2
  <2>3. over \in BOOLEAN /\ flag \in BOOLEAN
    BY Zenon
  <2> QED
    BY <1>2, <2>1, <2>2, <2>3 DEF LibraryInv
<1>4. Written
  <2>1. handed \in Seq(Record) /\ Len(handed) = 0 /\ SubSeq(script.records, 1, 0) = << >>
    BY <1>2
  <2> QED
    BY <2>1 DEF Written
<1>5. Delivered /\ InBuffer /\ Notice /\ CancelIsNoticed
  BY DEF Delivered, InBuffer, Notice, CancelIsNoticed
<1>6. NoFalseAlarm /\ answer.tag # "error" /\ EverythingPulledComesOut
  BY DEF NoFalseAlarm, NotYet, EverythingPulledComesOut
<1> QED
  BY <1>1, <1>3, <1>4, <1>5, <1>6 DEF DecodeInv

LEMMA AskIsGood == DecodeInv /\ Ask => DecodeInv'
<1> SUFFICES ASSUME DecodeInv, Ask PROVE DecodeInv'
    OBVIOUS
<1>1. /\ pc = "idle" /\ pc' = "loop"
      /\ UNCHANGED <<core, grown, answer, libraryVars, threadVars, delivered>>
  BY DEF Ask, Call
<1>2. StreamInv'
  BY CallPreserves DEF Ask, DecodeInv
<1> USE <1>1 DEF core, buffer, flags, counters, landmarks, threadVars, libraryVars
<1>3. LibraryInv' /\ Written'
  BY LibraryRests DEF DecodeInv, LibraryInv
<1>4. Delivered'
  BY DEF DecodeInv, Delivered
<1>5. InBuffer'
  BY DEF DecodeInv, InBuffer, Reading, LastBatch
<1>6. Notice' /\ CancelIsNoticed'
  BY DEF DecodeInv, Notice, CancelIsNoticed
<1>7. NoFalseAlarm' /\ (answer'.tag = "error" => finished') /\ EverythingPulledComesOut'
  BY DEF DecodeInv, NoFalseAlarm, Run, EverythingPulledComesOut
<1> QED
  BY <1>2, <1>3, <1>4, <1>5, <1>6, <1>7 DEF DecodeInv

LEMMA AfterTheEndIsGood == DecodeInv /\ Turn /\ AfterTheEnd => DecodeInv'
<1> SUFFICES ASSUME DecodeInv, Turn, AfterTheEnd PROVE DecodeInv'
    OBVIOUS
<1>1. /\ pc = "loop" /\ finished /\ pc' = "idle" /\ answer'.tag = "none"
      /\ UNCHANGED <<core, grown, libraryVars, threadVars>>
  BY DEF AfterTheEnd, Return, End, Turn
<1>2. delivered' = delivered
  BY <1>1 DEF Turn
<1>3. StreamInv'
  BY EndPreserves DEF DecodeInv
<1> USE <1>1, <1>2 DEF core, buffer, flags, counters, landmarks, threadVars, libraryVars
<1>4. LibraryInv' /\ Written'
  BY LibraryRests DEF DecodeInv, LibraryInv
<1>5. Delivered' /\ InBuffer'
  BY DEF DecodeInv, Delivered, InBuffer
<1>6. Notice' /\ CancelIsNoticed'
  BY DEF DecodeInv, Notice, CancelIsNoticed
<1>7. NoFalseAlarm' /\ answer'.tag # "error" /\ EverythingPulledComesOut'
  BY DEF DecodeInv, NoFalseAlarm, EverythingPulledComesOut
<1> QED
  BY <1>3, <1>4, <1>5, <1>6, <1>7 DEF DecodeInv

\* The stream ends behind the last record of the last batch.
LEMMA EndStreamIsGood ==
    DecodeInv /\ Turn /\ EndStream =>
        DecodeInv' /\ Len(delivered) = Len(handed) /\ delivered' = delivered
<1> SUFFICES ASSUME DecodeInv, Turn, EndStream
             PROVE  DecodeInv' /\ Len(delivered) = Len(handed) /\ delivered' = delivered
    OBVIOUS
<1>1. /\ pc = "loop" /\ ~finished /\ cursor >= batch_len /\ native_done
      /\ pc' = "idle" /\ answer'.tag = "none" /\ finished' = TRUE
      /\ UNCHANGED <<buffer, native_done, empty_batches_in_a_row, counters, landmarks,
                     grown, libraryVars, threadVars>>
  BY DEF EndStream, Drained, stop, Return, End, Turn
<1>2. delivered' = delivered
  BY <1>1 DEF Turn
<1>3. StreamInv'
  BY EndPreserves DEF DecodeInv
<1>4. Len(delivered) = Len(handed) /\ delivered = Given(handed)
  BY <1>1, DrainedIsGiven, AllIsGiven DEF DecodeInv, Written
<1> USE <1>1, <1>2 DEF buffer, counters, landmarks, threadVars, libraryVars
<1>5. LibraryInv' /\ Written'
  BY LibraryRests DEF DecodeInv, LibraryInv
<1>6. Delivered' /\ InBuffer'
  BY DEF DecodeInv, Delivered, InBuffer
<1>7. Notice' /\ CancelIsNoticed'
  BY DEF DecodeInv, Notice, CancelIsNoticed
<1>8. NoFalseAlarm' /\ answer'.tag # "error" /\ EverythingPulledComesOut'
  BY <1>4 DEF NoFalseAlarm, EverythingPulledComesOut
<1> QED
  BY <1>3, <1>4, <1>5, <1>6, <1>7, <1>8 DEF DecodeInv

\* A call of the library begins with nothing committed to and nothing looked at.
LEMMA PullIsGood == DecodeInv /\ Turn /\ Pull => DecodeInv'
<1> SUFFICES ASSUME DecodeInv, Turn, Pull PROVE DecodeInv'
    OBVIOUS
<1>1. /\ pc = "loop" /\ ~finished /\ pc' = "native" /\ grown' = FALSE
      /\ UNCHANGED <<core, answer, libraryVars, threadVars>>
  BY DEF Pull, Drained, CallLibrary, Turn
<1>2. delivered' = delivered
  BY <1>1 DEF Turn
<1>3. StreamInv'
  BY PullPreserves DEF DecodeInv
<1> USE <1>1, <1>2 DEF core, buffer, flags, counters, landmarks, threadVars, libraryVars
<1>4. LibraryInv' /\ Written'
  BY LibraryRests DEF DecodeInv, LibraryInv
<1>5. Delivered' /\ InBuffer'
  BY DEF DecodeInv, Delivered, InBuffer, Reading, LastBatch
<1>6. CancelIsNoticed'
  BY DEF DecodeInv, CancelIsNoticed
<1>7. Notice'
  <2>1. staged = None /\ looked = None
    BY DEF DecodeInv, LibraryInv
  <2>2. looked # FALSE
    BY <2>1, NoneIsNoValue, Zenon
  <2>3. staged' = None /\ looked' # FALSE
    BY <2>1, <2>2, Zenon
  <2> QED
    BY <2>3 DEF DecodeInv, Notice
<1>8. NoFalseAlarm' /\ (answer'.tag = "error" => finished') /\ EverythingPulledComesOut'
  BY DEF DecodeInv, NoFalseAlarm, EverythingPulledComesOut
<1> QED
  BY <1>3, <1>4, <1>5, <1>6, <1>7, <1>8 DEF DecodeInv

\* The next record of the batch comes out, in its place.
LEMMA YieldIsGood ==
    DecodeInv /\ Turn /\ YieldRecord =>
        /\ DecodeInv'
        /\ Len(delivered) + 1 \in 1 .. Len(handed)
        /\ delivered' = Append(delivered, Item(handed[Len(delivered) + 1]))
<1> DEFINE k == Len(delivered) + 1
           a == next(buf, Resumed)
<1> SUFFICES ASSUME DecodeInv, Turn, YieldRecord
             PROVE  /\ DecodeInv' /\ k \in 1 .. Len(handed)
                    /\ delivered' = Append(delivered, Item(handed[k]))
    OBVIOUS
<1>1. /\ pc = "loop" /\ ~finished /\ pc' = "idle" /\ InBatch
      /\ cursor' = Offset(a.r) /\ records_seen' = Count(records_seen)
      /\ document_end' = IF a.kind = "DocumentEnd" THEN a.total ELSE document_end
      /\ answer' = Item(a)
      /\ UNCHANGED <<buf_len, buf, batch_len, flags, batches_pulled, grown, libraryVars,
                     threadVars>>
  BY DEF YieldRecord, InBatch, Return, Turn
<1>2. /\ k \in 1 .. Len(handed)
      /\ a.kind = handed[k].kind /\ a.total = handed[k].total
  BY <1>1, NextRecord
<1>3. PICK m \in 0 .. Len(delivered) :
          /\ buf = Frame(LastBatch(m)) /\ batch_len = FrameSize(LastBatch(m))
          /\ Offset(a.r) = BATCH_HEADER_LEN + Ends(LastBatch(m))[k - m]
  BY <1>1, NextRecord
<1> HIDE DEF a
<1>4. answer' = Item(handed[k]) /\ answer'.tag = "item"
  BY <1>1, <1>2 DEF Item
<1>5. delivered' = Append(delivered, Item(handed[k]))
  BY <1>1, <1>4 DEF Turn
<1>6. StreamInv'
  BY YieldRecordPreserves DEF DecodeInv
<1> USE DEF flags, threadVars, libraryVars
<1>7. LibraryInv' /\ Written'
  BY <1>1, LibraryRests DEF DecodeInv, LibraryInv
<1>8. Len(delivered') = k
  <2>1. delivered = [i \in 1 .. Len(delivered) |-> Item(handed[i])] /\ Len(delivered) \in Nat
    BY Lengths DEF DecodeInv, Delivered
  <2>2. delivered \in Seq({Item(handed[i]) : i \in 1 .. Len(delivered)})
    BY <2>1
  <2> QED
    BY <1>5, <2>2
<1>9. Delivered'
  <2>1. delivered' = [i \in 1 .. k |-> Item(handed[i])]
    <3>1. delivered = [i \in 1 .. Len(delivered) |-> Item(handed[i])] /\ Len(delivered) \in Nat
      BY Lengths DEF DecodeInv, Delivered
    <3> QED
      BY <1>5, <3>1
  <2>2. records_seen' = k
    <3>1. k \in Nat /\ k < CounterLimit /\ CounterLimit \in Nat /\ Len(delivered) + 1 = k
      BY <1>2, Lengths, CountersAssumption
    <3>2. k % CounterLimit = k
      BY <3>1
    <3>3. records_seen = Len(delivered)
      BY DEF DecodeInv, Delivered
    <3> QED
      BY <1>1, <3>2, <3>3 DEF Count
  <2>3. document_end' # None => document_end' = Len(script.records)
    <3>1. CASE a.kind = "DocumentEnd"
      <4>1. PICK j \in 1 .. Len(script.records) : handed[k] = script.records[j]
        BY <1>2 DEF DecodeInv, Written
      <4>2. j \in DOMAIN script.records
        BY Lengths
      <4>3. handed[k].kind = "DocumentEnd"
        BY <1>2, <3>1
      <4>4. handed[k].total = Len(script.records)
        BY <4>1, <4>2, <4>3, ScriptsAssumption DEF DecodeInv, LibraryInv
      <4> QED
        BY <1>1, <1>2, <3>1, <4>4
    <3>2. CASE a.kind # "DocumentEnd"
      BY <1>1, <3>2 DEF DecodeInv, Delivered
    <3> QED
      BY <3>1, <3>2
  <2>4. k \in 0 .. Len(handed)
    BY <1>2
  <2> QED
    BY <1>1, <1>8, <2>1, <2>2, <2>3, <2>4 DEF Delivered
<1>10. InBuffer'
  <2>1. m \in 0 .. Len(delivered')
    BY <1>8, Lengths
  <2>2. LastBatch(m)' = LastBatch(m)
    BY <1>1 DEF LastBatch
  <2>3. Reading(m)'
    BY <1>1, <1>3, <1>8, <2>2 DEF Reading
  <2> QED
    BY <2>1, <2>3 DEF InBuffer
<1>11. Notice' /\ CancelIsNoticed'
  BY <1>1 DEF DecodeInv, Notice, CancelIsNoticed
<1>12. NoFalseAlarm' /\ answer'.tag # "error" /\ EverythingPulledComesOut'
  BY <1>1, <1>4 DEF NoFalseAlarm, EverythingPulledComesOut
<1> QED
  BY <1>2, <1>5, <1>6, <1>7, <1>9, <1>10, <1>11, <1>12 DEF DecodeInv

\* A record of this library is never refused.
LEMMA NothingIsRefused == DecodeInv => ~RefuseRecord
BY NextRecord DEF RefuseRecord

LEMMA TurnIsGood == DecodeInv /\ Turn => DecodeInv'
BY AfterTheEndIsGood, EndStreamIsGood, PullIsGood, YieldIsGood, NothingIsRefused
   DEF Turn, NextItem

-----------------------------------------------------------------------------
(* The library's thread, and the one that cancels *)

\* The records of a batch, and its bytes.
LEMMA RunIs ==
    ASSUME DecodeInv, NEW skipped \in 0 .. Remaining, NEW n \in 0 .. Remaining,
           skipped + n <= Remaining
    PROVE  /\ Run(skipped, n) \in Seq(Record) /\ Len(Run(skipped, n)) = n
           /\ \A i \in 1 .. n : Run(skipped, n)[i] = script.records[sent + skipped + i]
           /\ FrameSize(Run(skipped, n)) \in Nat
           /\ FrameSize(Run(skipped, n)) >= BATCH_HEADER_LEN
           /\ FrameSize(Run(skipped, n)) = BATCH_HEADER_LEN <=> n = 0
<1> DEFINE rs == Run(skipped, n)
<1>1. /\ script.records \in Seq(Record) /\ sent \in Nat /\ skipped \in Nat /\ n \in Nat
      /\ sent + skipped + n <= Len(script.records) /\ Len(script.records) \in Nat
  BY Lengths DEF Remaining
<1>2. /\ rs \in Seq(Record) /\ Len(rs) = n
      /\ \A i \in 1 .. n : rs[i] = script.records[sent + skipped + i]
  BY <1>1 DEF Run
<1> HIDE DEF rs
<1>3. /\ FrameSize(rs) \in Nat /\ FrameSize(rs) >= BATCH_HEADER_LEN
      /\ FrameSize(rs) = BATCH_HEADER_LEN + Ends(rs)[n]
  BY <1>2, FrameFields DEF FrameSize
<1>4. Ends(rs)[0] = 0
  BY <1>2, EndsAre
<1>5. 0 \in 0 .. Len(rs) /\ n \in 0 .. Len(rs)
  BY <1>1, <1>2
<1>6. Ends(rs)[n] = Ends(rs)[0] <=> n = 0
  BY <1>2, <1>5, EndsTellApart
<1>7. Ends(rs)[n] \in Nat
  BY <1>2, <1>5, EndsAreWords
<1> QED
  BY <1>2, <1>3, <1>4, <1>6, <1>7 DEF rs, BATCH_HEADER_LEN

\* In a call of the library the buffer has been given whole, and nothing has
\* been reported or refused.
LEMMA InCall ==
    ASSUME DecodeInv, pc = "native"
    PROVE  /\ ~finished /\ ~native_done /\ ~over /\ cursor >= batch_len
           /\ empty_batches_in_a_row = pads
           /\ Len(delivered) = Len(handed) /\ delivered = Given(handed)
           /\ IsBytes(buf)
<1>1. ~finished /\ ~native_done /\ cursor >= batch_len
  BY InPull DEF DecodeInv
<1>2. Len(delivered) = Len(handed)
  BY <1>1, DrainedIsGiven
<1>3. delivered = Given(handed)
  BY <1>2, AllIsGiven DEF DecodeInv, Written
<1> QED
  BY <1>1, <1>2, <1>3 DEF DecodeInv, LibraryInv, StreamInv, TypeOK

LEMMA LookIsGood == DecodeInv /\ LookAtFlag => DecodeInv'
<1> SUFFICES ASSUME DecodeInv, LookAtFlag PROVE DecodeInv'
    OBVIOUS
<1>1. /\ pc = "native" /\ looked = None /\ looked' = flag
      /\ UNCHANGED <<streamVars, script, sent, staged, pads, over, handed, threadVars,
                     delivered>>
  BY DEF LookAtFlag
<1>2. StreamInv'
  BY <1>1, StutterPreserves DEF DecodeInv
<1> USE DEF streamVars, core, control, buffer, flags, counters, landmarks, threadVars
<1>3. Written' /\ Delivered' /\ InBuffer'
  BY <1>1 DEF DecodeInv, Written, Delivered, InBuffer, Reading, LastBatch
<1>4. LibraryInv'
  <2>1. looked' \in BOOLEAN /\ (looked' = TRUE => flag') /\ pc' = "native"
    BY <1>1 DEF DecodeInv, LibraryInv
  <2> QED
    BY <1>1, <2>1 DEF DecodeInv, LibraryInv, FrameSize, Run
<1>5. CancelIsNoticed'
  BY <1>1 DEF DecodeInv, CancelIsNoticed
<1>6. Notice'
  <2>1. noticeBy # None => looked' # FALSE
    BY <1>1 DEF DecodeInv, Notice
  <2>2. looked # FALSE
    BY <1>1, NoneIsNoValue, Zenon
  <2> QED
    BY <1>1, <2>1, <2>2 DEF DecodeInv, Notice
<1>7. NoFalseAlarm' /\ (answer'.tag = "error" => finished') /\ EverythingPulledComesOut'
  BY <1>1 DEF DecodeInv, NoFalseAlarm, Run, EverythingPulledComesOut
<1> QED
  BY <1>2, <1>3, <1>4, <1>5, <1>6, <1>7 DEF DecodeInv

LEMMA CancelIsGood == DecodeInv /\ Cancel => DecodeInv'
<1> SUFFICES ASSUME DecodeInv, Cancel PROVE DecodeInv'
    OBVIOUS
<1>1. /\ flag' = TRUE
      /\ noticeBy' = IF finished THEN None
                     ELSE IF pc = "native" THEN batches_pulled + 1 ELSE batches_pulled
      /\ UNCHANGED <<streamVars, libraryVars, delivered>>
  BY DEF Cancel
<1>2. StreamInv'
  BY <1>1, StutterPreserves DEF DecodeInv
<1> USE DEF streamVars, core, control, buffer, flags, counters, landmarks, libraryVars
<1>3. Written' /\ Delivered' /\ InBuffer'
  BY <1>1 DEF DecodeInv, Written, Delivered, InBuffer, Reading, LastBatch
<1>4. LibraryInv'
  BY <1>1 DEF DecodeInv, LibraryInv, FrameSize, Run
<1>5. batches_pulled \in Nat
  BY Lengths
<1>6. Notice' /\ CancelIsNoticed'
  <2>1. flag' /\ batches_pulled' = batches_pulled /\ pc' = pc
    BY <1>1
  <2>2. noticeBy' \in Nat \cup {None} /\ (noticeBy' # None => batches_pulled <= noticeBy')
    BY <1>1, <1>5
  <2>3. pc = "native" => ~finished
    BY InCall
  <2>4. noticeBy' # None /\ pc = "native" => batches_pulled + 1 <= noticeBy'
    BY <1>1, <1>5, <2>3
  <2> QED
    BY <2>1, <2>2, <2>4 DEF Notice, CancelIsNoticed
<1>7. NoFalseAlarm' /\ (answer'.tag = "error" => finished') /\ EverythingPulledComesOut'
  BY <1>1 DEF DecodeInv, NoFalseAlarm, Run, EverythingPulledComesOut
<1> QED
  BY <1>2, <1>3, <1>4, <1>5, <1>6, <1>7 DEF DecodeInv

\* A refusal, for a reason of the library or for want of room, ends the stream
\* and leaves what was written and given.
LEMMA RefusalIsGood ==
    ASSUME DecodeInv, NEW a, IsAnswer(a), RefusePull(a), a.bytes = buf,
           UNCHANGED <<script, sent, pads, handed, threadVars, delivered>>,
           looked' = None, over' \in BOOLEAN, staged' \in Nat \cup {None},
           NoFalseAlarm'
    PROVE  DecodeInv'
<1>1. /\ pc = "native" /\ pc' = "idle" /\ finished' = TRUE /\ buf' = buf
      /\ UNCHANGED <<buf_len, batch_len, cursor, native_done, counters, landmarks, grown>>
  BY DEF RefusePull, Return, stop
<1>2. StreamInv'
  BY RefusePullPreserves DEF DecodeInv
<1>3. delivered = Given(handed)
  BY <1>1, InCall
<1> USE DEF counters, landmarks, threadVars
<1>4. Written' /\ Delivered' /\ InBuffer'
  BY <1>1 DEF DecodeInv, Written, Delivered, InBuffer
<1>5. LibraryInv'
  <2>1. looked' # TRUE
    BY NoneIsNoValue, Zenon
  <2> QED
    BY <1>1, <2>1 DEF DecodeInv, LibraryInv
<1>6. Notice' /\ CancelIsNoticed'
  BY <1>1 DEF DecodeInv, Notice, CancelIsNoticed
<1>7. EverythingPulledComesOut'
  BY <1>3 DEF EverythingPulledComesOut, Given
<1> QED
  BY <1>1, <1>2, <1>4, <1>5, <1>6, <1>7 DEF DecodeInv

\* An answer with an error of the library's own ends the stream in that error.
LEMMA OwnRefusal ==
    ASSUME NEW code, code \notin {"OK", "BUFFER_TOO_SMALL"}, Receive(Refusal(code))
    PROVE  /\ RefusePull(Refusal(code))
           /\ PullError(Refusal(code)) = from_native_code(code)
<1>1. Refusal(code).code = code
  BY DEF Refusal
<1>2. RefusePull(Refusal(code))
  BY <1>1 DEF Receive, TakeBatch, GrowBuffer
<1>3. PullError(Refusal(code)) = from_native_code(Refusal(code).code)
  BY <1>1 DEF PullError
<1> QED
  BY <1>1, <1>2, <1>3

LEMMA RefuseIsGood == DecodeInv /\ Refuse => DecodeInv'
<1> SUFFICES ASSUME DecodeInv, Refuse PROVE DecodeInv'
    OBVIOUS
<1>1. /\ pc = "native" /\ looked # None /\ looked' = None /\ over' = TRUE
      /\ UNCHANGED <<script, sent, staged, pads, handed, threadVars, delivered>>
  BY DEF Refuse, Answering
<1>2. PICK code : /\ code \notin {"OK", "BUFFER_TOO_SMALL"}
                  /\ Receive(Refusal(code))
                  /\ (code = "CANCELED" /\ looked) \/ code = script.ends
  <2>1. script.ends # "BUFFER_TOO_SMALL"
    BY ScriptsAssumption DEF DecodeInv, LibraryInv
  <2> QED
    BY <2>1 DEF Refuse
<1>3. /\ RefusePull(Refusal(code))
      /\ PullError(Refusal(code)) = from_native_code(code)
  BY <1>2, OwnRefusal
<1>4. IsAnswer(Refusal(code)) /\ Refusal(code).bytes = buf
  BY <1>1, InCall DEF IsAnswer, Refusal
<1>5. answer'.error = from_native_code(code)
  BY <1>3 DEF RefusePull, Return, Err
<1>6. NoFalseAlarm'
  <2>1. CASE code = "CANCELED" /\ looked
    <3>1. from_native_code(code) = "CANCELED"
      BY <2>1 DEF from_native_code
    <3>2. flag
      <4>1. looked = TRUE
        BY <1>1, <2>1, Zenon DEF DecodeInv, LibraryInv
      <4> QED
        BY <4>1 DEF DecodeInv, LibraryInv
    <3>3. flag'
      BY <1>1, <3>2 DEF threadVars
    <3> QED
      BY <1>5, <3>1, <3>3 DEF NoFalseAlarm
  <2>2. CASE code = script.ends
    BY <1>1, <1>5, <2>2 DEF NoFalseAlarm, from_native_code
  <2> QED
    BY <1>2, <2>1, <2>2
<1>7. over' \in BOOLEAN /\ staged' \in Nat \cup {None}
  BY <1>1 DEF DecodeInv, LibraryInv
<1> QED
  BY <1>1, <1>3, <1>4, <1>6, <1>7, RefusalIsGood

\* Asking for room is answered with room, once, or refused for good when the
\* batch is larger than the ceiling.
LEMMA AskForRoomIsGood == DecodeInv /\ AskForRoom => DecodeInv'
<1> SUFFICES ASSUME DecodeInv, AskForRoom PROVE DecodeInv'
    OBVIOUS
<1>1. /\ pc = "native" /\ looked # None /\ looked' = None
      /\ looked => staged # None
      /\ UNCHANGED <<script, sent, pads, over, handed, threadVars, delivered>>
  BY DEF AskForRoom, GoesOn, Answering
<1> DEFINE ask(n) == [code |-> "BUFFER_TOO_SMALL", written |-> FrameSize(Run(0, n)),
                      done |-> FALSE, bytes |-> buf]
<1>2. PICK n \in 1 .. Remaining :
          /\ staged \in {None, n} /\ FrameSize(Run(0, n)) > buf_len
          /\ Receive(ask(n)) /\ staged' = n
  BY DEF AskForRoom
<1> DEFINE a == ask(n)
           size == FrameSize(Run(0, n))
<1>3. size \in Nat /\ size > buf_len /\ n \in Nat /\ n # None
  <2>1. Remaining \in Nat /\ n \in 0 .. Remaining /\ 0 \in 0 .. Remaining /\ 0 + n <= Remaining
    BY Lengths DEF Remaining
  <2> QED
    BY <1>2, <2>1, RunIs, NoneIsNoValue
<1>4. FrameSize(Run(0, staged))' = size
  BY <1>1, <1>2 DEF FrameSize, Run
<1> HIDE DEF size
<1>5. a.code = "BUFFER_TOO_SMALL" /\ a.written = size /\ a.bytes = buf
  BY DEF size
<1>6. IsAnswer(a)
  BY <1>1, <1>3, InCall DEF IsAnswer, size
<1> HIDE DEF a
<1>7. ~grown
  <2>1. grown => staged = n /\ size <= buf_len
    BY <1>1, <1>2 DEF DecodeInv, LibraryInv, size
  <2> QED
    BY <2>1, <1>3, Lengths
<1>8. PullError(a) = IF size > max_batch_bytes THEN "BatchTooLarge" ELSE None
  BY <1>3, <1>5, <1>7, InitialSize, SizesAssumption, Lengths DEF PullError
<1>9. Receive(a)
  BY <1>2 DEF a
<1>10. CASE GrowBuffer(a)
  <2>1. /\ pc' = "native" /\ buf' = buf /\ buf_len' = size /\ grown' = TRUE
        /\ UNCHANGED <<batch_len, cursor, flags, counters, landmarks, answer>>
    BY <1>5, <1>10 DEF GrowBuffer, CallLibrary
  <2>2. StreamInv'
    BY <1>6, <1>10, GrowBufferPreserves DEF DecodeInv
  <2> USE DEF flags, counters, landmarks, threadVars
  <2>3. Written' /\ Delivered' /\ InBuffer'
    BY <1>1, <2>1 DEF DecodeInv, Written, Delivered, InBuffer, Reading, LastBatch
  <2>4. LibraryInv'
    <3>1. looked' # TRUE
      BY <1>1, NoneIsNoValue, Zenon
    <3>2. staged' # None /\ FrameSize(Run(0, staged))' <= buf_len'
      BY <1>2, <1>3, <1>4, <2>1
    <3>3. looked' \in BOOLEAN \cup {None} /\ staged' \in Nat \cup {None}
      BY <1>1, <1>2, <1>3, Zenon
    <3> QED
      BY <1>1, <2>1, <3>1, <3>2, <3>3 DEF DecodeInv, LibraryInv
  <2>5. CancelIsNoticed'
    BY <1>1, <2>1 DEF DecodeInv, CancelIsNoticed
  <2>6. Notice'
    <3>1. noticeBy # None => batches_pulled + 1 <= noticeBy
      <4>1. CASE looked = FALSE
        BY <1>1, <4>1 DEF DecodeInv, Notice
      <4>2. CASE looked # FALSE
        <5>1. looked
          BY <1>1, <4>2, Zenon DEF DecodeInv, LibraryInv
        <5> QED
          BY <1>1, <5>1 DEF DecodeInv, Notice
      <4> QED
        BY <4>1, <4>2
    <3> QED
      BY <1>1, <2>1, <3>1 DEF DecodeInv, Notice
  <2>7. NoFalseAlarm' /\ (answer'.tag = "error" => finished') /\ EverythingPulledComesOut'
    BY <1>1, <2>1, InCall DEF DecodeInv, NoFalseAlarm, EverythingPulledComesOut
  <2> QED
    BY <2>2, <2>3, <2>4, <2>5, <2>6, <2>7 DEF DecodeInv
<1>11. CASE RefusePull(a)
  <2>1. size > max_batch_bytes /\ PullError(a) = "BatchTooLarge"
    BY <1>8, <1>11 DEF RefusePull
  <2>2. answer'.error = "BatchTooLarge"
    BY <2>1, <1>11 DEF RefusePull, Return, Err
  <2>3. NoFalseAlarm'
    <3>1. FrameSize(Run(0, staged))' > max_batch_bytes
      BY <1>4, <2>1
    <3> QED
      BY <1>2, <1>3, <2>2, <3>1 DEF NoFalseAlarm, max_batch_bytes
  <2>4. over' \in BOOLEAN /\ staged' \in Nat \cup {None}
    BY <1>1, <1>2, <1>3 DEF DecodeInv, LibraryInv
  <2> QED
    BY <1>1, <1>5, <1>6, <1>11, <2>3, <2>4, RefusalIsGood
<1>12. ~TakeBatch(a)
  BY <1>5 DEF TakeBatch
<1> QED
  BY <1>9, <1>10, <1>11, <1>12 DEF Receive

\* What is written lies behind what was, and is the first of the script as long
\* as nothing was skipped.
LEMMA WrittenMore ==
    ASSUME DecodeInv, NEW skipped \in 0 .. Remaining, NEW n \in 0 .. Remaining,
           skipped + n <= Remaining, skipped > 0 => script.lossy,
           script' = script, sent' = sent + skipped + n,
           handed' = handed \o Run(skipped, n)
    PROVE  /\ Written'
           /\ Len(handed') = Len(handed) + n
           /\ \A i \in 1 .. Len(handed) : handed'[i] = handed[i]
           /\ SubSeq(handed', Len(handed) + 1, Len(handed')) = Run(skipped, n)
<1> DEFINE rs == Run(skipped, n)
           all == script.records
<1>1. /\ all \in Seq(Record) /\ sent \in Nat /\ Len(all) \in Nat /\ skipped \in Nat /\ n \in Nat
      /\ sent + skipped + n <= Len(all) /\ handed \in Seq(Record)
      /\ Len(handed) \in Nat /\ Len(handed) <= sent
  BY Lengths DEF Remaining, DecodeInv, Written
<1>2. /\ rs \in Seq(Record) /\ Len(rs) = n
      /\ \A i \in 1 .. n : rs[i] = all[sent + skipped + i]
  BY RunIs
<1>3. rs = SubSeq(all, sent + skipped + 1, sent + skipped + n)
  BY DEF Run
<1> HIDE DEF rs
<1>4. /\ handed' \in Seq(Record) /\ Len(handed') = Len(handed) + n
      /\ \A i \in 1 .. Len(handed) : handed'[i] = handed[i]
      /\ \A i \in 1 .. n : handed'[Len(handed) + i] = rs[i]
  <2>1. handed' = handed \o rs
    BY DEF rs
  <2> QED
    BY <1>1, <1>2, <2>1
<1>5. ASSUME NEW i \in 1 .. Len(handed')
      PROVE  \E j \in 1 .. Len(all) : handed'[i] = all[j]
  <2>1. CASE i <= Len(handed)
    BY <1>1, <1>4, <2>1 DEF DecodeInv, Written
  <2>2. CASE ~(i <= Len(handed))
    <3>1. i - Len(handed) \in 1 .. n /\ i = Len(handed) + (i - Len(handed))
      BY <1>1, <1>4, <2>2
    <3>2. handed'[i] = all[sent + skipped + (i - Len(handed))]
      BY <1>2, <1>4, <3>1
    <3>3. sent + skipped + (i - Len(handed)) \in 1 .. Len(all)
      BY <1>1, <3>1, SMTT(30)
    <3> QED
      BY <3>2, <3>3
  <2> QED
    BY <2>1, <2>2
<1>6. Len(handed') = sent' => handed' = SubSeq(all, 1, sent')
  <2> SUFFICES ASSUME Len(handed') = sent' PROVE handed' = SubSeq(all, 1, sent')
      OBVIOUS
  <2>1. skipped = 0 /\ Len(handed) = sent
    BY <1>1, <1>4
  <2>2. handed = SubSeq(all, 1, sent)
    BY <2>1 DEF DecodeInv, Written
  <2>3. handed' = SubSeq(all, 1, sent) \o SubSeq(all, sent + 1, sent + n)
    BY <1>1, <1>3, <2>1, <2>2 DEF rs
  <2>4. SubSeq(all, 1, sent) \o SubSeq(all, sent + 1, sent + n) = SubSeq(all, 1, sent + n)
    <3>1. /\ 1 \in 1 .. Len(all) + 1 /\ sent \in 1 - 1 .. Len(all)
          /\ sent + n \in sent .. Len(all) /\ all \in Seq(Record)
      BY <1>1
    <3> HIDE DEF all
    <3>2. \A i \in 1 .. Len(all) + 1 : \A k \in i - 1 .. Len(all) : \A m \in k .. Len(all) :
              SubSeq(all, i, k) \o SubSeq(all, k + 1, m) = SubSeq(all, i, m)
      BY <3>1, ConcatAdjacentSubSeq
    <3> QED
      BY <3>1, <3>2
  <2>5. sent' = sent + n
    BY <1>1, <2>1
  <2> QED
    BY <2>3, <2>4, <2>5
<1>7. ~script.lossy => Len(handed') = sent'
  BY <1>1, <1>4 DEF DecodeInv, Written
<1>8. Written'
  BY <1>1, <1>4, <1>5, <1>6, <1>7, SMTT(30) DEF Written
<1>9. SubSeq(handed', Len(handed) + 1, Len(handed')) = rs
  <2> DEFINE t == SubSeq(handed', Len(handed) + 1, Len(handed'))
  <2>1. /\ t \in Seq(Record) /\ Len(t) = n
        /\ \A i \in 1 .. n : t[i] = handed'[Len(handed) + i]
    BY <1>1, <1>4, LastBatchIs, SMTT(30)
  <2> HIDE DEF t
  <2>2. Len(t) = Len(rs) /\ \A i \in 1 .. Len(t) : t[i] = rs[i]
    BY <1>1, <1>2, <1>4, <2>1
  <2>3. t = rs
    BY <1>2, <2>1, <2>2, SeqEqual
  <2> QED
    BY <2>3 DEF t
<1> QED
  BY <1>4, <1>8, <1>9 DEF rs

\* A batch that this library writes is taken: none is malformed, larger than the
\* room there is, or payload-free once too often.
LEMMA BatchIsTaken ==
    ASSUME DecodeInv, pc = "native", NEW skipped \in 0 .. Remaining, NEW n \in 0 .. Remaining,
           NEW done \in BOOLEAN, skipped + n <= Remaining,
           FrameSize(Run(skipped, n)) <= buf_len,
           n = 0 /\ ~done => pads < PadMax,
           NEW a, a = [code |-> "OK", written |-> FrameSize(Run(skipped, n)),
                       done |-> done, bytes |-> Frame(Run(skipped, n))],
           Receive(a)
    PROVE  /\ IsAnswer(a) /\ TakeBatch(a)
           /\ empty_batches_in_a_row' = IF n = 0 /\ ~done THEN pads + 1 ELSE 0
<1> DEFINE rs == Run(skipped, n)
<1>1. /\ rs \in Seq(Record) /\ FrameSize(rs) \in Nat /\ FrameSize(rs) >= BATCH_HEADER_LEN
      /\ FrameSize(rs) = BATCH_HEADER_LEN <=> n = 0
  BY RunIs
<1>2. FrameSize(rs) <= buf_len
  OBVIOUS
<1>3. a.code = "OK" /\ a.written = FrameSize(rs) /\ a.done = done /\ a.bytes = Frame(rs)
  OBVIOUS
<1> HIDE DEF rs
<1>4. IsAnswer(a)
  <2>1. IsBytes(a.bytes)
    BY <1>1, <1>3, FrameIsBytes
  <2> QED
    BY <1>1, <1>3, <2>1 DEF IsAnswer
<1>5. empty_batches_in_a_row = pads /\ pads \in Nat
  BY InCall DEF DecodeInv, LibraryInv
<1>6. EmptyBatches(a) = IF n = 0 /\ ~done THEN pads + 1 ELSE 0
  BY <1>1, <1>3, <1>5 DEF EmptyBatches, IsEmptyBatch
<1>7. ~(EmptyBatches(a) > MaxEmptyBatches)
  BY <1>5, <1>6, ScriptsAssumption, CountersAssumption
<1>8. SizeInBuffer(a) /\ ~(a.written > HostMax)
  <2>1. buf_len <= HostMax /\ buf_len \in Nat
    BY InitialSize, SizesAssumption, Numbers DEF DecodeInv, BATCH_HEADER_LEN
  <2> QED
    BY <1>1, <1>2, <1>3, <2>1, SizesAssumption DEF SizeInBuffer
<1>9. PullError(a) = None
  BY <1>3, <1>7, <1>8 DEF PullError
<1>10. TakeBatch(a)
  BY <1>3, <1>9 DEF Receive, GrowBuffer, RefusePull
<1> QED
  BY <1>4, <1>6, <1>10 DEF TakeBatch

LEMMA WriteBatchIsGood == DecodeInv /\ WriteBatch => DecodeInv'
<1> SUFFICES ASSUME DecodeInv, WriteBatch PROVE DecodeInv'
    OBVIOUS
<1>1. /\ pc = "native" /\ looked # None /\ looked' = None /\ staged' = None
      /\ looked => staged # None
      /\ UNCHANGED <<script, flag, noticeBy, delivered>>
  BY DEF WriteBatch, GoesOn, Answering, threadVars
<1> DEFINE written(n, skipped, done) ==
               [code |-> "OK", written |-> FrameSize(Run(skipped, n)),
                done |-> done, bytes |-> Frame(Run(skipped, n))]
<1>2. PICK n \in 0 .. Remaining, skipped \in 0 .. Remaining, done \in BOOLEAN :
          /\ skipped > 0 => script.lossy
          /\ skipped + n <= Remaining
          /\ FrameSize(Run(skipped, n)) <= buf_len
          /\ done => skipped + n = Remaining
          /\ n = 0 /\ ~done => pads < PadMax
          /\ Receive(written(n, skipped, done))
          /\ sent' = sent + skipped + n
          /\ pads' = IF n = 0 /\ ~done THEN pads + 1 ELSE 0
          /\ over' = done
          /\ handed' = handed \o Run(skipped, n)
  BY ZenonT(40) DEF WriteBatch
<1> DEFINE rs == Run(skipped, n)
           a  == written(n, skipped, done)
<1>3. /\ IsAnswer(a) /\ TakeBatch(a)
      /\ empty_batches_in_a_row' = IF n = 0 /\ ~done THEN pads + 1 ELSE 0
  BY <1>1, <1>2, BatchIsTaken
<1>4. rs \in Seq(Record) /\ Len(rs) = n
  BY <1>2, RunIs
<1>5. a.written = FrameSize(rs) /\ a.done = done /\ a.bytes = Frame(rs)
  OBVIOUS
<1>6. handed' = handed \o rs
  BY <1>2
<1>7. /\ Written' /\ Len(handed') = Len(handed) + n
      /\ \A i \in 1 .. Len(handed) : handed'[i] = handed[i]
      /\ SubSeq(handed', Len(handed) + 1, Len(handed')) = rs
  BY <1>1, <1>2, WrittenMore
<1> HIDE DEF a, rs, written
<1>8. /\ pc' = "loop" /\ buf' = Frame(rs) /\ batch_len' = FrameSize(rs)
      /\ cursor' = BATCH_HEADER_LEN /\ native_done' = done
      /\ batches_pulled' = Count(batches_pulled)
      /\ UNCHANGED <<buf_len, finished, failed, records_seen, warnings_seen, landmarks, grown,
                     answer, calls>>
  BY <1>3, <1>5 DEF TakeBatch
<1>9. StreamInv'
  BY <1>3, TakeBatchPreserves DEF DecodeInv
<1>10. Len(delivered) = Len(handed) /\ ~finished /\ ~over /\ Len(handed) \in Nat
  BY <1>1, InCall, Lengths
<1>11. LibraryInv'
  <2>1. looked' # TRUE /\ ~(looked' # None) /\ looked' \in BOOLEAN \cup {None}
    BY <1>1, NoneIsNoValue, Zenon
  <2>2. /\ sent' \in 0 .. Len(script.records)
        /\ done => sent' = Len(script.records)
    <3>1. /\ sent' = sent + skipped + n /\ skipped + n <= Remaining
          /\ done => skipped + n = Remaining
      BY <1>2
    <3>2. sent \in Nat /\ skipped \in Nat /\ n \in Nat /\ Len(script.records) \in Nat
      BY Lengths
    <3> QED
      BY <3>1, <3>2 DEF Remaining
  <2>3. pads' \in Nat
    BY <1>2 DEF DecodeInv, LibraryInv
  <2>4. over' \in BOOLEAN /\ (over' => native_done')
    BY <1>2, <1>8
  <2>5. script' \in Scripts /\ flag' \in BOOLEAN /\ script' = script
    BY <1>1 DEF DecodeInv, LibraryInv
  <2>6. empty_batches_in_a_row' = pads'
    BY <1>2, <1>3
  <2>7. pc' # "native"
    BY <1>8
  <2> QED
    BY <1>1, <1>8, <2>1, <2>2, <2>3, <2>4, <2>5, <2>6, <2>7 DEF LibraryInv
<1>12. Delivered'
  <2>1. [i \in 1 .. Len(delivered) |-> Item(handed'[i])]
            = [i \in 1 .. Len(delivered) |-> Item(handed[i])]
    BY <1>7, <1>10
  <2>2. Len(delivered) \in 0 .. Len(handed')
    BY <1>4, <1>7, <1>10
  <2> QED
    BY <1>1, <1>8, <2>1, <2>2 DEF landmarks, DecodeInv, Delivered
<1>13. InBuffer'
  <2>1. LastBatch(Len(delivered))' = rs
    BY <1>1, <1>7, <1>10 DEF LastBatch
  <2>2. cursor' = BATCH_HEADER_LEN + Ends(rs)[0]
    BY <1>4, <1>8, EndsAre DEF BATCH_HEADER_LEN
  <2>3. Len(delivered) \in 0 .. Len(delivered') /\ Len(delivered') - Len(delivered) = 0
    BY <1>1, <1>10
  <2>4. Reading(Len(delivered))'
    BY <1>1, <1>8, <2>1, <2>2, <2>3 DEF Reading
  <2> QED
    BY <1>1, <2>3, <2>4 DEF InBuffer
<1>14. Notice' /\ CancelIsNoticed'
  <2>1. noticeBy # None => batches_pulled + 1 <= noticeBy
    <3>1. CASE looked = FALSE
      BY <1>1, <3>1 DEF DecodeInv, Notice
    <3>2. CASE looked # FALSE
      <4>1. looked
        BY <1>1, <3>2, Zenon DEF DecodeInv, LibraryInv
      <4> QED
        BY <1>1, <4>1 DEF DecodeInv, Notice
    <3> QED
      BY <3>1, <3>2
  <2>2. batches_pulled' <= batches_pulled + 1
    <3>1. batches_pulled + 1 \in Nat /\ CounterLimit \in Nat \ {0}
      BY Lengths, CountersAssumption
    <3>2. (batches_pulled + 1) % CounterLimit <= batches_pulled + 1
      BY <3>1
    <3> QED
      BY <1>8, <3>2 DEF Count
  <2>3. batches_pulled' \in Nat
    BY <1>9, Numbers DEF StreamInv, TypeOK
  <2>4. noticeBy' # None => batches_pulled' <= noticeBy'
    <3>1. batches_pulled \in Nat /\ (noticeBy # None => noticeBy \in Nat) /\ noticeBy' = noticeBy
      BY <1>1, Lengths DEF DecodeInv, Notice
    <3> QED
      BY <2>1, <2>2, <2>3, <3>1
  <2>5. /\ noticeBy' \in Nat \cup {None} /\ (noticeBy' # None => flag')
        /\ pc' # "native"
    BY <1>1, <1>8 DEF DecodeInv, Notice
  <2> QED
    BY <2>4, <2>5 DEF Notice, CancelIsNoticed
<1>15. NoFalseAlarm' /\ (answer'.tag = "error" => finished') /\ EverythingPulledComesOut'
  BY <1>8, <1>10 DEF DecodeInv, NoFalseAlarm, EverythingPulledComesOut
<1> QED
  BY <1>7, <1>9, <1>11, <1>12, <1>13, <1>14, <1>15 DEF DecodeInv

LEMMA LibraryIsGood == DecodeInv /\ Library => DecodeInv'
BY LookIsGood, RefuseIsGood, AskForRoomIsGood, WriteBatchIsGood DEF Library

LEMMA RestIsGood == DecodeInv /\ UNCHANGED vars => DecodeInv'
<1> SUFFICES ASSUME DecodeInv, UNCHANGED vars PROVE DecodeInv'
    OBVIOUS
<1>1. UNCHANGED <<streamVars, libraryVars, threadVars, delivered>>
  BY DEF vars
<1>2. StreamInv'
  BY <1>1, StutterPreserves DEF DecodeInv
<1> USE <1>1 DEF streamVars, core, control, buffer, flags, counters, landmarks, threadVars,
                 libraryVars
<1>3. LibraryInv' /\ Written' /\ Delivered'
  BY DEF DecodeInv, LibraryInv, Written, Delivered, FrameSize, Run
<1>4. InBuffer' /\ Notice' /\ CancelIsNoticed'
  BY DEF DecodeInv, InBuffer, Reading, LastBatch, Notice, CancelIsNoticed
<1>5. NoFalseAlarm' /\ (answer'.tag = "error" => finished') /\ EverythingPulledComesOut'
  BY DEF DecodeInv, NoFalseAlarm, Run, EverythingPulledComesOut
<1> QED
  BY <1>2, <1>3, <1>4, <1>5 DEF DecodeInv

-----------------------------------------------------------------------------
(* What a decode promises, for every view, library and caller *)

\* Everything above stands in every state of a decode.
THEOREM DecodeInvariance == DecodeSpec => []DecodeInv
<1>1. DecodeInv /\ [DecodeNext]_vars => DecodeInv'
  BY AskIsGood, TurnIsGood, LibraryIsGood, CancelIsGood, RestIsGood DEF DecodeNext
<1> QED
  BY InitIsGood, <1>1, PTL DEF DecodeSpec

\* A library that has reported done or refused is not called again (Core::next
\* and Core::pull).
THEOREM CalledNoMore == DecodeSpec => []NeverAsksAgain
<1>1. DecodeInv => NeverAsksAgain
  BY InCall DEF NeverAsksAgain
<1> QED
  BY DecodeInvariance, <1>1, PTL

\* A cancellation is noticed between batches, whenever it comes and whatever
\* the library has already framed (docs/THREADING.md).
THEOREM CancelStops == DecodeSpec => []CancelIsNoticed
<1>1. DecodeInv => CancelIsNoticed
  BY DEF DecodeInv
<1> QED
  BY DecodeInvariance, <1>1, PTL

\* A library that keeps its contract is never blamed (Error::from_native_code
\* and the checks of Core::pull).
THEOREM BlamesNobody == DecodeSpec => []NoFalseAlarm
<1>1. DecodeInv => NoFalseAlarm
  BY DEF DecodeInv
<1> QED
  BY DecodeInvariance, <1>1, PTL

\* What was pulled comes out before the stream is finished (Core::next).
THEOREM NothingIsHeldBack == DecodeSpec => []EverythingPulledComesOut
<1>1. DecodeInv => EverythingPulledComesOut
  BY DEF DecodeInv
<1> QED
  BY DecodeInvariance, <1>1, PTL

\* The records written are the view's own, and all of them, once the library
\* has written as many as there are.
LEMMA AllOfThem ==
    ASSUME DecodeInv, Len(handed) = Len(script.records)
    PROVE  handed = script.records
<1>1. /\ sent = Len(handed) /\ script.records \in Seq(Record)
  BY Lengths
<1>2. handed = SubSeq(script.records, 1, Len(script.records))
  BY <1>1 DEF DecodeInv, Written
<1> QED
  BY <1>1, <1>2, SubSeqFull

\* is_complete() is proof: it says so only when the caller has been given every
\* record of the view, in order, even by a library that loses records.  The
\* number a DocumentEnd told can be reached only if none was left out.
THEOREM CompletenessIsProof == DecodeSpec => []CompleteIsWhole
<1>1. DecodeInv => CompleteIsWhole
  <2> SUFFICES ASSUME DecodeInv, is_complete PROVE delivered = Given(script.records)
      BY DEF CompleteIsWhole
  <2>1. Len(delivered) = Len(script.records)
    BY DEF is_complete, DecodeInv, Delivered
  <2>2. Len(handed) = Len(script.records) /\ Len(delivered) = Len(handed)
    BY <2>1, Lengths
  <2> QED
    BY <2>2, AllOfThem, AllIsGiven DEF DecodeInv, Written
<1> QED
  BY DecodeInvariance, <1>1, PTL

\* As long as no record may be lost, those written are the first of the view.
LEMMA InOrder ==
    ASSUME DecodeInv, ~script.lossy
    PROVE  \A i \in 1 .. Len(handed) : i \in DOMAIN script.records /\ handed[i] = script.records[i]
<1>1. handed = SubSeq(script.records, 1, sent) /\ Len(handed) = sent
  BY DEF DecodeInv, Written
<1>2. script.records \in Seq(Record) /\ sent \in Nat /\ sent <= Len(script.records)
  BY Lengths
<1> QED
  BY <1>1, <1>2

LEMMA PromiseInit == DecodeInit => Promise!Init
<1> SUFFICES ASSUME DecodeInit PROVE Promise!Init
    OBVIOUS
<1>1. DecodedView(Given(script.records))
  BY DEF DecodeInit, DecodedView
<1>2. (IF script.lossy THEN << >> ELSE delivered) = << >>
  BY DEF DecodeInit
<1>3. Life = "open"
  BY DEF DecodeInit, Init, CoreInit, Life
<1> QED
  BY <1>1, <1>2, <1>3 DEF Promise!Init

\* A step that gives nothing and does not end the stream.
LEMMA PromiseRests ==
    UNCHANGED <<script, finished, failed, delivered>> => UNCHANGED Promise!vars
BY DEF Promise!vars, Given, Life

LEMMA PromiseIsCut ==
    ASSUME DecodeInv, ~finished, finished', failed' \/ script.lossy,
           UNCHANGED <<script, delivered>>
    PROVE  Promise!Next
<1>1. Life = "open" /\ Life' # "open" /\ (Life' = "failed" \/ script.lossy)
  BY DEF Life
<1>2. UNCHANGED <<Given(script.records), IF script.lossy THEN << >> ELSE delivered>>
  BY DEF Given
<1> QED
  BY <1>1, <1>2 DEF Promise!Next, Promise!Cut

LEMMA TurnKeepsPromise == DecodeInv /\ Turn => [Promise!Next]_(Promise!vars)
<1> SUFFICES ASSUME DecodeInv, Turn PROVE [Promise!Next]_(Promise!vars)
    OBVIOUS
<1>1. script' = script
  BY DEF Turn, libraryVars
<1>2. CASE AfterTheEnd
  BY <1>1, <1>2, PromiseRests DEF Turn, AfterTheEnd, Return, End, core, flags
<1>3. CASE Pull
  BY <1>1, <1>3, PromiseRests DEF Turn, Pull, CallLibrary, core, flags
<1>4. CASE YieldRecord
  <2> DEFINE k == Len(delivered) + 1
  <2>1. /\ k \in 1 .. Len(handed) /\ delivered' = Append(delivered, Item(handed[k]))
    BY <1>4, YieldIsGood
  <2>2. ~finished /\ UNCHANGED <<finished, failed>>
    BY <1>4 DEF YieldRecord, InBatch, flags
  <2>3. Life = "open" /\ Life' = "open"
    BY <2>2 DEF Life
  <2>4. CASE script.lossy
    BY <1>1, <2>3, <2>4 DEF Promise!vars, Given
  <2>5. CASE ~script.lossy
    <3>1. k \in DOMAIN script.records /\ handed[k] = script.records[k]
      BY <2>1, <2>5, InOrder
    <3>2. Given(script.records)[k] = Item(handed[k])
      BY <3>1 DEF Given
    <3>3. Len(delivered) < Len(Given(script.records))
      <4>1. script.records \in Seq(Record)
        BY Lengths
      <4>2. Len(Given(script.records)) = Len(script.records)
        BY <4>1 DEF Given
      <4> QED
        BY <3>1, <4>1, <4>2, Lengths
    <3>4. Promise!Deliver
      BY <1>1, <2>1, <2>3, <2>5, <3>2, <3>3 DEF Promise!Deliver, Given
    <3> QED
      BY <3>4 DEF Promise!Next
  <2> QED
    BY <2>4, <2>5
<1>5. CASE EndStream
  <2>1. Len(delivered) = Len(handed) /\ delivered' = delivered
    BY <1>5, EndStreamIsGood
  <2>2. ~finished /\ finished' /\ failed' = failed /\ ~failed /\ native_done
    BY <1>5 DEF EndStream, Drained, stop, DecodeInv, StreamInv, CallsSoFar, TypeOK
  <2>3. CASE script.lossy
    BY <1>1, <2>1, <2>2, <2>3, PromiseIsCut
  <2>4. CASE ~script.lossy
    <3>1. Len(handed) = Len(script.records)
      BY <2>2, <2>4 DEF DecodeInv, LibraryInv, Written
    <3>2. delivered = Given(script.records)
      BY <2>1, <3>1, AllOfThem, AllIsGiven DEF DecodeInv, Written
    <3>3. Life = "open" /\ Life' = "ended"
      BY <2>2 DEF Life
    <3>4. Promise!Finish
      BY <1>1, <2>1, <2>4, <3>2, <3>3 DEF Promise!Finish, Given
    <3> QED
      BY <3>4 DEF Promise!Next
  <2> QED
    BY <2>3, <2>4
<1> QED
  BY <1>2, <1>3, <1>4, <1>5, NothingIsRefused DEF Turn, NextItem

LEMMA LibraryKeepsPromise == DecodeInv /\ Library => [Promise!Next]_(Promise!vars)
<1> SUFFICES ASSUME DecodeInv, Library PROVE [Promise!Next]_(Promise!vars)
    OBVIOUS
<1>1. CASE LookAtFlag
  BY <1>1, PromiseRests DEF LookAtFlag, streamVars, core, flags
<1>2. CASE Refuse \/ AskForRoom \/ WriteBatch
  <2>1. UNCHANGED <<script, delivered>> /\ \E a : Receive(a)
    BY <1>2 DEF Refuse, AskForRoom, WriteBatch
  <2>2. PICK a : Receive(a)
    BY <2>1
  <2>3. CASE TakeBatch(a)
    BY <2>1, <2>3, PromiseRests DEF TakeBatch
  <2>4. CASE GrowBuffer(a)
    BY <2>1, <2>4, PromiseRests DEF GrowBuffer, flags
  <2>5. CASE RefusePull(a)
    BY <2>1, <2>5, InCall, PromiseIsCut DEF RefusePull, stop
  <2> QED
    BY <2>2, <2>3, <2>4, <2>5 DEF Receive
<1> QED
  BY <1>1, <1>2 DEF Library

\* A decode delivers the records of its view in order and each once, and ends
\* without an error only behind the last of them.  (That it gets there is
\* liveness, and is left to TLC.)
THEOREM DeliverySafety == DecodeSpec => Promise!Safety
<1>1. DecodeInv /\ [DecodeNext]_vars => [Promise!Next]_(Promise!vars)
  <2> SUFFICES ASSUME DecodeInv, [DecodeNext]_vars
               PROVE  [Promise!Next]_(Promise!vars)
      OBVIOUS
  <2>1. CASE Ask
    BY <2>1, PromiseRests DEF Ask, Call, core, flags, libraryVars
  <2>2. CASE Cancel
    BY <2>2, PromiseRests DEF Cancel, streamVars, core, flags, libraryVars
  <2>3. CASE UNCHANGED vars
    BY <2>3, PromiseRests DEF vars, streamVars, core, flags, libraryVars
  <2> QED
    BY <2>1, <2>2, <2>3, TurnKeepsPromise, LibraryKeepsPromise DEF DecodeNext
<1> QED
  BY PromiseInit, DecodeInvariance, <1>1, PTL DEF DecodeSpec, Promise!Safety
=============================================================================
