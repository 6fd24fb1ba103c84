------------------------------ MODULE WalkProofs ------------------------------
(***************************************************************************)
(* A walk over a batch of any length whose headers hold anything: it never *)
(* spends its budget before the payload, it hands out offsets that are     *)
(* accepted, and it is fused.                                              *)
(***************************************************************************)
EXTENDS Walk, TLAPS

Walks(b) == [pos : 0 .. b.plen, budget : Nat, stopped : BOOLEAN]

\* What every walk keeps: it stands at a word of the payload or at its end,
\* with a budget for each record that may still come.
Sound(b, r) ==
    /\ r \in Walks(b)
    /\ ResumeRefusal(b, Offset(r)) = None
    /\ ~r.stopped => b.plen - r.pos < RECORD_HEADER_LEN * r.budget

\* A walk begun at the first record or at an offset that is accepted is sound.
LEMMA BegunIsSound ==
    ASSUME NEW b, IsBytes(b)
    PROVE  /\ Sound(b, records(b))
           /\ \A offset \in Nat :
                 ResumeRefusal(b, offset) = None => Sound(b, records_from(b, offset))
<1>1. b.plen \in Nat
  BY DEF IsBytes
<1>2. ASSUME NEW pos \in Nat, pos <= b.plen, pos % 4 = 0
      PROVE  Sound(b, walk_from(b, pos))
  <2> DEFINE r == walk_from(b, pos)
  <2>1. r.pos = pos /\ r.budget = (b.plen - pos) \div 8 + 1 /\ r \in Walks(b)
    BY <1>1, <1>2 DEF walk_from, RECORD_HEADER_LEN, Walks
  <2>2. b.plen - pos < 8 * ((b.plen - pos) \div 8 + 1)
    BY <1>1, <1>2
  <2>3. ResumeRefusal(b, Offset(r)) = None
    BY <1>1, <1>2, <2>1 DEF ResumeRefusal, Offset, total_len, BATCH_HEADER_LEN
  <2> QED
    BY <2>1, <2>2, <2>3 DEF Sound, RECORD_HEADER_LEN
<1>3. Sound(b, records(b))
  BY <1>1, <1>2 DEF records
<1>4. ASSUME NEW offset \in Nat, ResumeRefusal(b, offset) = None
      PROVE  Sound(b, records_from(b, offset))
  <2>1. /\ offset - BATCH_HEADER_LEN \in Nat
        /\ offset - BATCH_HEADER_LEN <= b.plen
        /\ (offset - BATCH_HEADER_LEN) % 4 = 0
    BY <1>1, <1>4, NoneAssumption
       DEF ResumeRefusal, FrameRefusals, total_len, BATCH_HEADER_LEN
  <2> QED
    BY <1>2, <2>1 DEF records_from
<1> QED
  BY <1>3, <1>4

\* A walk that has stopped owes nothing to its budget.
LEMMA StoppedIsSound ==
    ASSUME NEW b, NEW r, r \in Walks(b), ResumeRefusal(b, Offset(r)) = None
    PROVE  Sound(b, Stopped(r)) /\ Stopped(r).stopped /\ Stopped(r).pos = r.pos
<1>1. /\ Stopped(r) \in Walks(b) /\ Stopped(r).pos = r.pos /\ Stopped(r).stopped = TRUE
  BY DEF Stopped, Walks
<1> QED
  BY <1>1 DEF Sound, Offset

LEMMA MovedWalk ==
    ASSUME NEW b, NEW r \in Walks(b), NEW n
    PROVE  [r EXCEPT !.pos = @ + n] =
               [pos |-> r.pos + n, budget |-> r.budget, stopped |-> r.stopped]
BY DEF Walks

\* A step of a sound walk that is not over leaves it sound, is not answered
\* with the error for a bug, and stops the walk when it refuses.
LEMMA StepIsSound ==
    ASSUME NEW b, IsBytes(b), NEW r, Sound(b, r), ~IsOver(b, r)
    PROVE  /\ Sound(b, next(b, r).r)
           /\ next(b, r).refused # "Internal"
           /\ next(b, r).refused # None => next(b, r).r.stopped
           /\ \/ next(b, r).r.pos = r.pos
              \/ /\ Soundly(b, r.pos)
                 /\ next(b, r).r.pos = r.pos + b.at[r.pos].length
<1> DEFINE rest  == b.plen - r.pos
           h     == b.at[r.pos]
           spent == [r EXCEPT !.budget = @ - 1]
           moved == [spent EXCEPT !.pos = @ + h.length]
<1>1. /\ b.plen \in Nat /\ r.pos \in Nat /\ r.budget \in Nat /\ r.pos < b.plen
      /\ r.pos % 4 = 0 /\ r.budget # 0 /\ ~(rest < 0)
      /\ rest < 8 * r.budget
  BY NoneAssumption DEF IsBytes, Sound, Walks, IsOver, ResumeRefusal, FrameRefusals,
     Offset, total_len, BATCH_HEADER_LEN, RECORD_HEADER_LEN
<1>9. spent \in Walks(b) /\ spent.pos = r.pos /\ ResumeRefusal(b, Offset(spent)) = None
  <2>1. spent \in Walks(b) /\ spent.pos = r.pos
    BY <1>1 DEF Sound, Walks
  <2> QED
    BY <2>1 DEF Sound, Offset
<1>2. CASE rest < RECORD_HEADER_LEN
  <2>1. step(b, r) = Refused(spent, "ShortRecordHeader")
    BY <1>1, <1>2 DEF step
  <2>2. next(b, r).refused = "ShortRecordHeader" /\ next(b, r).r = Stopped(spent)
    BY <2>1, NoneAssumption DEF next, Refused, Answered, FrameRefusals
  <2> QED
    BY <1>9, <2>2, StoppedIsSound
<1>3. CASE ~(rest < RECORD_HEADER_LEN) /\ FramingRefusal(rest, h) # None
  <2>1. step(b, r) = Refused(spent, FramingRefusal(rest, h))
    BY <1>1, <1>3 DEF step
  <2>2. next(b, r).refused = FramingRefusal(rest, h) /\ next(b, r).r = Stopped(spent)
    BY <2>1, <1>3 DEF next, Refused, Answered
  <2>3. FramingRefusal(rest, h) # "Internal"
    BY NoneAssumption DEF FramingRefusal, FrameRefusals
  <2> QED
    BY <1>9, <2>2, <2>3, StoppedIsSound
<1>4. CASE ~(rest < RECORD_HEADER_LEN) /\ FramingRefusal(rest, h) = None
  <2>1. r.pos \in HeaderOffsets(b.plen)
    BY <1>1, <1>4 DEF HeaderOffsets, RECORD_HEADER_LEN
  <2>2. h.length \in Nat /\ h.body.refused # "Internal"
    BY <2>1 DEF IsBytes
  <2>3. h.length >= 8 /\ h.length % 4 = 0 /\ h.length <= rest
    BY <1>1, <1>4, <2>2, NoneAssumption
       DEF FramingRefusal, FrameRefusals, RECORD_HEADER_LEN
  <2>4. step(b, r) = Answered(moved, h.body.refused, h.body.kind, h.body.total)
    BY <1>1, <1>4 DEF step
  <2>5. /\ moved.pos = r.pos + h.length /\ moved.budget = r.budget - 1
        /\ moved \in Walks(b)
    <3>1. r.pos + h.length \in 0 .. b.plen /\ r.budget - 1 \in Nat
      BY <1>1, <2>2, <2>3
    <3>2. /\ spent \in Walks(b) /\ spent.pos = r.pos
          /\ spent.budget = r.budget - 1 /\ spent.stopped = r.stopped
      BY <1>9 DEF Sound, Walks
    <3>3. moved = [pos |-> r.pos + h.length, budget |-> r.budget - 1, stopped |-> r.stopped]
      BY <3>2, MovedWalk
    <3> QED
      BY <3>1, <3>2, <3>3 DEF Walks
  <2>6. Sound(b, moved)
    <3>1. (r.pos + h.length) % 4 = 0
      BY <1>1, <2>2, <2>3
    <3>2. ResumeRefusal(b, Offset(moved)) = None
      BY <1>1, <2>2, <2>3, <2>5, <3>1 DEF ResumeRefusal, Offset, total_len, BATCH_HEADER_LEN
    <3>3. b.plen - moved.pos < 8 * moved.budget
      BY <1>1, <2>2, <2>3, <2>5
    <3> QED
      BY <2>5, <3>2, <3>3 DEF Sound, RECORD_HEADER_LEN
  <2>7. next(b, r).refused = h.body.refused
    BY <2>4 DEF next, Answered
  <2>8. next(b, r).r = IF h.body.refused = None THEN moved ELSE Stopped(moved)
    BY <2>4 DEF next, Answered
  <2> QED
    <3>1. Soundly(b, r.pos)
      BY <1>4, <2>1 DEF Soundly
    <3>2. /\ Sound(b, Stopped(moved)) /\ Stopped(moved).stopped
          /\ Stopped(moved).pos = moved.pos
      BY <2>6, StoppedIsSound DEF Sound
    <3>3. CASE h.body.refused = None
      BY <2>2, <2>5, <2>6, <2>7, <2>8, <3>1, <3>3
    <3>4. CASE h.body.refused # None
      BY <2>2, <2>5, <2>7, <2>8, <3>1, <3>2, <3>4
    <3> QED
      BY <3>3, <3>4
<1> QED
  BY <1>2, <1>3, <1>4

-----------------------------------------------------------------------------
(* The specification *)

\* The invariant in terms of the walk.
Kept ==
    /\ IsBytes(bytes) /\ size \in Nat /\ handed \subseteq Nat
    /\ honest \in BOOLEAN /\ answer.at \in Nat
    /\ iter = None \/ Sound(bytes, iter)
    /\ AnswersStop /\ NeverInternal

LEMMA InvariantIsKept == (WalkInv <=> Kept) /\ (WalkInv' <=> Kept')
<1>1. WalkInv <=> Kept
  BY DEF Kept, WalkInv, TypeOK, OffsetsAreAccepted, BudgetCovers, Sound, Walks
<1>2. WalkInv' <=> Kept'
  BY <1>1, PTL
<1> QED
  BY <1>1, <1>2

\* No answer yet: nothing to stop for.
LEMMA NoAnswerYet ==
    /\ NoAnswer.at \in Nat /\ NoAnswer.refused # "Internal"
    /\ ~(NoAnswer.refused # None \/ NoAnswer.over)
<1>1. None # "Internal"
  BY NoneAssumption DEF FrameRefusals
<1>2. NoAnswer.at = 0 /\ NoAnswer.refused = None /\ NoAnswer.over = FALSE
  BY DEF NoAnswer
<1> QED
  BY <1>1, <1>2

\* The caller keeps its walks sound.
THEOREM WalkInvariance == Spec => []WalkInv
<1>1. Init => WalkInv
  <2> SUFFICES ASSUME Init PROVE WalkInv
      OBVIOUS
  <2>1. /\ IsBytes(bytes) /\ size \in Nat /\ handed = {} /\ honest = FALSE
        /\ iter = None /\ answer = NoAnswer
    BY ContentsAssumption, OffsetsAssumption DEF Init
  <2> QED
    BY <2>1, NoAnswerYet, InvariantIsKept DEF Kept, AnswersStop, NeverInternal
<1>2. WalkInv /\ [Next]_vars => WalkInv'
  <2> SUFFICES ASSUME WalkInv, [Next]_vars
               PROVE  Kept'
    BY InvariantIsKept
  <2>1. /\ IsBytes(bytes) /\ size \in Nat /\ handed \subseteq Nat
        /\ honest \in BOOLEAN /\ answer.at \in Nat
        /\ iter = None \/ Sound(bytes, iter)
        /\ AnswersStop /\ NeverInternal
    BY InvariantIsKept DEF Kept
  <2>2. iter # None => Offset(iter) \in Nat
    BY <2>1 DEF Sound, Walks, Offset, BATCH_HEADER_LEN
  <2>3. CASE Open \/ Keep
    BY <2>1, <2>2, <2>3 DEF Open, Keep, Kept, AnswersStop, NeverInternal
  <2>4. CASE Start
    <3>1. Sound(bytes, iter') /\ answer' = NoAnswer
      BY <2>1, <2>4, BegunIsSound DEF Start
    <3>2. answer'.at \in Nat /\ AnswersStop' /\ NeverInternal'
      BY <3>1, NoAnswerYet DEF AnswersStop, NeverInternal
    <3> QED
      BY <2>1, <2>4, <3>1, <3>2 DEF Start, Kept
  <2>5. ASSUME NEW offset \in Offsets \cup handed, Resume(offset)
        PROVE  Kept'
    <3>1. Sound(bytes, iter') /\ answer' = NoAnswer
      BY <2>1, <2>5, OffsetsAssumption, BegunIsSound DEF Resume
    <3>2. answer'.at \in Nat /\ AnswersStop' /\ NeverInternal'
      BY <3>1, NoAnswerYet DEF AnswersStop, NeverInternal
    <3> QED
      BY <2>1, <2>5, <3>1, <3>2 DEF Resume, Kept
  <2>6. CASE NextOver
    <3>1. /\ iter # None /\ Sound(bytes, iter) /\ iter' = Stopped(iter)
          /\ answer' = [at |-> Offset(iter), over |-> TRUE, refused |-> None]
          /\ UNCHANGED <<bytes, size, reader, handed, honest>>
      BY <2>1, <2>6 DEF NextOver
    <3>2. Sound(bytes, iter') /\ iter'.stopped
      BY <3>1, StoppedIsSound DEF Sound
    <3>3. answer'.at \in Nat /\ answer'.refused = None
      BY <3>1, <2>2
    <3>4. NeverInternal' /\ AnswersStop'
      BY <3>2, <3>3, NoneAssumption DEF NeverInternal, AnswersStop, FrameRefusals
    <3> QED
      BY <2>1, <3>1, <3>2, <3>3, <3>4 DEF Kept
  <2>7. CASE NextRecord
    <3>1. /\ iter # None /\ Sound(bytes, iter) /\ ~IsOver(bytes, iter)
          /\ iter' = next(bytes, iter).r
          /\ answer' = [at |-> Offset(iter), over |-> FALSE,
                        refused |-> next(bytes, iter).refused]
          /\ UNCHANGED <<bytes, size, reader, handed, honest>>
      BY <2>1, <2>7 DEF NextRecord
    <3>2. /\ Sound(bytes, iter') /\ next(bytes, iter).refused # "Internal"
          /\ next(bytes, iter).refused # None => iter'.stopped
      BY <2>1, <3>1, StepIsSound
    <3>3. answer'.at \in Nat /\ answer'.refused = next(bytes, iter).refused /\ ~answer'.over
      BY <3>1, <2>2
    <3> QED
      BY <2>1, <3>1, <3>2, <3>3 DEF Kept, AnswersStop, NeverInternal
  <2>8. CASE UNCHANGED vars
    BY <2>1, <2>8 DEF vars, Kept, AnswersStop, NeverInternal
  <2> QED
    BY <2>3, <2>4, <2>5, <2>6, <2>7, <2>8 DEF Next
<1> QED
  BY <1>1, <1>2, PTL DEF Spec

\* However malformed a batch, and wherever a walk over it is resumed, no record
\* is answered with the error for a bug of the crate.
THEOREM NoWalkIsInternal == Spec => []NeverInternal
<1>1. WalkInv => NeverInternal
  BY DEF WalkInv
<1> QED
  BY <1>1, WalkInvariance, PTL

\* Every offset a walk hands out is one a walk can be resumed at.
THEOREM OffsetsCanBeResumed == Spec => []OffsetsAreAccepted
<1>1. WalkInv => OffsetsAreAccepted
  BY DEF WalkInv
<1> QED
  BY <1>1, WalkInvariance, PTL

\* A walk that has refused or ended stands still and answers None.
THEOREM WalksAreFused == Spec => Fused
<1> DEFINE StandsStill ==
        (answer.refused # None \/ answer.over) /\ (NextOver \/ NextRecord)
            => answer'.over /\ iter' = iter
<1>1. WalkInv /\ [Next]_vars => [StandsStill]_vars
  <2> SUFFICES ASSUME WalkInv, answer.refused # None \/ answer.over,
                      NextOver \/ NextRecord
               PROVE  answer'.over /\ iter' = iter
      OBVIOUS
  <2>1. iter # None
    BY DEF NextOver, NextRecord
  <2>2. iter \in Walks(bytes) /\ iter.stopped
    BY <2>1 DEF WalkInv, TypeOK, AnswersStop, Walks
  <2>3. NextOver
    BY <2>2 DEF NextRecord, IsOver
  <2>4. Stopped(iter) = iter
    BY <2>2 DEF Stopped, Walks
  <2> QED
    BY <2>3, <2>4 DEF NextOver
<1> QED
  BY <1>1, WalkInvariance, PTL DEF Spec, Fused

-----------------------------------------------------------------------------
(* The records of the producer *)

\* The beginning of the payload is a boundary, and so is the end of a soundly
\* framed record that begins at one.
LEMMA BoundariesAreClosed ==
    ASSUME NEW b, IsBytes(b)
    PROVE  /\ 0 \in Boundaries(b)
           /\ \A p \in Boundaries(b) :
                 Soundly(b, p) => p + b.at[p].length \in Boundaries(b)
<1>1. 0 \in Boundaries(b)
  BY DEF Boundaries, Closed, Words, IsBytes
<1>2. ASSUME NEW p \in Boundaries(b), Soundly(b, p)
      PROVE  p + b.at[p].length \in Boundaries(b)
  <2>1. /\ b.plen \in Nat /\ p \in Nat /\ p % 4 = 0 /\ b.at[p].length \in Nat
    BY <1>2 DEF Boundaries, Words, Soundly, IsBytes
  <2>2. b.at[p].length % 4 = 0 /\ b.at[p].length <= b.plen - p
    BY <1>2, <2>1, NoneAssumption DEF Soundly, FramingRefusal, FrameRefusals
  <2>3. p + b.at[p].length \in Words(b)
    BY <2>1, <2>2 DEF Words
  <2>4. \A S \in SUBSET Words(b) : Closed(b, S) => p + b.at[p].length \in S
    BY <1>2 DEF Boundaries, Closed
  <2> QED
    BY <2>3, <2>4 DEF Boundaries
<1> QED
  BY <1>1, <1>2

\* What the caller keeps besides: the offsets handed out are boundaries, and so
\* is the place of a walk that began at one.
LEMMA OnRecordsIsKept ==
    ASSUME WalkInv, ResumedWalksStayOnRecords, [Next]_vars
    PROVE  ResumedWalksStayOnRecords'
<1> DEFINE On(r) == r.pos \in Boundaries(bytes)
<1>1. /\ IsBytes(bytes)
      /\ handed \subseteq Nat
      /\ iter = None \/ Sound(bytes, iter)
  BY InvariantIsKept DEF Kept
<1>2. CASE Open
  BY <1>2 DEF Open, ResumedWalksStayOnRecords
<1>3. CASE Start
  <2>1. iter'.pos = 0
    BY <1>3 DEF Start, records, walk_from
  <2> QED
    <3>1. 0 \in Boundaries(bytes)
      BY <1>1, BoundariesAreClosed
    <3>2. UNCHANGED <<bytes, handed>>
      BY <1>3 DEF Start
    <3> QED
      BY <2>1, <3>1, <3>2 DEF ResumedWalksStayOnRecords
<1>4. CASE Keep
  <2>1. On(iter) /\ iter # None
    BY <1>4 DEF Keep, ResumedWalksStayOnRecords
  <2>2. Offset(iter) - BATCH_HEADER_LEN = iter.pos
    BY <1>1, <2>1 DEF Sound, Walks, Offset, BATCH_HEADER_LEN
  <2> QED
    BY <1>4, <2>1, <2>2 DEF Keep, ResumedWalksStayOnRecords
<1>5. ASSUME NEW offset \in Offsets \cup handed, Resume(offset)
      PROVE  ResumedWalksStayOnRecords'
  <2>1. iter'.pos = offset - BATCH_HEADER_LEN
    BY <1>5 DEF Resume, records_from, walk_from
  <2> QED
    BY <1>5, <2>1 DEF Resume, ResumedWalksStayOnRecords
<1>6. CASE NextOver
  <2>1. iter # None /\ Sound(bytes, iter) /\ iter' = Stopped(iter)
    BY <1>1, <1>6 DEF NextOver
  <2>2. iter'.pos = iter.pos
    BY <2>1, StoppedIsSound DEF Sound
  <2> QED
    BY <1>6, <2>1, <2>2 DEF NextOver, ResumedWalksStayOnRecords
<1>7. CASE NextRecord
  <2>1. /\ iter # None /\ Sound(bytes, iter) /\ ~IsOver(bytes, iter)
        /\ iter' = next(bytes, iter).r /\ UNCHANGED <<bytes, handed, honest>>
    BY <1>1, <1>7 DEF NextRecord
  <2>2. On(iter) => On(next(bytes, iter).r)
    <3>1. \/ next(bytes, iter).r.pos = iter.pos
          \/ /\ Soundly(bytes, iter.pos)
             /\ next(bytes, iter).r.pos = iter.pos + bytes.at[iter.pos].length
      BY <1>1, <2>1, StepIsSound
    <3> QED
      BY <1>1, <3>1, BoundariesAreClosed
  <2> QED
    BY <2>1, <2>2 DEF ResumedWalksStayOnRecords
<1>8. CASE UNCHANGED vars
  BY <1>8 DEF vars, ResumedWalksStayOnRecords
<1> QED
  BY <1>2, <1>3, <1>4, <1>5, <1>6, <1>7, <1>8 DEF Next

\* Of any batch, a walk that is resumed at an offset handed out before reads the
\* records the producer wrote.
THEOREM WalksStayOnRecords == Spec => []ResumedWalksStayOnRecords
<1>1. Init => ResumedWalksStayOnRecords
  BY DEF Init, ResumedWalksStayOnRecords
<1>2. WalkInv /\ ResumedWalksStayOnRecords /\ [Next]_vars => ResumedWalksStayOnRecords'
  BY OnRecordsIsKept
<1> QED
  BY <1>1, <1>2, WalkInvariance, PTL DEF Spec
=============================================================================
