----------------------------- MODULE DumpProofs -----------------------------
(***************************************************************************)
(* What the parity dump writes of any view: the theorems of Dump.          *)
(***************************************************************************)
EXTENDS Dump, SequenceTheorems, FiniteSetTheorems, WellFoundedInduction, TLAPS

\* The records there are, and the lines that can be made of them.
AnyRecord == UNION {{v[i] : i \in DOMAIN v} : v \in Views}
AnyLine   == {line(k, r) : k \in Nat, r \in AnyRecord}

\* What a view is: a sequence of records with the fields their types have.
LEMMA ViewsAreSequences ==
    ASSUME NEW v \in Views
    PROVE  /\ v \in Seq(AnyRecord) /\ Len(v) \in Nat /\ DOMAIN v = 1 .. Len(v)
           /\ \A i \in 1 .. Len(v) :
                /\ v[i] \in AnyRecord
                /\ v[i].type = "Unknown" => v[i].record_type \in Nat
                /\ v[i].type \in {"Text", "Warning"} => v[i].text \in Seq(Nat)
<1>1. v \in Seq({v[i] : i \in DOMAIN v})
  BY ViewsAssumption
<1>2. Len(v) \in Nat /\ DOMAIN v = 1 .. Len(v)
  BY <1>1, LenProperties
<1>3. \A i \in 1 .. Len(v) : v[i] \in AnyRecord
  BY <1>2 DEF AnyRecord
<1>4. v \in Seq(AnyRecord)
  BY <1>1, <1>2, <1>3
<1> QED
  BY <1>2, <1>3, <1>4, ViewsAssumption

\* A record more is recorded, or it is not.
LEMMA RecordedMore ==
    ASSUME NEW v, NEW k \in Nat
    PROVE  /\ IsFiniteSet(Recorded(v, k)) /\ Cardinality(Recorded(v, k)) \in Nat
           /\ v[k + 1].type \notin Framing \cup {"Unknown"} =>
                /\ Recorded(v, k + 1) = Recorded(v, k) \cup {k + 1}
                /\ Cardinality(Recorded(v, k + 1)) = Cardinality(Recorded(v, k)) + 1
           /\ v[k + 1].type \in Framing \cup {"Unknown"} =>
                Recorded(v, k + 1) = Recorded(v, k)
<1>1. IsFiniteSet(1 .. k) /\ Recorded(v, k) \in SUBSET (1 .. k)
  BY FS_Interval DEF Recorded
<1>2. IsFiniteSet(Recorded(v, k)) /\ Cardinality(Recorded(v, k)) \in Nat
  BY <1>1, FS_Subset, FS_CardinalityType
<1>3. \A i : i \in 1 .. k + 1 <=> i \in 1 .. k \/ i = k + 1
  OBVIOUS
<1>4. ASSUME v[k + 1].type \notin Framing \cup {"Unknown"}
      PROVE  Recorded(v, k + 1) = Recorded(v, k) \cup {k + 1}
  BY <1>3, <1>4 DEF Recorded
<1>5. ASSUME v[k + 1].type \in Framing \cup {"Unknown"}
      PROVE  Recorded(v, k + 1) = Recorded(v, k)
  BY <1>3, <1>5 DEF Recorded
<1>6. k + 1 \notin Recorded(v, k)
  BY <1>1
<1>7. Cardinality(Recorded(v, k) \cup {k + 1}) = Cardinality(Recorded(v, k)) + 1
  BY <1>2, <1>6, FS_AddElement
<1> QED
  BY <1>2, <1>4, <1>5, <1>7

-----------------------------------------------------------------------------
(* What is collected *)

\* What has been given is the view's, in its order.
GivenInOrder ==
    /\ view \in Views
    /\ given \in Seq(AnyRecord) /\ Len(given) <= Len(view)
    /\ \A i \in 1 .. Len(given) : given[i] = view[i]

\* There is a line for each of those that are recorded, and no other.
LinesInOrder ==
    /\ out \in Seq(AnyLine) /\ index = Len(out)
    /\ Len(out) = Cardinality(Recorded(view, Len(given)))
    /\ \A k \in 1 .. Len(out) :
          \E i \in Recorded(view, Len(given)) :
              Cardinality(Recorded(view, i)) = k /\ out[k] = line(k - 1, view[i])
    /\ \A i \in Recorded(view, Len(given)) :
          LET k == Cardinality(Recorded(view, i))
          IN  k \in 1 .. Len(out) /\ out[k] = line(k - 1, view[i])

DumpInv ==
    /\ GivenInOrder /\ LinesInOrder
    /\ exit = None => /\ stdout = << >>
                      /\ \A i \in 1 .. Len(given) : ~Refused(view[i])
    /\ WholeOrNothing

\* DumpInv holds at first, and every step keeps it.
LEMMA InitIsGood == Init => DumpInv
<1> SUFFICES ASSUME Init PROVE DumpInv
    OBVIOUS
<1>1. view \in Views /\ given = << >>
  BY DEF Init, Stream!Init
<1>2. GivenInOrder
  <2>1. << >> \in Seq(AnyRecord) /\ Len(<< >>) = 0
    OBVIOUS
  <2>2. Len(view) \in Nat
    BY <1>1, ViewsAreSequences
  <2>3. 0 <= Len(view) /\ \A i \in 1 .. 0 : FALSE
    BY <2>2
  <2> QED
    BY <1>1, <2>1, <2>2, <2>3 DEF GivenInOrder
<1>3. Recorded(view, Len(given)) = {}
  BY <1>1 DEF Recorded
<1>4. LinesInOrder
  <2>1. << >> \in Seq(AnyLine) /\ Len(<< >>) = 0 /\ \A k \in 1 .. 0 : FALSE
    OBVIOUS
  <2>2. Cardinality(Recorded(view, Len(given))) = 0
    BY <1>3, FS_EmptySet
  <2>3. out = << >> /\ index = 0
    BY DEF Init
  <2> QED
    BY <1>3, <2>1, <2>2, <2>3 DEF LinesInOrder
<1>5. WholeOrNothing
  BY NoneAssumption DEF Init, WholeOrNothing, BeginsRecording
<1> QED
  BY <1>1, <1>2, <1>4, <1>5 DEF DumpInv, Init

\* A record that is given is the next of the view.
LEMMA GivenMore ==
    ASSUME DumpInv, Stream!Deliver
    PROVE  /\ GivenInOrder' /\ view' = view /\ state' = state
           /\ Len(given) \in Nat /\ Len(given') = Len(given) + 1
           /\ Len(given) + 1 \in 1 .. Len(view)
           /\ given'[Len(given')] = view[Len(given) + 1]
<1>1. /\ view \in Views /\ given \in Seq(AnyRecord) /\ Len(given) < Len(view)
      /\ given' = Append(given, view[Len(given) + 1]) /\ view' = view /\ state' = state
  BY DEF DumpInv, GivenInOrder, Stream!Deliver
<1>2. Len(given) \in Nat /\ Len(view) \in Nat /\ Len(given) + 1 \in 1 .. Len(view)
  BY <1>1, ViewsAreSequences, LenProperties
<1>3. view[Len(given) + 1] \in AnyRecord
  BY <1>1, <1>2, ViewsAreSequences
<1>4. /\ given' \in Seq(AnyRecord) /\ Len(given') = Len(given) + 1
      /\ \A i \in 1 .. Len(given) : given'[i] = given[i]
      /\ given'[Len(given) + 1] = view[Len(given) + 1]
  BY <1>1, <1>3, AppendProperties
<1>5. \A i \in 1 .. Len(given) + 1 : given'[i] = view[i]
  BY <1>2, <1>4 DEF DumpInv, GivenInOrder
<1> QED
  BY <1>1, <1>2, <1>4, <1>5 DEF GivenInOrder

\* Every record is left out, refused or recorded.
LEMMA SkippedIsNotRecorded ==
    ASSUME NEW r, r.type = "Unknown" => r.record_type \in Nat
    PROVE  /\ r.type \in Framing \cup {"Unknown"} <=> Skipped(r) \/ Refused(r)
           /\ ~(Skipped(r) /\ Refused(r))
BY ViewsAssumption DEF Skipped, Refused, Framing

LEMMA CollectIsGood == DumpInv /\ Collect => DumpInv'
<1> SUFFICES ASSUME DumpInv, Collect PROVE DumpInv'
    OBVIOUS
<1> DEFINE k == Len(given)
           r == view[k + 1]
<1>1. /\ GivenInOrder' /\ view' = view /\ state' = state
      /\ k \in Nat /\ Len(given') = k + 1
      /\ k + 1 \in 1 .. Len(view)
      /\ given'[Len(given')] = r
  BY GivenMore DEF Collect
<1>2. /\ r \in AnyRecord
      /\ r.type \in Framing \cup {"Unknown"} <=> Skipped(r) \/ Refused(r)
      /\ ~(Skipped(r) /\ Refused(r))
  BY <1>1, ViewsAreSequences, SkippedIsNotRecorded DEF DumpInv, GivenInOrder
<1>3. exit = None /\ stdout' = stdout /\ stdout = << >>
  BY DEF Collect, DumpInv
<1>4. WholeOrNothing'
  <2>1. stdout' = << >>
    BY <1>3
  <2>2. exit' # 0
    BY <1>1, <1>3, NoneAssumption DEF Collect
  <2> QED
    BY <2>1, <2>2 DEF WholeOrNothing, BeginsRecording
<1>5. \A i \in 1 .. k + 1 : i \in 1 .. k \/ i = k + 1
  BY <1>1
<1>6. CASE Skipped(r) \/ Refused(r)
  <2>1. out' = out /\ index' = index
    BY <1>1, <1>2, <1>6 DEF Collect
  <2>2. Recorded(view, k + 1) = Recorded(view, k)
    BY <1>1, <1>2, <1>6, RecordedMore
  <2>3. LinesInOrder'
    BY <1>1, <2>1, <2>2 DEF DumpInv, LinesInOrder
  <2>4. exit' = None => ~Refused(r)
    BY <1>1, <1>2, NoneAssumption DEF Collect
  <2>5. exit' = None => \A i \in 1 .. k + 1 : ~Refused(view[i])
    BY <1>3, <1>5, <2>4 DEF DumpInv
  <2> QED
    BY <1>1, <1>3, <1>4, <2>3, <2>5 DEF DumpInv
<1>7. CASE ~Skipped(r) /\ ~Refused(r)
  <2>1. out' = Append(out, line(index, r)) /\ index' = index + 1 /\ exit' = None
    BY <1>1, <1>3, <1>7 DEF Collect
  <2>2. /\ Recorded(view, k + 1) = Recorded(view, k) \cup {k + 1}
        /\ Cardinality(Recorded(view, k + 1)) = Cardinality(Recorded(view, k)) + 1
    BY <1>1, <1>2, <1>7, RecordedMore
  <2>3. LinesInOrder'
    <3>1. /\ out \in Seq(AnyLine) /\ index = Len(out) /\ Len(out) \in Nat
          /\ Len(out) = Cardinality(Recorded(view, k))
      BY LenProperties DEF DumpInv, LinesInOrder
    <3>2. line(index, r) \in AnyLine
      BY <1>2, <3>1 DEF AnyLine
    <3>3. /\ out' \in Seq(AnyLine) /\ Len(out') = Len(out) + 1
          /\ \A j \in 1 .. Len(out) : out'[j] = out[j]
          /\ out'[Len(out) + 1] = line(index, r)
      BY <2>1, <3>1, <3>2, AppendProperties
    <3>4. \A j \in 1 .. Len(out) + 1 : j \in 1 .. Len(out) \/ j = Len(out) + 1
      BY <3>1
    <3>5. /\ Cardinality(Recorded(view, k + 1)) = Len(out) + 1
          /\ (Len(out) + 1) - 1 = index /\ Len(out) + 1 \in 1 .. Len(out) + 1
          /\ 1 .. Len(out) \subseteq 1 .. Len(out) + 1
      BY <2>2, <3>1
    <3>6. ASSUME NEW j \in 1 .. Len(out')
          PROVE  \E i \in Recorded(view, k + 1) :
                    Cardinality(Recorded(view, i)) = j /\ out'[j] = line(j - 1, view[i])
      <4>1. CASE j \in 1 .. Len(out)
        BY <2>2, <3>3, <4>1 DEF DumpInv, LinesInOrder
      <4>2. CASE j = Len(out) + 1
        BY <2>2, <3>3, <3>5, <4>2
      <4> QED
        BY <3>3, <3>4, <4>1, <4>2
    <3>7. ASSUME NEW i \in Recorded(view, k + 1)
          PROVE  /\ Cardinality(Recorded(view, i)) \in 1 .. Len(out')
                 /\ out'[Cardinality(Recorded(view, i))]
                       = line(Cardinality(Recorded(view, i)) - 1, view[i])
      <4>1. CASE i \in Recorded(view, k)
        BY <3>3, <3>5, <4>1 DEF DumpInv, LinesInOrder
      <4>2. CASE i = k + 1
        BY <3>3, <3>5, <4>2
      <4> QED
        BY <2>2, <4>1, <4>2
    <3> QED
      BY <1>1, <2>1, <3>1, <3>3, <3>5, <3>6, <3>7, ZenonT(40) DEF LinesInOrder
  <2>4. \A i \in 1 .. k + 1 : ~Refused(view[i])
    BY <1>3, <1>5, <1>7 DEF DumpInv
  <2> QED
    BY <1>1, <1>3, <1>4, <2>3, <2>4 DEF DumpInv
<1> QED
  BY <1>6, <1>7

\* What is written is the beginning of what was collected, and all of it if 0 is
\* answered; and it is collected from the whole view.
LEMMA FinishedIsGood == DumpInv /\ Finished => DumpInv'
<1> SUFFICES ASSUME DumpInv, Finished PROVE DumpInv'
    OBVIOUS
<1>1. /\ given = view /\ view' = view /\ given' = given /\ out' = out /\ index' = index
      /\ state' = "whole" /\ exit = None
  BY DEF Finished, Stream!Finish
<1>2. PICK written \in 0 .. Len(out) :
         /\ stdout' = SubSeq(out, 1, written)
         /\ exit' \in IF written = Len(out) THEN {0, 2} ELSE {2}
  BY DEF Finished
<1>3. GivenInOrder' /\ LinesInOrder'
  BY <1>1 DEF DumpInv, GivenInOrder, LinesInOrder
<1>4. out \in Seq(AnyLine) /\ Len(out) \in Nat /\ DOMAIN out = 1 .. Len(out)
  BY LenProperties DEF DumpInv, LinesInOrder
<1>5. /\ DOMAIN stdout' = 1 .. written /\ Len(stdout') = written
      /\ \A j \in 1 .. written : stdout'[j] = out[j]
  <2>1. written \in Nat /\ written \in Int /\ 1 \in Int /\ written <= Len(out)
    BY <1>4
  <2>2. \A j \in 1 .. written : j \in 1 .. Len(out)
    BY <1>4, <2>1
  <2>3. \A j \in 1 .. written : out[j] \in AnyLine
    BY <1>4, <2>2, ElementOfSeq
  <2>4. /\ SubSeq(out, 1, written) \in Seq(AnyLine)
        /\ Len(SubSeq(out, 1, written)) = IF 1 <= written THEN written - 1 + 1 ELSE 0
        /\ \A j \in 1 .. written - 1 + 1 : SubSeq(out, 1, written)[j] = out[1 + j - 1]
    BY <2>1, <2>3, SubSeqProperties
  <2>5. Len(stdout') = written /\ stdout' \in Seq(AnyLine)
    BY <1>2, <2>1, <2>4
  <2>6. \A j \in 1 .. written : j \in 1 .. written - 1 + 1 /\ 1 + j - 1 = j
    BY <2>1
  <2>7. \A j \in 1 .. written : stdout'[j] = out[j]
    BY <1>2, <2>4, <2>6
  <2> QED
    BY <2>5, <2>7, LenProperties
<1>6. BeginsRecording(stdout', view)
  BY <1>1, <1>2, <1>4, <1>5 DEF BeginsRecording, DumpInv, LinesInOrder
<1>7. exit' = 0 => /\ Len(stdout') = Cardinality(Recorded(view, Len(view)))
                   /\ \A i \in DOMAIN view : ~Refused(view[i])
  <2> SUFFICES ASSUME exit' = 0
               PROVE  /\ Len(stdout') = Cardinality(Recorded(view, Len(view)))
                      /\ \A i \in DOMAIN view : ~Refused(view[i])
      OBVIOUS
  <2>1. written = Len(out)
    BY <1>2
  <2>2. DOMAIN view = 1 .. Len(given)
    BY <1>1, ViewsAreSequences DEF DumpInv, GivenInOrder
  <2> QED
    BY <1>1, <1>5, <2>1, <2>2 DEF DumpInv, LinesInOrder
<1>8. WholeOrNothing'
  BY <1>1, <1>6, <1>7 DEF WholeOrNothing
<1>9. exit' # None
  BY <1>2, NoneAssumption
<1> QED
  BY <1>3, <1>8, <1>9 DEF DumpInv

LEMMA NextIsGood == DumpInv /\ [Next]_vars => DumpInv'
<1> SUFFICES ASSUME DumpInv, [Next]_vars PROVE DumpInv'
    OBVIOUS
<1>1. ASSUME UNCHANGED <<view, given, out, index, stdout>>,
             exit = None, exit' \in {2, 64}
      PROVE  DumpInv'
  <2>1. GivenInOrder' /\ LinesInOrder'
    BY <1>1 DEF DumpInv, GivenInOrder, LinesInOrder
  <2>2. stdout' = << >> /\ exit' # 0 /\ exit' # None
    BY <1>1, NoneAssumption DEF DumpInv
  <2>3. WholeOrNothing'
    BY <2>2 DEF WholeOrNothing, BeginsRecording
  <2> QED
    BY <2>1, <2>2, <2>3 DEF DumpInv
<1>2. CASE NeverStarts
  BY <1>1, <1>2 DEF NeverStarts
<1>3. CASE Failed
  BY <1>1, <1>3 DEF Failed, Stream!Cut
<1>4. CASE UNCHANGED vars
  BY <1>4 DEF vars, DumpInv, GivenInOrder, LinesInOrder, WholeOrNothing, BeginsRecording
<1> QED
  BY <1>2, <1>3, <1>4, CollectIsGood, FinishedIsGood DEF Next

\* The lines that were collected are those of the records that were given.
THEOREM DumpInvariance == Spec => []DumpInv
<1>1. Init => DumpInv
  BY InitIsGood
<1>2. DumpInv /\ [Next]_vars => DumpInv'
  BY NextIsGood
<1> QED
  BY <1>1, <1>2, PTL DEF Spec

\* Whatever the view and wherever its stream ends: the dump answers 0 only when it has
\* written the recording of the whole view, and what it writes otherwise begins one.
THEOREM WholeOrNothingHolds == Spec => []WholeOrNothing
<1>1. DumpInv => WholeOrNothing
  BY DEF DumpInv
<1> QED
  BY <1>1, DumpInvariance, PTL

-----------------------------------------------------------------------------
(* quote(), and what is read back *)

\* A set of natural numbers with something in it has a least element: how the
\* lemmas below, which induction would prove, are proved from a first failure.
LEMMA LeastOf ==
    ASSUME NEW T \in SUBSET Nat, T # {}
    PROVE  \E k \in T : \A m \in T : k <= m
<1>1. PICK k \in T : \A m \in T : ~(<<m, k>> \in OpToRel(<, Nat))
  BY WFMin, NatLessThanWellFounded
<1>2. \A m \in T : ~(m < k)
  BY <1>1 DEF OpToRel
<1> QED
  BY <1>2

\* What each character is written as.
LEMMA EscapeIs ==
    ASSUME NEW ch \in Nat
    PROVE  /\ ch = 34 => escape(ch) = << 92, 34 >>
           /\ ch = 92 => escape(ch) = << 92, 92 >>
           /\ ch = 10 => escape(ch) = << 92, 110 >>
           /\ ch = 13 => escape(ch) = << 92, 114 >>
           /\ ch = 9 => escape(ch) = << 92, 116 >>
           /\ ch < 32 /\ ch \notin {9, 10, 13} =>
                 escape(ch) = << 92, 117, 48, 48, hex(ch \div 16), hex(ch % 16) >>
           /\ ch >= 32 /\ ch # 34 /\ ch # 92 => escape(ch) = << ch >>
<1>1. CASE ch \in {34, 92, 10, 13, 9}
  <2>1. CASE ch = 34
    BY <2>1 DEF escape
  <2>2. CASE ch = 92
    BY <2>2 DEF escape
  <2>3. CASE ch = 10
    BY <2>3 DEF escape
  <2>4. CASE ch = 13
    BY <2>4 DEF escape
  <2>5. CASE ch = 9
    BY <2>5 DEF escape
  <2> QED
    BY <1>1, <2>1, <2>2, <2>3, <2>4, <2>5
<1>2. CASE ch < 32 /\ ch \notin {9, 10, 13}
  <2>1. escape(ch) = << 92, 117, 48, 48, hex(ch \div 16), hex(ch % 16) >>
    BY <1>2 DEF escape
  <2> QED
    BY <1>2, <2>1
<1>3. CASE ch >= 32 /\ ch # 34 /\ ch # 92
  <2>1. escape(ch) = << ch >>
    BY <1>3 DEF escape
  <2> QED
    BY <1>3, <2>1
<1> QED
  BY <1>1, <1>2, <1>3

\* No escape is empty or holds a character that would break a line.
LEMMA EscapesAreTexts ==
    ASSUME NEW ch \in Nat
    PROVE  /\ escape(ch) \in Seq(Nat) /\ Len(escape(ch)) \in Nat /\ Len(escape(ch)) >= 1
           /\ \A j \in 1 .. Len(escape(ch)) : escape(ch)[j] >= 32
<1>1. CASE ch \in {34, 92, 10, 13, 9}
  <2>1. PICK c \in Nat : escape(ch) = << 92, c >> /\ c >= 32
    <3>1. 34 \in Nat /\ 92 \in Nat /\ 110 \in Nat /\ 114 \in Nat /\ 116 \in Nat
      OBVIOUS
    <3> QED
      BY <1>1, <3>1, EscapeIs
  <2>2. PICK e : e = escape(ch) /\ e = << 92, c >>
    BY <2>1
  <2>3. e \in Seq(Nat) /\ Len(e) = 2 /\ \A j \in 1 .. 2 : e[j] >= 32
    BY <2>1, <2>2
  <2> QED
    BY <2>2, <2>3
<1>2. CASE ch < 32 /\ ch \notin {9, 10, 13}
  <2>1. escape(ch) = << 92, 117, 48, 48, hex(ch \div 16), hex(ch % 16) >>
    BY <1>2, EscapeIs
  <2>2. ch \div 16 \in 0 .. 1 /\ ch % 16 \in 0 .. 15
    BY <1>2
  <2>3. hex(ch \div 16) \in Nat /\ hex(ch \div 16) >= 32
        /\ hex(ch % 16) \in Nat /\ hex(ch % 16) >= 32
    BY <2>2 DEF hex
  <2> QED
    BY <2>1, <2>3
<1>3. CASE ch >= 32 /\ ch # 34 /\ ch # 92
  <2>1. escape(ch) = << ch >>
    BY <1>3, EscapeIs
  <2> QED
    BY <1>3, <2>1
<1> QED
  BY <1>1, <1>2, <1>3

\* What quote() has written of t behind each of its first len characters.
Writes(s, t, len) ==
    s = [i \in 0 .. len |-> IF i = 0 THEN << 34 >> ELSE s[i - 1] \o escape(t[i])]

\* That the loop of quote() has its values at every length of the text.
LEMMA WritesExists ==
    ASSUME NEW t, NEW len \in Nat
    PROVE  \E s : Writes(s, t, len)
<1> DEFINE Without == {k \in Nat : ~\E s : Writes(s, t, k)}
<1>1. SUFFICES ASSUME Without # {} PROVE FALSE
  OBVIOUS
<1>2. PICK k \in Without : \A m \in Without : k <= m
  BY <1>1, LeastOf
<1>3. k \in Nat /\ ~\E s : Writes(s, t, k)
  BY <1>2
<1>4. CASE k = 0
  <2>1. Writes([i \in 0 .. 0 |-> << 34 >>], t, 0)
    BY DEF Writes
  <2> QED
    BY <1>3, <1>4, <2>1
<1>5. CASE k # 0
  <2>1. k - 1 \in Nat /\ k - 1 \notin Without
    BY <1>2, <1>3, <1>5
  <2>2. PICK s : Writes(s, t, k - 1)
    BY <2>1
  <2> DEFINE more == [i \in 0 .. k |-> IF i = k THEN s[k - 1] \o escape(t[k]) ELSE s[i]]
  <2>3. \A i \in 0 .. k : more[i] = IF i = 0 THEN << 34 >> ELSE more[i - 1] \o escape(t[i])
    <3> SUFFICES ASSUME NEW i \in 0 .. k
                 PROVE  more[i] = IF i = 0 THEN << 34 >> ELSE more[i - 1] \o escape(t[i])
        OBVIOUS
    <3>1. CASE i = k
      BY <3>1, <2>1, <1>3, <1>5
    <3>2. CASE i # k
      <4>1. i \in 0 .. (k - 1) /\ (i # 0 => i - 1 \in 0 .. k /\ i - 1 # k)
        BY <3>2, <2>1
      <4>2. s[i] = IF i = 0 THEN << 34 >> ELSE s[i - 1] \o escape(t[i])
        BY <4>1, <2>2 DEF Writes
      <4> QED
        BY <3>2, <4>1, <4>2
    <3> QED
      BY <3>1, <3>2
  <2>4. Writes(more, t, k)
    BY <2>3 DEF Writes
  <2> QED
    BY <1>3, <2>4
<1> QED
  BY <1>4, <1>5

\* What a text is quoted to: an escape behind another, between quotes.
Written(s, t) ==
    s[0] = << 34 >> /\ \A i \in 1 .. Len(t) : s[i] = s[i - 1] \o escape(t[i])

\* What quote() returns is what its loop has written, and the closing quote.
LEMMA QuoteIs ==
    ASSUME NEW t \in Seq(Nat)
    PROVE  \E s : quote(t) = Append(s[Len(t)], 34) /\ Written(s, t)
<1> DEFINE s == CHOOSE s : Writes(s, t, Len(t))
<1>1. Len(t) \in Nat
  BY LenProperties
<1>2. Writes(s, t, Len(t))
  BY <1>1, WritesExists
<1>3. quote(t) = Append(s[Len(t)], 34)
  BY DEF quote, Writes
<1> HIDE DEF s
<1>4. \A i \in 0 .. Len(t) : s[i] = IF i = 0 THEN << 34 >> ELSE s[i - 1] \o escape(t[i])
  BY <1>2 DEF Writes
<1>5. 0 \in 0 .. Len(t) /\ \A i \in 1 .. Len(t) : i \in 0 .. Len(t) /\ i # 0
  BY <1>1
<1>6. Written(s, t)
  BY <1>4, <1>5 DEF Written
<1> QED
  BY <1>3, <1>6

\* What one escape adds.
LEMMA OneEscapeMore ==
    ASSUME NEW a \in Seq(Nat), NEW ch \in Nat, NEW b, b = a \o escape(ch)
    PROVE  /\ b \in Seq(Nat) /\ Len(a) \in Nat /\ Len(b) \in Nat
           /\ Len(escape(ch)) \in Nat /\ Len(escape(ch)) >= 1
           /\ Len(b) = Len(a) + Len(escape(ch))
           /\ \A k \in 1 .. Len(a) : b[k] = a[k]
           /\ \A k \in 1 .. Len(escape(ch)) : b[Len(a) + k] = escape(ch)[k]
<1>0. escape(ch) \in Seq(Nat) /\ Len(escape(ch)) >= 1
  BY EscapesAreTexts
<1>1. PICK e \in Seq(Nat) : e = escape(ch) /\ Len(e) >= 1
  BY <1>0
<1>2. /\ a \o e \in Seq(Nat) /\ Len(a \o e) = Len(a) + Len(e)
      /\ \A i \in 1 .. Len(a) + Len(e) : (a \o e)[i] = IF i <= Len(a) THEN a[i] ELSE e[i - Len(a)]
  BY ConcatProperties
<1>3. Len(a) \in Nat /\ Len(e) \in Nat
  BY LenProperties
<1>4. \A k \in 1 .. Len(a) : b[k] = a[k]
  BY <1>1, <1>2, <1>3
<1>5. \A k \in 1 .. Len(e) : b[Len(a) + k] = e[k]
  <2> SUFFICES ASSUME NEW k \in 1 .. Len(e) PROVE b[Len(a) + k] = e[k]
      OBVIOUS
  <2>1. Len(a) + k \in 1 .. Len(a) + Len(e) /\ ~(Len(a) + k <= Len(a)) /\ Len(a) + k - Len(a) = k
    BY <1>3
  <2> QED
    BY <1>1, <1>2, <2>1
<1> QED
  BY <1>1, <1>2, <1>3, <1>4, <1>5

\* Where each of the escapes is.
LEMMA EscapesFollow ==
    ASSUME NEW t \in Seq(Nat), NEW s, Written(s, t)
    PROVE  /\ \A i \in 0 .. Len(t) : s[i] \in Seq(Nat) /\ Len(s[i]) \in Nat /\ Len(s[i]) >= 1
           /\ \A i \in 1 .. Len(t) : Len(s[i]) = Len(s[i - 1]) + Len(escape(t[i]))
<1> DEFINE Bad == {i \in 0 .. Len(t) : ~(s[i] \in Seq(Nat) /\ Len(s[i]) \in Nat /\ Len(s[i]) >= 1)}
<1>0. Len(t) \in Nat
  BY LenProperties
<1>1. ASSUME NEW i \in 1 .. Len(t), s[i - 1] \in Seq(Nat), Len(s[i - 1]) >= 1
      PROVE  /\ s[i] \in Seq(Nat) /\ Len(s[i]) \in Nat /\ Len(s[i]) >= 1
             /\ Len(s[i]) = Len(s[i - 1]) + Len(escape(t[i]))
  <2>1. t[i] \in Nat
    BY ElementOfSeq
  <2>2. PICK a \in Seq(Nat) : a = s[i - 1] /\ Len(a) >= 1
    BY <1>1
  <2>c. PICK ch \in Nat : ch = t[i]
    BY <2>1
  <2>3. PICK b : b = s[i] /\ b = a \o escape(ch)
    BY <2>2, <2>c DEF Written
  <2>4. /\ b \in Seq(Nat) /\ Len(a) \in Nat /\ Len(b) \in Nat
        /\ Len(escape(ch)) \in Nat /\ Len(b) = Len(a) + Len(escape(ch))
    BY <2>3, OneEscapeMore
  <2>l. Len(escape(ch)) >= 1
    BY EscapesAreTexts
  <2>5. Len(b) >= 1
    BY <2>2, <2>4, <2>l
  <2> QED
    BY <2>2, <2>c, <2>3, <2>4, <2>5
<1>2. Bad = {}
  <2> SUFFICES ASSUME Bad # {} PROVE FALSE
      OBVIOUS
  <2>1. Bad \in SUBSET Nat
    BY <1>0
  <2>2. PICK i \in Bad : \A m \in Bad : i <= m
    <3> HIDE DEF Bad
    <3> QED
      BY <2>1, LeastOf
  <2>3. i \in 0 .. Len(t) /\ ~(s[i] \in Seq(Nat) /\ Len(s[i]) \in Nat /\ Len(s[i]) >= 1)
    BY <2>2
  <2>4. i # 0
    <3>1. << 34 >> \in Seq(Nat) /\ Len(<< 34 >>) = 1
      OBVIOUS
    <3>2. ASSUME i = 0 PROVE FALSE
      <4>1. s[i] = << 34 >>
        BY <3>2 DEF Written
      <4> QED
        BY <2>3, <3>1, <4>1
    <3> QED
      BY <3>2
  <2>5. i \in 1 .. Len(t) /\ i - 1 \in 0 .. Len(t) /\ ~(i <= i - 1)
    BY <1>0, <2>3, <2>4
  <2>6. i - 1 \notin Bad
    BY <2>2, <2>5
  <2>7. s[i - 1] \in Seq(Nat) /\ Len(s[i - 1]) >= 1
    BY <2>5, <2>6
  <2> QED
    BY <1>1, <2>3, <2>5, <2>7
<1>3. \A i \in 0 .. Len(t) : s[i] \in Seq(Nat) /\ Len(s[i]) \in Nat /\ Len(s[i]) >= 1
  BY <1>2
<1> HIDE DEF Bad
<1>4. ASSUME NEW i \in 1 .. Len(t) PROVE Len(s[i]) = Len(s[i - 1]) + Len(escape(t[i]))
  <2>1. i - 1 \in 0 .. Len(t)
    BY <1>0
  <2> QED
    BY <1>1, <1>3, <2>1
<1> QED
  BY <1>3, <1>4

\* Nothing that is written is written over.
LEMMA WrittenStays ==
    ASSUME NEW t \in Seq(Nat), NEW s, Written(s, t),
           NEW i \in 0 .. Len(t), NEW j \in i .. Len(t)
    PROVE  Len(s[i]) <= Len(s[j]) /\ \A k \in 1 .. Len(s[i]) : s[j][k] = s[i][k]
<1> DEFINE Good(m) == Len(s[i]) <= Len(s[m]) /\ \A k \in 1 .. Len(s[i]) : s[m][k] = s[i][k]
           Bad == {m \in i .. Len(t) : ~Good(m)}
<1>0. Len(t) \in Nat /\ i \in Nat
  BY LenProperties
<1>1. /\ \A m \in 0 .. Len(t) : s[m] \in Seq(Nat) /\ Len(s[m]) \in Nat
      /\ \A m \in 1 .. Len(t) : Len(s[m]) = Len(s[m - 1]) + Len(escape(t[m]))
  BY EscapesFollow
<1>2. Bad = {}
  <2> SUFFICES ASSUME Bad # {} PROVE FALSE
      OBVIOUS
  <2>1. Bad \in SUBSET Nat
    BY <1>0
  <2>2. PICK m \in Bad : \A x \in Bad : m <= x
    <3> HIDE DEF Bad
    <3> QED
      BY <2>1, LeastOf
  <2>3. m \in i .. Len(t) /\ ~Good(m)
    BY <2>2
  <2>4. m # i
    BY <1>0, <1>1, <2>3
  <2>5. m \in 1 .. Len(t) /\ m - 1 \in i .. Len(t) /\ m - 1 \in 0 .. Len(t) /\ ~(m <= m - 1)
    BY <1>0, <2>3, <2>4
  <2>6. Good(m - 1)
    BY <2>2, <2>5
  <2>7. t[m] \in Nat
    BY <2>5, ElementOfSeq
  <2>8. PICK a \in Seq(Nat) : a = s[m - 1]
    BY <1>1, <2>5
  <2>9. PICK b : b = s[m] /\ b = a \o escape(t[m])
    BY <2>5, <2>8 DEF Written
  <2>10. /\ Len(a) \in Nat /\ Len(b) \in Nat /\ Len(a) <= Len(b)
         /\ \A k \in 1 .. Len(a) : b[k] = a[k]
    BY <2>7, <2>9, OneEscapeMore, SMTT(30)
  <2>11. Len(s[i]) \in Nat /\ Len(s[i]) <= Len(a) /\ \A k \in 1 .. Len(s[i]) : a[k] = s[i][k]
    BY <1>1, <2>6, <2>8
  <2>12. Len(s[i]) <= Len(b) /\ \A k \in 1 .. Len(s[i]) : b[k] = s[i][k]
    BY <2>10, <2>11
  <2> QED
    BY <2>3, <2>9, <2>12
<1>3. Good(j)
  BY <1>2
<1> QED
  BY <1>3

\* Every character that is written can be printed.
LEMMA WrittenIsPrintable ==
    ASSUME NEW t \in Seq(Nat), NEW s, Written(s, t)
    PROVE  \A i \in 0 .. Len(t) : \A k \in 1 .. Len(s[i]) : s[i][k] >= 32
<1> DEFINE Good(m) == \A k \in 1 .. Len(s[m]) : s[m][k] >= 32
           Bad == {m \in 0 .. Len(t) : ~Good(m)}
<1>0. Len(t) \in Nat
  BY LenProperties
<1>1. \A m \in 0 .. Len(t) : s[m] \in Seq(Nat) /\ Len(s[m]) \in Nat
  BY EscapesFollow
<1>2. Bad = {}
  <2> SUFFICES ASSUME Bad # {} PROVE FALSE
      OBVIOUS
  <2>1. Bad \in SUBSET Nat
    BY <1>0
  <2>2. PICK m \in Bad : \A x \in Bad : m <= x
    <3> HIDE DEF Bad
    <3> QED
      BY <2>1, LeastOf
  <2>3. m \in 0 .. Len(t) /\ ~Good(m)
    BY <2>2
  <2>4. ASSUME m = 0 PROVE FALSE
    <3>1. s[m] = << 34 >>
      BY <2>4 DEF Written
    <3>2. Len(s[m]) = 1 /\ s[m][1] = 34
      BY <3>1
    <3> QED
      BY <2>3, <3>2
  <2>5. m \in 1 .. Len(t) /\ m - 1 \in 0 .. Len(t) /\ ~(m <= m - 1)
    BY <1>0, <2>3, <2>4
  <2>6. Good(m - 1)
    BY <2>2, <2>5
  <2>7. t[m] \in Nat
    BY <2>5, ElementOfSeq
  <2>8. PICK a \in Seq(Nat) : a = s[m - 1]
    BY <1>1, <2>5
  <2>9. PICK ch \in Nat : ch = t[m]
    BY <2>7
  <2>10. PICK b : b = s[m] /\ b = a \o escape(ch)
    BY <2>5, <2>8, <2>9 DEF Written
  <2>11. PICK e : e = escape(ch)
    OBVIOUS
  <2>12. /\ Len(a) \in Nat /\ Len(e) \in Nat /\ Len(b) = Len(a) + Len(e)
         /\ \A k \in 1 .. Len(a) : b[k] = a[k]
         /\ \A k \in 1 .. Len(e) : b[Len(a) + k] = e[k]
    BY <2>10, <2>11, OneEscapeMore
  <2>13. \A k \in 1 .. Len(e) : e[k] >= 32
    BY <2>11, EscapesAreTexts
  <2>14. \A k \in 1 .. Len(a) : a[k] >= 32
    BY <2>6, <2>8
  <2>15. ASSUME NEW k \in 1 .. Len(b) PROVE b[k] >= 32
    <3>1. CASE k <= Len(a)
      <4>1. k \in 1 .. Len(a)
        BY <3>1, <2>12
      <4> QED
        BY <4>1, <2>12, <2>14
    <3>2. CASE ~(k <= Len(a))
      <4>1. k - Len(a) \in 1 .. Len(e) /\ Len(a) + (k - Len(a)) = k
        BY <3>2, <2>12
      <4> QED
        BY <4>1, <2>12, <2>13
    <3> QED
      BY <3>1, <3>2
  <2> QED
    BY <2>3, <2>10, <2>15
<1> QED
  BY <1>2

-----------------------------------------------------------------------------
(* What is read of it *)

\* A reading looks at nothing but what is read behind it.
LEMMA ReadDepends ==
    ASSUME NEW q, Len(q) \in Nat, NEW i \in Nat, NEW g, NEW h,
           i <= Len(q) => g[i + 1] = h[i + 1] /\ g[i + 2] = h[i + 2] /\ g[i + 6] = h[i + 6]
    PROVE  ReadAt(q, i, g) = ReadAt(q, i, h)
<1>1. CASE i <= Len(q)
  BY <1>1 DEF ReadAt
<1>2. CASE ~(i <= Len(q))
  BY <1>2 DEF ReadAt
<1> QED
  BY <1>1, <1>2

\* What a reader reads of q from m on.
Reads(f, q, m) == f = [i \in m .. Len(q) + 6 |-> ReadAt(q, i, f)]

\* That the reader has its values, from the last character backwards.
LEMMA ReadsExists ==
    ASSUME NEW q, Len(q) \in Nat
    PROVE  \E f : Reads(f, q, 2)
<1> DEFINE From(d) == Len(q) + 7 - d
           Without == {d \in 0 .. Len(q) + 5 : ~\E f : Reads(f, q, From(d))}
<1>1. Without = {}
  <2> SUFFICES ASSUME Without # {} PROVE FALSE
      OBVIOUS
  <2>1. Without \in SUBSET Nat
    OBVIOUS
  <2>2. PICK d \in Without : \A x \in Without : d <= x
    <3> HIDE DEF Without
    <3> QED
      BY <2>1, LeastOf
  <2>3. d \in 0 .. Len(q) + 5 /\ ~\E f : Reads(f, q, From(d))
    BY <2>2
  <2>4. d # 0
    <3> SUFFICES ASSUME d = 0 PROVE FALSE
        OBVIOUS
    <3> DEFINE f == [i \in From(d) .. Len(q) + 6 |-> << >>]
    <3>1. From(d) .. Len(q) + 6 = {}
      OBVIOUS
    <3>2. Reads(f, q, From(d))
      BY <3>1 DEF Reads
    <3> QED
      BY <2>3, <3>2
  <2>5. d - 1 \in 0 .. Len(q) + 5 /\ ~(d <= d - 1)
    BY <2>3, <2>4
  <2>6. PICK g : Reads(g, q, From(d - 1))
    BY <2>2, <2>5
  <2>7. PICK m \in Nat : m = From(d) /\ m + 1 = From(d - 1)
    <3>1. d \in 0 .. Len(q) + 5
      BY <2>3
    <3>2. From(d) \in Nat /\ From(d) + 1 = From(d - 1)
      BY <3>1
    <3> HIDE DEF From
    <3> QED
      BY <3>2
  <2>8. g = [i \in m + 1 .. Len(q) + 6 |-> ReadAt(q, i, g)]
    BY <2>6, <2>7 DEF Reads
  <2> DEFINE more == [i \in m .. Len(q) + 6 |-> IF i = m THEN ReadAt(q, m, g) ELSE g[i]]
  <2>9. PICK h : h = more
    OBVIOUS
  <2>10. \A i \in m .. Len(q) + 6 : h[i] = ReadAt(q, i, h)
    <3> SUFFICES ASSUME NEW i \in m .. Len(q) + 6 PROVE h[i] = ReadAt(q, i, h)
        OBVIOUS
    <3>1. h[i] = ReadAt(q, i, g)
      <4>1. CASE i = m
        BY <4>1, <2>9
      <4>2. CASE i # m
        <5>1. i \in m + 1 .. Len(q) + 6
          BY <4>2
        <5> QED
          BY <4>2, <5>1, <2>8, <2>9
      <4> QED
        BY <4>1, <4>2
    <3>2. ASSUME i <= Len(q)
          PROVE  g[i + 1] = h[i + 1] /\ g[i + 2] = h[i + 2] /\ g[i + 6] = h[i + 6]
      <4>1. ASSUME NEW j \in {i + 1, i + 2, i + 6} PROVE j \in m .. Len(q) + 6 /\ j # m
        BY <3>2
      <4> QED
        BY <4>1, <2>9
    <3>3. i \in Nat
      OBVIOUS
    <3>4. ReadAt(q, i, g) = ReadAt(q, i, h)
      BY <3>2, <3>3, ReadDepends
    <3> QED
      BY <3>1, <3>4
  <2>11. Reads(h, q, m)
    BY <2>9, <2>10 DEF Reads
  <2> QED
    BY <2>3, <2>7, <2>11
<1>2. Len(q) + 5 \in 0 .. Len(q) + 5 /\ From(Len(q) + 5) = 2
  OBVIOUS
<1> QED
  BY <1>1, <1>2

\* What the reader returns is what it reads from the second character on.
LEMMA UnquotedIs ==
    ASSUME NEW q, Len(q) \in Nat
    PROVE  \E f : Unquoted(q) = f[2] /\ \A i \in 2 .. Len(q) + 6 : f[i] = ReadAt(q, i, f)
<1> DEFINE f == CHOOSE f : Reads(f, q, 2)
<1>1. Reads(f, q, 2)
  BY ReadsExists
<1>2. Unquoted(q) = f[2]
  BY DEF Unquoted, Reads
<1> HIDE DEF f
<1>3. \A i \in 2 .. Len(q) + 6 : f[i] = ReadAt(q, i, f)
  BY <1>1 DEF Reads
<1> QED
  BY <1>2, <1>3

\* A backslash and a letter are read as what the letter stands for,
LEMMA LetterIsRead ==
    ASSUME NEW q \in Seq(Nat), NEW a \in 1 .. Len(q), a + 1 <= Len(q), NEW rest,
           q[a] = 92, q[a + 1] # 117
    PROVE  ReadAt(q, a, rest) = << Meaning(q[a + 1]) >> \o rest[a + 2]
<1>1. Len(q) \in Nat /\ DOMAIN q = 1 .. Len(q)
  BY LenProperties
<1>2. a \in DOMAIN q /\ a + 1 \in DOMAIN q /\ ~(a > Len(q))
  BY <1>1
<1>3. At(q, a) = 92 /\ At(q, a + 1) = q[a + 1]
  BY <1>2 DEF At
<1>4. At(q, a) # 34 /\ At(q, a + 1) # 117
  BY <1>3
<1> QED
  BY <1>2, <1>3, <1>4, Zenon DEF ReadAt

\* a character that is not escaped as itself,
LEMMA PlainIsRead ==
    ASSUME NEW q \in Seq(Nat), NEW a \in 1 .. Len(q), NEW rest, q[a] \notin {34, 92}
    PROVE  ReadAt(q, a, rest) = << q[a] >> \o rest[a + 1]
<1>1. Len(q) \in Nat /\ DOMAIN q = 1 .. Len(q)
  BY LenProperties
<1>2. a \in DOMAIN q /\ ~(a > Len(q))
  BY <1>1
<1>3. At(q, a) = q[a]
  BY <1>2 DEF At
<1> QED
  BY <1>2, <1>3 DEF ReadAt

\* and a backslash, a u and four digits as the number of the last two.
LEMMA DigitsAreRead ==
    ASSUME NEW q \in Seq(Nat), NEW a \in 1 .. Len(q), a + 5 <= Len(q), NEW rest,
           q[a] = 92, q[a + 1] = 117
    PROVE  ReadAt(q, a, rest) = << Coded(q[a + 4], q[a + 5]) >> \o rest[a + 6]
<1>1. Len(q) \in Nat /\ DOMAIN q = 1 .. Len(q)
  BY LenProperties
<1>2. /\ a \in DOMAIN q /\ a + 1 \in DOMAIN q /\ a + 4 \in DOMAIN q /\ a + 5 \in DOMAIN q
      /\ ~(a > Len(q))
  BY <1>1
<1>3. /\ At(q, a) = 92 /\ At(q, a + 1) = 117
      /\ At(q, a + 4) = q[a + 4] /\ At(q, a + 5) = q[a + 5]
  BY <1>2 DEF At
<1>4. At(q, a) # 34
  BY <1>3
<1> QED
  BY <1>2, <1>3, <1>4, Zenon DEF ReadAt

\* Behind the first characters of q stands e.
Stands(e, q, before) ==
    before + Len(e) <= Len(q) /\ \A j \in 1 .. Len(e) : q[before + j] = e[j]

\* An escape is read as the character it was made of.
LEMMA EscapeIsRead ==
    ASSUME NEW ch \in Nat, NEW q \in Seq(Nat), NEW before \in Nat,
           Stands(escape(ch), q, before), NEW rest
    PROVE  ReadAt(q, before + 1, rest) = << ch >> \o rest[before + Len(escape(ch)) + 1]
<1>0. PICK e : e = escape(ch) /\ Stands(e, q, before)
  OBVIOUS
<1>1. Len(q) \in Nat
  BY LenProperties
<1>2. PICK a : a = before + 1
  OBVIOUS
<1>3. ASSUME NEW c \in Nat, c # 117, Meaning(c) = ch, e = << 92, c >>
      PROVE  ReadAt(q, a, rest) = << ch >> \o rest[before + Len(e) + 1]
  <2>1. Len(e) = 2 /\ e[1] = 92 /\ e[2] = c
    BY <1>3
  <2>2. q[before + 1] = 92 /\ q[before + 2] = c /\ before + 2 <= Len(q)
    BY <1>0, <2>1 DEF Stands
  <2>3. /\ a \in 1 .. Len(q) /\ a + 1 <= Len(q) /\ a + 1 = before + 2
        /\ a + 2 = before + Len(e) + 1
    BY <1>1, <1>2, <2>1, <2>2
  <2>4. q[a] = 92 /\ q[a + 1] = c /\ q[a + 1] # 117
    BY <1>2, <1>3, <2>2, <2>3
  <2>5. ReadAt(q, a, rest) = << Meaning(q[a + 1]) >> \o rest[a + 2]
    <3>1. a + 1 <= Len(q) /\ q[a] = 92 /\ q[a + 1] # 117
              => ReadAt(q, a, rest) = << Meaning(q[a + 1]) >> \o rest[a + 2]
      <4>1. a \in 1 .. Len(q)
        BY <2>3
      <4> QED
        BY <4>1, LetterIsRead
    <3> QED
      BY <2>3, <2>4, <3>1
  <2> QED
    BY <1>3, <2>3, <2>4, <2>5
<1>4. CASE ch \in {34, 92, 10, 13, 9}
  <2>1. ASSUME NEW c \in Nat, c # 117, Meaning(c) = ch, escape(ch) = << 92, c >>
        PROVE  ReadAt(q, before + 1, rest) = << ch >> \o rest[before + Len(escape(ch)) + 1]
    BY <1>0, <1>2, <1>3, <2>1
  <2>2. /\ Meaning(34) = 34 /\ Meaning(92) = 92
        /\ Meaning(110) = 10 /\ Meaning(114) = 13 /\ Meaning(116) = 9
    BY DEF Meaning
  <2>3. CASE ch = 34
    BY <2>1, <2>2, <2>3, EscapeIs, SMTT(30)
  <2>4. CASE ch = 92
    BY <2>1, <2>2, <2>4, EscapeIs, SMTT(30)
  <2>5. CASE ch = 10
    BY <2>1, <2>2, <2>5, EscapeIs, SMTT(30)
  <2>6. CASE ch = 13
    BY <2>1, <2>2, <2>6, EscapeIs, SMTT(30)
  <2>7. CASE ch = 9
    BY <2>1, <2>2, <2>7, EscapeIs, SMTT(30)
  <2> QED
    BY <1>4, <2>3, <2>4, <2>5, <2>6, <2>7
<1>5. CASE ch < 32 /\ ch \notin {9, 10, 13}
  <2>1. PICK high, low : high = ch \div 16 /\ low = ch % 16
    OBVIOUS
  <2>2. high \in 0 .. 1 /\ low \in 0 .. 15 /\ 16 * high + low = ch
    BY <1>5, <2>1
  <2>3. HexValue(hex(high)) = high /\ HexValue(hex(low)) = low
    BY <2>2 DEF hex, HexValue
  <2>4. PICK c, d : c = hex(high) /\ d = hex(low)
    OBVIOUS
  <2>5. e = << 92, 117, 48, 48, c, d >>
    BY <1>0, <1>5, <2>1, <2>4, EscapeIs
  <2>6. /\ Len(e) = 6 /\ e[1] = 92 /\ e[2] = 117 /\ e[5] = c /\ e[6] = d
    BY <2>5
  <2>7. /\ q[before + 1] = 92 /\ q[before + 2] = 117
        /\ q[before + 5] = c /\ q[before + 6] = d /\ before + 6 <= Len(q)
    BY <1>0, <2>6 DEF Stands
  <2>8. /\ a \in 1 .. Len(q) /\ a + 5 <= Len(q) /\ a + 1 = before + 2
        /\ a + 4 = before + 5 /\ a + 5 = before + 6 /\ a + 6 = before + Len(e) + 1
    BY <1>1, <1>2, <2>6, <2>7
  <2>9. q[a] = 92 /\ q[a + 1] = 117 /\ q[a + 4] = c /\ q[a + 5] = d
    BY <1>2, <2>7, <2>8
  <2>10. ReadAt(q, a, rest) = << Coded(q[a + 4], q[a + 5]) >> \o rest[a + 6]
    <3>1. a + 5 <= Len(q) /\ q[a] = 92 /\ q[a + 1] = 117
              => ReadAt(q, a, rest) = << Coded(q[a + 4], q[a + 5]) >> \o rest[a + 6]
      <4>1. a \in 1 .. Len(q)
        BY <2>8
      <4> QED
        BY <4>1, DigitsAreRead
    <3> QED
      BY <2>8, <2>9, <3>1
  <2>11. Coded(q[a + 4], q[a + 5]) = ch
    BY <2>2, <2>3, <2>4, <2>9 DEF Coded
  <2> QED
    BY <1>0, <1>2, <2>8, <2>10, <2>11
<1>6. CASE ch >= 32 /\ ch # 34 /\ ch # 92
  <2>1. e = << ch >>
    BY <1>0, <1>6, EscapeIs
  <2>2. Len(e) = 1 /\ e[1] = ch
    BY <2>1
  <2>3. a \in 1 .. Len(q) /\ a + 1 = before + Len(e) + 1 /\ q[a] = ch
    BY <1>0, <1>1, <1>2, <2>2 DEF Stands
  <2>4. ReadAt(q, a, rest) = << q[a] >> \o rest[a + 1]
    BY <1>6, <2>3, PlainIsRead
  <2> QED
    BY <1>0, <1>2, <2>2, <2>3, <2>4
<1> QED
  BY <1>0, <1>2, <1>4, <1>5, <1>6

\* The rest of a text begins with its first character.
LEMMA RestOfText ==
    ASSUME NEW t \in Seq(Nat), NEW i \in 0 .. Len(t) - 1
    PROVE  << t[i + 1] >> \o SubSeq(t, i + 2, Len(t)) = SubSeq(t, i + 1, Len(t))
<1>1. Len(t) \in Nat
  BY LenProperties
<1> QED
  BY <1>1

\* A quoted text is read back as it was, and nothing in it breaks the line.
LEMMA QuoteReadsBack ==
    ASSUME NEW t \in Seq(Nat)
    PROVE  /\ Unquoted(quote(t)) = t
           /\ \A k \in DOMAIN quote(t) : quote(t)[k] >= 32
<1>1. Len(t) \in Nat
  BY LenProperties
<1>2. PICK s : quote(t) = Append(s[Len(t)], 34) /\ Written(s, t)
  BY QuoteIs
<1>3. /\ \A i \in 0 .. Len(t) : s[i] \in Seq(Nat) /\ Len(s[i]) \in Nat /\ Len(s[i]) >= 1
      /\ \A i \in 1 .. Len(t) : Len(s[i]) = Len(s[i - 1]) + Len(escape(t[i]))
  BY <1>2, EscapesFollow
<1>4. PICK all \in Seq(Nat) : all = s[Len(t)] /\ Len(all) \in Nat /\ Len(all) >= 1
  BY <1>1, <1>3
<1>5. PICK q : q = quote(t)
  OBVIOUS
<1>6. /\ q \in Seq(Nat) /\ Len(q) = Len(all) + 1 /\ q[Len(q)] = 34
      /\ \A k \in 1 .. Len(all) : q[k] = all[k]
  <2>1. q = Append(all, 34) /\ 34 \in Nat
    BY <1>2, <1>4, <1>5
  <2> QED
    BY <2>1, AppendProperties
<1>s. Len(q) \in Nat /\ Len(all) \in Nat /\ Len(all) >= 1 /\ Len(q) = Len(all) + 1
  BY <1>4, <1>6
<1>7. PICK f : Unquoted(q) = f[2] /\ \A i \in 2 .. Len(q) + 6 : f[i] = ReadAt(q, i, f)
  <2>1. Len(q) \in Nat
    BY <1>4, <1>6
  <2> QED
    BY <2>1, UnquotedIs
<1>8. f[Len(s[Len(t)]) + 1] = << >>
  <2>1. PICK end \in Nat : end = Len(q)
    BY <1>s
  <2>2. end \in 2 .. Len(q) + 6 /\ end \in 1 .. Len(q) /\ ~(end > Len(q))
    BY <1>s, <2>1
  <2>3. f[end] = ReadAt(q, end, f)
    BY <1>7, <2>2
  <2>4. end \in DOMAIN q
    BY <1>6, <2>2, LenProperties
  <2>5. At(q, end) = 34
    BY <1>6, <2>1, <2>4 DEF At
  <2>6. ReadAt(q, end, f) = << >>
    BY <2>1, <2>2, <2>5 DEF ReadAt
  <2>7. Len(s[Len(t)]) + 1 = end
    BY <1>4, <1>s, <2>1
  <2> QED
    BY <2>3, <2>6, <2>7
<1>9. ASSUME NEW i \in 0 .. Len(t) - 1, NEW next \in 1 .. Len(t), next = i + 1,
             f[Len(s[next]) + 1] = SubSeq(t, next + 1, Len(t))
      PROVE  f[Len(s[i]) + 1] = SubSeq(t, i + 1, Len(t))
  <2>1. next \in 0 .. Len(t) /\ next - 1 = i /\ i \in 0 .. Len(t) /\ next + 1 = i + 2
    BY <1>1, <1>9
  <2>2. PICK ch \in Nat : ch = t[next]
    BY ElementOfSeq
  <2>3. PICK e : e = escape(ch)
    OBVIOUS
  <2>4. PICK a \in Seq(Nat) : a = s[i] /\ Len(a) >= 1
    BY <1>3, <2>1
  <2>5. PICK b : b = s[next] /\ b = a \o escape(ch)
    BY <1>2, <2>1, <2>2, <2>4 DEF Written
  <2>6. /\ Len(a) \in Nat /\ Len(b) \in Nat /\ Len(e) \in Nat
        /\ Len(b) = Len(a) + Len(e)
        /\ \A k \in 1 .. Len(e) : b[Len(a) + k] = e[k]
    BY <2>3, <2>5, OneEscapeMore
  <2>7. Len(b) <= Len(all) /\ \A k \in 1 .. Len(b) : all[k] = b[k]
    <3>1. Len(t) \in next .. Len(t)
      BY <1>1
    <3>2. PICK j : j = Len(t)
      OBVIOUS
    <3>3. next \in 0 .. Len(t) /\ j \in next .. Len(t) /\ Written(s, t)
      BY <1>2, <2>1, <3>1, <3>2
    <3>4. Len(s[next]) <= Len(s[j]) /\ \A k \in 1 .. Len(s[next]) : s[j][k] = s[next][k]
      BY <3>3, WrittenStays
    <3> QED
      BY <1>4, <2>5, <3>2, <3>4
  <2>8. Len(a) <= Len(b) /\ Len(b) < Len(q)
    BY <1>s, <2>6, <2>7
  <2>9. Stands(e, q, Len(a))
    <3>1. \A k \in 1 .. Len(e) : Len(a) + k \in 1 .. Len(b) /\ Len(a) + k \in 1 .. Len(all)
      BY <1>s, <2>6, <2>7
    <3>2. \A k \in 1 .. Len(e) : q[Len(a) + k] = e[k]
      BY <1>6, <2>6, <2>7, <3>1
    <3>3. Len(a) + Len(e) <= Len(q)
      BY <1>s, <2>6, <2>8
    <3> QED
      BY <3>2, <3>3 DEF Stands
  <2>10. ReadAt(q, Len(a) + 1, f) = << ch >> \o f[Len(a) + Len(e) + 1]
    <3>1. PICK before \in Nat : before = Len(a)
      BY <2>6
    <3>2. Stands(escape(ch), q, before)
      BY <2>3, <2>9, <3>1
    <3>3. q \in Seq(Nat)
      BY <1>6
    <3>4. ReadAt(q, before + 1, f) = << ch >> \o f[before + Len(escape(ch)) + 1]
      BY <3>2, <3>3, EscapeIsRead
    <3> QED
      BY <2>3, <3>1, <3>4
  <2>11. f[Len(a) + 1] = ReadAt(q, Len(a) + 1, f)
    <3>1. Len(a) + 1 \in 2 .. Len(q) + 6
      <4>1. PICK before, long \in Nat :
               before = Len(a) /\ before >= 1 /\ long = Len(q) /\ before < long
        BY <1>s, <2>4, <2>6, <2>8
      <4> QED
        BY <4>1
    <3> QED
      BY <1>7, <3>1
  <2>12. f[Len(a) + 1] = << t[i + 1] >> \o SubSeq(t, i + 2, Len(t))
    <3>1. Len(a) + Len(e) + 1 = Len(b) + 1
      BY <2>6
    <3> QED
      BY <1>9, <2>1, <2>2, <2>5, <2>10, <2>11, <3>1
  <2>13. f[Len(a) + 1] = SubSeq(t, i + 1, Len(t))
    BY <2>12, RestOfText
  <2> QED
    BY <2>4, <2>13
<1> DEFINE Good(i) == f[Len(s[i]) + 1] = SubSeq(t, i + 1, Len(t))
           Bad == {d \in 0 .. Len(t) : ~Good(Len(t) - d)}
<1>10. ASSUME NEW i \in 0 .. Len(t) - 1, Good(i + 1)
       PROVE  Good(i)
  <2>1. PICK next \in 1 .. Len(t) : next = i + 1
    BY <1>1
  <2> QED
    BY <1>9, <1>10, <2>1
<1>11. Good(Len(t))
  <2>1. SubSeq(t, Len(t) + 1, Len(t)) = << >>
    BY <1>1
  <2> QED
    BY <1>8, <2>1
<1> HIDE DEF Good
<1>12. Bad = {}
  <2> SUFFICES ASSUME Bad # {} PROVE FALSE
      OBVIOUS
  <2>1. Bad \in SUBSET Nat
    BY <1>1
  <2>2. PICK d \in Bad : \A x \in Bad : d <= x
    <3> HIDE DEF Bad
    <3> QED
      BY <2>1, LeastOf
  <2>3. d \in 0 .. Len(t) /\ ~Good(Len(t) - d)
    BY <2>2
  <2>4. d # 0
    <3>1. Len(t) - 0 = Len(t)
      BY <1>1
    <3> QED
      BY <1>11, <2>3, <3>1
  <2>5. d - 1 \in 0 .. Len(t) /\ ~(d <= d - 1)
    BY <1>1, <2>3, <2>4
  <2>6. Good(Len(t) - (d - 1))
    BY <2>2, <2>5
  <2>7. Len(t) - (d - 1) = (Len(t) - d) + 1 /\ Len(t) - d \in 0 .. Len(t) - 1
    BY <1>1, <2>3, <2>4
  <2> QED
    BY <1>10, <2>3, <2>6, <2>7
<1>13. Unquoted(q) = t
  <2>1. Len(t) \in 0 .. Len(t) /\ Len(t) - Len(t) = 0
    BY <1>1
  <2>2. Good(0)
    BY <1>12, <2>1
  <2>3. Len(s[0]) = 1
    BY <1>2 DEF Written
  <2>4. f[2] = SubSeq(t, 1, Len(t))
    BY <2>2, <2>3 DEF Good
  <2>5. SubSeq(t, 1, Len(t)) = t
    BY <1>1
  <2> QED
    BY <1>7, <2>4, <2>5
<1>14. \A k \in DOMAIN q : q[k] >= 32
  <2>1. \A k \in 1 .. Len(all) : all[k] >= 32
    <3>1. Len(t) \in 0 .. Len(t)
      BY <1>1
    <3> QED
      BY <1>2, <1>4, <3>1, WrittenIsPrintable
  <2>2. DOMAIN q = 1 .. Len(q)
    BY <1>6, LenProperties
  <2>3. \A k \in 1 .. Len(q) : k \in 1 .. Len(all) \/ k = Len(q)
    BY <1>4, <1>6
  <2> QED
    BY <1>6, <2>1, <2>2, <2>3
<1> QED
  BY <1>5, <1>13, <1>14

\* The line of every record that is recorded stands where LineOf looks for it.
LEMMA LinesAreFound ==
    ASSUME DumpInv, NEW i \in Recorded(given, Len(given))
    PROVE  /\ i \in 1 .. Len(view) /\ given[i] = view[i]
           /\ LineOf(i) = line(Cardinality(Recorded(given, i)) - 1, given[i])
<1>1. /\ view \in Views /\ Len(given) \in Nat /\ Len(view) \in Nat /\ Len(given) <= Len(view)
      /\ \A k \in 1 .. Len(given) : given[k] = view[k]
  BY ViewsAreSequences, LenProperties DEF DumpInv, GivenInOrder
<1>2. i \in 1 .. Len(given)
  BY DEF Recorded
<1>3. ASSUME NEW k \in 1 .. Len(given) PROVE Recorded(given, k) = Recorded(view, k)
  <2>1. \A j \in 1 .. k : j \in 1 .. Len(given)
    BY <1>1
  <2>2. \A j \in 1 .. k : given[j] = view[j]
    BY <1>1, <2>1
  <2> QED
    BY <2>2 DEF Recorded
<1>4. Recorded(given, i) = Recorded(view, i)
  BY <1>2, <1>3
<1>5. i \in Recorded(view, Len(given))
  BY <1>1, <1>2 DEF Recorded
<1>6. out[Cardinality(Recorded(view, i))] = line(Cardinality(Recorded(view, i)) - 1, view[i])
  BY <1>5 DEF DumpInv, LinesInOrder
<1> QED
  BY <1>1, <1>2, <1>4, <1>6 DEF LineOf

\* Whatever the view: every text that was given is printed so that it can be read back
\* from its line, which nothing in it breaks.
THEOREM TextsStayWholeHolds == Spec => []TextsStayWhole
<1>1. DumpInv => TextsStayWhole
  <2> SUFFICES ASSUME DumpInv, NEW i \in Recorded(given, Len(given)),
                      given[i].type \in {"Text", "Warning"}
               PROVE  /\ \A k \in DOMAIN LineOf(i).quoted : LineOf(i).quoted[k] >= 32
                      /\ Unquoted(LineOf(i).quoted) = given[i].text
      BY DEF TextsStayWhole
  <2>1. PICK k : LineOf(i) = line(k, given[i])
    BY LinesAreFound
  <2>2. given[i].text \in Seq(Nat)
    BY LinesAreFound, ViewsAreSequences DEF DumpInv, GivenInOrder
  <2>3. LineOf(i).quoted = quote(given[i].text)
    <3>1. CASE given[i].type = "Warning"
      BY <2>1, <3>1 DEF line, warning
    <3>2. CASE given[i].type = "Text"
      BY <2>1, <3>2 DEF line, primitive
    <3> QED
      BY <3>1, <3>2
  <2> QED
    BY <2>2, <2>3, QuoteReadsBack
<1> QED
  BY <1>1, DumpInvariance, PTL
-----------------------------------------------------------------------------
(* Numbers *)

Digits == 0 .. 9

\* The values of the first digits of d, up to len of them.
ValuesOf(f, d, len) ==
    f = [i \in 0 .. len |-> IF i = 0 THEN 0 ELSE 10 * f[i - 1] + d[i]]

\* That they exist for every length.
LEMMA ValuesExist ==
    ASSUME NEW d, NEW len \in Nat
    PROVE  \E f : ValuesOf(f, d, len)
<1> DEFINE Without == {k \in Nat : ~\E f : ValuesOf(f, d, k)}
<1>1. SUFFICES ASSUME Without # {} PROVE FALSE
  BY <1>1
<1>2. PICK k \in Without : \A m \in Without : k <= m
  BY <1>1, LeastOf
<1>3. k \in Nat /\ ~\E f : ValuesOf(f, d, k)
  BY <1>2
<1>4. CASE k = 0
  <2>1. ValuesOf([i \in 0 .. 0 |-> 0], d, 0)
    BY DEF ValuesOf
  <2> QED
    BY <1>3, <1>4, <2>1
<1>5. CASE k # 0
  <2>1. k - 1 \in Nat /\ k - 1 \notin Without
    BY <1>2, <1>3, <1>5
  <2>2. PICK f : ValuesOf(f, d, k - 1)
    BY <2>1
  <2> DEFINE more == [i \in 0 .. k |-> IF i = k THEN 10 * f[k - 1] + d[k] ELSE f[i]]
  <2>3. \A i \in 0 .. k : more[i] = IF i = 0 THEN 0 ELSE 10 * more[i - 1] + d[i]
    <3> SUFFICES ASSUME NEW i \in 0 .. k
                 PROVE  more[i] = IF i = 0 THEN 0 ELSE 10 * more[i - 1] + d[i]
        OBVIOUS
    <3>1. CASE i = k
      BY <3>1, <2>1, <1>3, <1>5
    <3>2. CASE i # k
      <4>1. i \in 0 .. (k - 1) /\ (i # 0 => i - 1 \in 0 .. k /\ i - 1 # k)
        BY <3>2, <2>1
      <4>2. f[i] = IF i = 0 THEN 0 ELSE 10 * f[i - 1] + d[i]
        BY <4>1, <2>2 DEF ValuesOf
      <4> QED
        BY <3>2, <4>1, <4>2
    <3> QED
      BY <3>1, <3>2
  <2>4. ValuesOf(more, d, k)
    BY <2>3 DEF ValuesOf
  <2> QED
    BY <1>3, <2>4
<1> QED
  BY <1>4, <1>5

\* What Number computes: its steps, and that nothing else takes them.
Steps(f, d) == f[0] = 0 /\ \A i \in 1 .. Len(d) : f[i] = 10 * f[i - 1] + d[i]

\* Number is the last of its steps,
LEMMA NumberIs ==
    ASSUME NEW d, Len(d) \in Nat
    PROVE  \E f : Steps(f, d) /\ Number(d) = f[Len(d)]
<1> DEFINE f == CHOOSE f : ValuesOf(f, d, Len(d))
<1>1. ValuesOf(f, d, Len(d))
  BY ValuesExist
<1>2. Number(d) = f[Len(d)]
  BY DEF Number, ValuesOf
<1> HIDE DEF f
<1>3. \A i \in 0 .. Len(d) : f[i] = IF i = 0 THEN 0 ELSE 10 * f[i - 1] + d[i]
  BY <1>1 DEF ValuesOf
<1>4. 0 \in 0 .. Len(d) /\ \A i \in 1 .. Len(d) : i \in 0 .. Len(d) /\ i # 0
  OBVIOUS
<1>5. Steps(f, d)
  BY <1>3, <1>4 DEF Steps
<1> QED
  BY <1>2, <1>5

\* Induction on the places of a sequence, as the lemmas below need it: the set of
\* the places at which something fails has no least element.
LEMMA NoLeast ==
    ASSUME NEW T \in SUBSET Nat, NEW top \in Nat, \A k \in T : k <= top, 0 \notin T,
           \A k \in 0 .. top : k \notin T => k + 1 \notin T
    PROVE  T = {}
<1>1. SUFFICES ASSUME T # {} PROVE FALSE
  OBVIOUS
<1>2. PICK k \in T : \A m \in T : k <= m
  BY <1>1, LeastOf
<1>3. k \in Nat /\ k # 0 /\ k <= top
  BY <1>2
<1>4. PICK m \in Nat : m = k - 1
  BY <1>3
<1>5. m \in 0 .. top /\ m + 1 = k /\ ~(k <= m)
  BY <1>3, <1>4
<1>6. m \notin T
  BY <1>2, <1>5
<1> QED
  BY <1>2, <1>5, <1>6

\* whichever function takes them.
LEMMA NumberFrom ==
    ASSUME NEW d, Len(d) \in Nat, NEW f, Steps(f, d)
    PROVE  Number(d) = f[Len(d)]
<1>1. PICK g : Steps(g, d) /\ Number(d) = g[Len(d)]
  BY NumberIs
<1> DEFINE Bad == {i \in 0 .. Len(d) : f[i] # g[i]}
<1>2. Bad \in SUBSET Nat /\ \A k \in Bad : k <= Len(d)
  OBVIOUS
<1>3. 0 \notin Bad
  BY <1>1 DEF Steps
<1>4. ASSUME NEW k \in 0 .. Len(d), k \notin Bad PROVE k + 1 \notin Bad
  <2>1. SUFFICES ASSUME k + 1 \in 0 .. Len(d) PROVE f[k + 1] = g[k + 1]
    OBVIOUS
  <2>2. f[k] = g[k]
    BY <1>4
  <2>3. PICK next \in 1 .. Len(d) : next = k + 1 /\ next - 1 = k
    BY <2>1
  <2>4. f[next] = 10 * f[next - 1] + d[next] /\ g[next] = 10 * g[next - 1] + d[next]
    BY <1>1 DEF Steps
  <2> QED
    BY <2>2, <2>3, <2>4
<1>5. Bad = {}
  <2> HIDE DEF Bad
  <2> QED
    BY <1>2, <1>3, <1>4, NoLeast
<1> QED
  BY <1>1, <1>5

\* The values of digits are natural numbers.
LEMMA StepsAreNat ==
    ASSUME NEW d \in Seq(Digits), NEW f, Steps(f, d)
    PROVE  \A i \in 0 .. Len(d) : f[i] \in Nat
<1>0. Len(d) \in Nat
  BY LenProperties
<1> DEFINE Bad == {i \in 0 .. Len(d) : f[i] \notin Nat}
<1>1. Bad \in SUBSET Nat /\ \A k \in Bad : k <= Len(d)
  BY <1>0
<1>2. 0 \notin Bad
  BY DEF Steps
<1>3. ASSUME NEW k \in 0 .. Len(d), k \notin Bad PROVE k + 1 \notin Bad
  <2>1. SUFFICES ASSUME k + 1 \in 0 .. Len(d) PROVE f[k + 1] \in Nat
    BY <2>1
  <2>2. f[k] \in Nat
    BY <1>3
  <2>3. PICK next \in 1 .. Len(d) : next = k + 1 /\ next - 1 = k
    BY <1>0, <2>1
  <2>4. f[next] = 10 * f[next - 1] + d[next]
    BY DEF Steps
  <2>5. d[next] \in Nat
    BY ElementOfSeq DEF Digits
  <2> QED
    BY <2>2, <2>3, <2>4, <2>5
<1>4. Bad = {}
  <2> HIDE DEF Bad
  <2> QED
    BY <1>0, <1>1, <1>2, <1>3, NoLeast
<1> QED
  BY <1>4

\* Digits make a natural number.
LEMMA NumberIsNat ==
    ASSUME NEW d \in Seq(Digits)
    PROVE  Number(d) \in Nat
<1>1. Len(d) \in Nat /\ Len(d) \in 0 .. Len(d)
  BY LenProperties
<1> QED
  BY <1>1, NumberIs, StepsAreNat

\* No digits make nought.
LEMMA NumberEmpty == Number(<< >>) = 0
<1>1. Len(<< >>) = 0
  OBVIOUS
<1>2. PICK f : Steps(f, << >>) /\ Number(<< >>) = f[Len(<< >>)]
  BY <1>1, NumberIs
<1> QED
  BY <1>1, <1>2 DEF Steps

\* A digit more.
LEMMA NumberMore ==
    ASSUME NEW d \in Seq(Digits), NEW z \in Digits
    PROVE  /\ Append(d, z) \in Seq(Digits)
           /\ Number(Append(d, z)) = 10 * Number(d) + z
<1>1. PICK long \in Nat : long = Len(d)
  BY LenProperties
<1>2. PICK e : e = Append(d, z)
  OBVIOUS
<1>3. /\ e \in Seq(Digits) /\ Len(e) = long + 1 /\ e[long + 1] = z
      /\ \A i \in 1 .. long : e[i] = d[i]
  BY <1>1, <1>2, AppendProperties
<1>4. PICK f : Steps(f, e) /\ Number(e) = f[Len(e)]
  BY <1>3, NumberIs
<1>5. \A i \in 1 .. long : i \in 1 .. Len(e)
  BY <1>3
<1>6. Steps(f, d)
  BY <1>1, <1>3, <1>4, <1>5 DEF Steps
<1>7. Number(d) = f[long]
  BY <1>1, <1>6, NumberFrom
<1>8. long + 1 \in 1 .. Len(e) /\ (long + 1) - 1 = long
  BY <1>3
<1>9. f[long + 1] = 10 * f[long] + z
  BY <1>3, <1>4, <1>8 DEF Steps
<1> QED
  BY <1>2, <1>3, <1>4, <1>7, <1>9

\* What Zeros is.
LEMMA ZerosAreDigits ==
    ASSUME NEW k \in Nat
    PROVE  /\ Zeros(k) \in Seq(Digits) /\ Len(Zeros(k)) = k
           /\ \A i \in 1 .. k : Zeros(k)[i] = 0
BY DEF Zeros, Digits

\* The powers of ten.
LEMMA TenToIs ==
    /\ TenTo(0) = 1
    /\ \A k \in Nat : TenTo(k + 1) = 10 * TenTo(k)
    /\ \A k \in Nat : TenTo(k) \in Nat /\ TenTo(k) >= 1
<1>1. ASSUME NEW k \in Nat
      PROVE  /\ << 1 >> \o Zeros(k) \in Seq(Digits)
             /\ << 1 >> \o Zeros(k + 1) = Append(<< 1 >> \o Zeros(k), 0)
  <2>1. << 1 >> \in Seq(Digits) /\ Len(<< 1 >>) = 1 /\ << 1 >>[1] = 1 /\ 0 \in Digits
    BY DEF Digits
  <2>2. PICK y : y = Zeros(k)
    OBVIOUS
  <2>3. PICK z : z = Zeros(k + 1)
    OBVIOUS
  <2>4. /\ y \in Seq(Digits) /\ Len(y) = k /\ \A i \in 1 .. k : y[i] = 0
    BY <2>2, ZerosAreDigits
  <2>5. /\ z \in Seq(Digits) /\ Len(z) = k + 1 /\ \A i \in 1 .. k + 1 : z[i] = 0
    BY <2>3, ZerosAreDigits
  <2>6. PICK a, b : a = << 1 >> \o y /\ b = << 1 >> \o z
    OBVIOUS
  <2>7. /\ a \in Seq(Digits) /\ Len(a) = k + 1
        /\ \A i \in 1 .. k + 1 : a[i] = IF i = 1 THEN 1 ELSE 0
    <3>1. /\ a \in Seq(Digits) /\ Len(a) = 1 + k
          /\ \A i \in 1 .. 1 + k : a[i] = IF i <= 1 THEN << 1 >>[i] ELSE y[i - 1]
      BY <2>1, <2>4, <2>6, ConcatProperties
    <3> QED
      BY <2>1, <2>4, <3>1
  <2>8. /\ b \in Seq(Digits) /\ Len(b) = k + 2
        /\ \A i \in 1 .. k + 2 : b[i] = IF i = 1 THEN 1 ELSE 0
    <3>1. /\ b \in Seq(Digits) /\ Len(b) = 1 + (k + 1)
          /\ \A i \in 1 .. 1 + (k + 1) : b[i] = IF i <= 1 THEN << 1 >>[i] ELSE z[i - 1]
      BY <2>1, <2>5, <2>6, ConcatProperties
    <3> QED
      BY <2>1, <2>5, <3>1
  <2>9. PICK c : c = Append(a, 0)
    OBVIOUS
  <2>10. /\ c \in Seq(Digits) /\ Len(c) = k + 2
         /\ \A i \in 1 .. k + 2 : c[i] = IF i = 1 THEN 1 ELSE 0
    <3>1. /\ c \in Seq(Digits) /\ Len(c) = (k + 1) + 1 /\ c[(k + 1) + 1] = 0
          /\ \A i \in 1 .. k + 1 : c[i] = a[i]
      BY <2>1, <2>7, <2>9, AppendProperties
    <3> QED
      BY <2>7, <3>1
  <2>11. b = c
    BY <2>8, <2>10, SeqEqual
  <2> QED
    BY <2>2, <2>3, <2>6, <2>7, <2>9, <2>11
<1>2. TenTo(0) = 1
  <2>1. << 1 >> \o Zeros(0) = Append(<< >>, 1)
    BY DEF Zeros
  <2>2. << >> \in Seq(Digits) /\ 1 \in Digits
    BY DEF Digits
  <2>3. Number(Append(<< >>, 1)) = 10 * Number(<< >>) + 1
    BY <2>2, NumberMore
  <2>4. TenTo(0) = Number(<< 1 >> \o Zeros(0))
    BY DEF TenTo
  <2>5. PICK d : d = << 1 >> \o Zeros(0)
    OBVIOUS
  <2>6. TenTo(0) = Number(d) /\ d = Append(<< >>, 1)
    BY <2>1, <2>4, <2>5
  <2>7. PICK a : a = Number(<< >>) /\ a = 0
    BY NumberEmpty
  <2> QED
    BY <2>3, <2>6, <2>7
<1>3. ASSUME NEW k \in Nat PROVE TenTo(k + 1) = 10 * TenTo(k) /\ TenTo(k) \in Nat
  <2>1. PICK d : d = << 1 >> \o Zeros(k)
    OBVIOUS
  <2>2. PICK e : e = << 1 >> \o Zeros(k + 1)
    OBVIOUS
  <2>3. d \in Seq(Digits) /\ e = Append(d, 0) /\ 0 \in Digits
    <3>1. 0 \in Digits
      BY DEF Digits
    <3> QED
      BY <1>1, <2>1, <2>2, <3>1
  <2>4. TenTo(k) = Number(d)
    BY <2>1 DEF TenTo
  <2>5. TenTo(k + 1) = Number(e)
    BY <2>2 DEF TenTo
  <2>6. Number(e) = 10 * Number(d) + 0 /\ Number(d) \in Nat
    BY <2>3, NumberMore, NumberIsNat
  <2> QED
    BY <2>4, <2>5, <2>6
<1>4. ASSUME NEW top \in Nat PROVE TenTo(top) >= 1
  <2> DEFINE Bad == {k \in 0 .. top : ~(TenTo(k) >= 1)}
  <2>1. Bad \in SUBSET Nat /\ (\A k \in Bad : k <= top) /\ 0 \notin Bad
    BY <1>2
  <2>2. ASSUME NEW k \in 0 .. top, k \notin Bad PROVE k + 1 \notin Bad
    BY <1>3, <2>2
  <2>3. Bad = {}
    <3> HIDE DEF Bad
    <3> QED
      BY <2>1, <2>2, NoLeast
  <2> QED
    BY <2>3
<1> QED
  BY <1>2, <1>3, <1>4

\* The same, of one count.
LEMMA TenToMore ==
    ASSUME NEW k \in Nat
    PROVE  /\ TenTo(k) \in Nat /\ TenTo(k) >= 1
           /\ TenTo(k + 1) = 10 * TenTo(k)
BY TenToIs

\* The arithmetic of a digit more behind two numbers.
LEMMA TensOfProduct ==
    ASSUME NEW a \in Nat, NEW t \in Nat, NEW g \in Nat, NEW z \in Nat
    PROVE  10 * (a * t + g) + z = a * (10 * t) + (10 * g + z)
OBVIOUS

\* What is in front counts for as many powers of ten as digits follow.
LEMMA NumberConcat ==
    ASSUME NEW d \in Seq(Digits), NEW e \in Seq(Digits)
    PROVE  Number(d \o e) = Number(d) * TenTo(Len(e)) + Number(e)
<1>1. PICK before, behind \in Nat : before = Len(d) /\ behind = Len(e)
  BY LenProperties
<1>2. PICK all : all = d \o e
  OBVIOUS
<1>3. /\ all \in Seq(Digits) /\ Len(all) = before + behind
      /\ \A i \in 1 .. before + behind : all[i] = IF i <= before THEN d[i] ELSE e[i - before]
  BY <1>1, <1>2, ConcatProperties
<1>4. PICK f : Steps(f, all) /\ Number(all) = f[before + behind]
  <2>1. PICK f : Steps(f, all) /\ Number(all) = f[Len(all)]
    <3>1. Len(all) \in Nat
      BY <1>3
    <3> QED
      BY <3>1, NumberIs
  <2> QED
    BY <1>3, <2>1
<1>5. PICK g : Steps(g, e) /\ Number(e) = g[behind]
  BY <1>1, NumberIs
<1>6. PICK a \in Nat : a = Number(d)
  BY NumberIsNat
<1>7. f[before] = a
  <2>1. \A i \in 1 .. before : i \in 1 .. before + behind
    OBVIOUS
  <2>2. \A i \in 1 .. before : all[i] = d[i]
    BY <1>3, <2>1
  <2>3. Steps(f, d)
    BY <1>1, <1>3, <1>4, <2>1, <2>2 DEF Steps
  <2> QED
    BY <1>1, <1>6, <2>3, NumberFrom
<1>8. \A j \in 0 .. behind : g[j] \in Nat
  BY <1>1, <1>5, StepsAreNat
<1> DEFINE Bad == {j \in 0 .. behind : f[before + j] # a * TenTo(j) + g[j]}
<1>9. Bad \in SUBSET Nat /\ \A k \in Bad : k <= behind
  OBVIOUS
<1>10. 0 \notin Bad
  <2>1. g[0] = 0 /\ TenTo(0) = 1 /\ before + 0 = before /\ a * 1 = a
    BY <1>5, TenToIs DEF Steps
  <2> QED
    BY <1>7, <2>1
<1>11. ASSUME NEW k \in 0 .. behind, k \notin Bad PROVE k + 1 \notin Bad
  <2>1. SUFFICES ASSUME k + 1 \in 0 .. behind
                 PROVE  f[before + (k + 1)] = a * TenTo(k + 1) + g[k + 1]
    OBVIOUS
  <2>2. f[before + k] = a * TenTo(k) + g[k]
    BY <1>11
  <2>3. PICK next \in 1 .. behind : next = k + 1 /\ next - 1 = k
    BY <2>1
  <2>4. PICK place \in 1 .. before + behind :
           place = before + next /\ place - 1 = before + k /\ place - before = next
    BY <2>3
  <2>5. all[place] = e[next]
    BY <1>3, <2>4
  <2>6. f[place] = 10 * f[place - 1] + all[place]
    BY <1>3, <1>4 DEF Steps
  <2>7. g[next] = 10 * g[next - 1] + e[next]
    BY <1>1, <1>5 DEF Steps
  <2>8. PICK t \in Nat : t = TenTo(k) /\ TenTo(next) = 10 * t
    <3>1. k \in Nat
      OBVIOUS
    <3> QED
      BY <2>3, <3>1, TenToMore
  <2>9. PICK z \in Nat : z = e[next]
    <3>1. e[next] \in Digits
      BY <1>1, ElementOfSeq
    <3> QED
      BY <3>1 DEF Digits
  <2>10. PICK h \in Nat : h = g[k]
    BY <1>8
  <2>11. f[place] = 10 * (a * t + h) + z
    BY <2>2, <2>4, <2>5, <2>6, <2>8, <2>9, <2>10
  <2>12. g[next] = 10 * h + z
    BY <2>3, <2>7, <2>9, <2>10
  <2>13. f[place] = a * (10 * t) + (10 * h + z)
    BY <2>11, TensOfProduct
  <2> QED
    BY <2>3, <2>4, <2>8, <2>12, <2>13
<1>12. Bad = {}
  <2> HIDE DEF Bad
  <2> QED
    BY <1>9, <1>10, <1>11, NoLeast
<1>13. f[before + behind] = a * TenTo(behind) + g[behind]
  BY <1>12
<1> QED
  BY <1>1, <1>2, <1>4, <1>5, <1>6, <1>13

\* A number is less than the power of ten of its digits.
LEMMA NumberBelow ==
    ASSUME NEW d \in Seq(Digits)
    PROVE  Number(d) < TenTo(Len(d))
<1>1. PICK long \in Nat : long = Len(d)
  BY LenProperties
<1>2. PICK f : Steps(f, d) /\ Number(d) = f[long]
  BY <1>1, NumberIs
<1>3. \A i \in 0 .. long : f[i] \in Nat
  BY <1>1, <1>2, StepsAreNat
<1> DEFINE Bad == {i \in 0 .. long : ~(f[i] < TenTo(i))}
<1>4. Bad \in SUBSET Nat /\ \A k \in Bad : k <= long
  OBVIOUS
<1>5. 0 \notin Bad
  <2>1. f[0] = 0 /\ TenTo(0) = 1
    BY <1>2, TenToIs DEF Steps
  <2> QED
    BY <2>1
<1>6. ASSUME NEW k \in 0 .. long, k \notin Bad PROVE k + 1 \notin Bad
  <2>1. SUFFICES ASSUME k + 1 \in 0 .. long PROVE f[k + 1] < TenTo(k + 1)
    OBVIOUS
  <2>2. PICK next \in 1 .. long : next = k + 1 /\ next - 1 = k
    BY <2>1
  <2>3. f[next] = 10 * f[next - 1] + d[next]
    BY <1>1, <1>2 DEF Steps
  <2>4. d[next] \in 0 .. 9
    <3>1. d[next] \in Digits
      BY <1>1, ElementOfSeq
    <3> QED
      BY <3>1 DEF Digits
  <2>5. PICK t \in Nat : t = TenTo(k) /\ TenTo(next) = 10 * t
    <3>1. k \in Nat
      OBVIOUS
    <3> QED
      BY <2>2, <3>1, TenToMore
  <2>6. PICK h \in Nat : h = f[k] /\ h < t
    BY <1>3, <1>6, <2>5
  <2>7. PICK z \in 0 .. 9 : z = d[next]
    BY <2>4
  <2>8. 10 * h + z < 10 * t
    BY <2>6
  <2> QED
    BY <2>2, <2>3, <2>5, <2>6, <2>7, <2>8
<1>7. Bad = {}
  <2> HIDE DEF Bad
  <2> QED
    BY <1>4, <1>5, <1>6, NoLeast
<1> QED
  BY <1>1, <1>2, <1>7

\* Zeros are nought.
LEMMA NumberOfZeros ==
    ASSUME NEW k \in Nat
    PROVE  Number(Zeros(k)) = 0
<1> DEFINE f == [i \in 0 .. k |-> 0]
<1>1. PICK y : y = Zeros(k)
  OBVIOUS
<1>2. Len(y) = k /\ \A i \in 1 .. k : y[i] = 0
  BY <1>1, ZerosAreDigits
<1>3. f[0] = 0 /\ \A i \in 1 .. k : f[i] = 0 /\ f[i - 1] = 0
  OBVIOUS
<1>4. f[k] = 0
  OBVIOUS
<1> HIDE DEF f
<1>5. Steps(f, y)
  BY <1>2, <1>3 DEF Steps
<1> QED
  BY <1>1, <1>2, <1>4, <1>5, NumberFrom

\* Zeros in front change nothing.
LEMMA LeadingZeros ==
    ASSUME NEW k \in Nat, NEW e \in Seq(Digits)
    PROVE  Zeros(k) \o e \in Seq(Digits) /\ Number(Zeros(k) \o e) = Number(e)
<1>1. PICK y \in Seq(Digits) : y = Zeros(k)
  BY ZerosAreDigits
<1>2. PICK a, t, b \in Nat : a = Number(y) /\ t = TenTo(Len(e)) /\ b = Number(e)
  BY NumberIsNat, TenToMore, LenProperties
<1>3. Number(y \o e) = a * t + b
  BY <1>2, NumberConcat
<1>4. a = 0
  BY <1>1, <1>2, NumberOfZeros
<1>5. a * t + b = b
  BY <1>4
<1>6. y \o e \in Seq(Digits)
  BY ConcatProperties
<1> QED
  BY <1>1, <1>2, <1>3, <1>5, <1>6

\* A digit that is not 0 makes a number that is not 0.
LEMMA NumberIsPositive ==
    ASSUME NEW d \in Seq(Digits), NEW i \in 1 .. Len(d), d[i] # 0
    PROVE  Number(d) > 0
<1>1. PICK long \in Nat : long = Len(d)
  BY LenProperties
<1>2. PICK f : Steps(f, d) /\ Number(d) = f[Len(d)]
  BY <1>1, NumberIs
<1>3. \A j \in 0 .. long : f[j] \in Nat
  BY <1>1, <1>2, StepsAreNat
<1> DEFINE Bad == {j \in 0 .. long : j >= i /\ ~(f[j] > 0)}
<1>4. Bad \in SUBSET Nat /\ (\A k \in Bad : k <= long) /\ 0 \notin Bad
  OBVIOUS
<1>5. ASSUME NEW k \in 0 .. long, k \notin Bad PROVE k + 1 \notin Bad
  <2>1. SUFFICES ASSUME k + 1 \in 0 .. long, k + 1 >= i PROVE f[k + 1] > 0
    OBVIOUS
  <2>2. PICK next \in 1 .. long : next = k + 1 /\ next - 1 = k
    BY <2>1
  <2>3. f[next] = 10 * f[next - 1] + d[next]
    BY <1>1, <1>2 DEF Steps
  <2>4. PICK z \in Nat : z = d[next]
    <3>1. d[next] \in Digits
      BY <1>1, ElementOfSeq
    <3> QED
      BY <3>1 DEF Digits
  <2>5. PICK h \in Nat : h = f[k]
    BY <1>3
  <2>6. h > 0 \/ z # 0
    <3>1. CASE next = i
      BY <3>1, <2>4
    <3>2. CASE next # i
      <4>1. k >= i
        BY <2>1, <2>2, <3>2
      <4> QED
        BY <1>5, <2>5, <4>1
    <3> QED
      BY <3>1, <3>2
  <2>7. 10 * h + z > 0
    BY <2>6
  <2> QED
    BY <2>2, <2>3, <2>4, <2>5, <2>7
<1>6. Bad = {}
  <2> HIDE DEF Bad
  <2> QED
    BY <1>4, <1>5, NoLeast
<1>7. long \in 0 .. long /\ long >= i
  BY <1>1
<1> QED
  BY <1>1, <1>2, <1>6, <1>7

-----------------------------------------------------------------------------
(* The carry *)

Nines(d, i) == \A j \in DOMAIN d : j >= i => d[j] = 9

Added(d) ==
    [i \in DOMAIN d |-> IF Nines(d, i) THEN 0
                        ELSE IF i = Len(d) \/ Nines(d, i + 1) THEN d[i] + 1
                        ELSE d[i]]

\* Carried with its local definitions named.
LEMMA CarriedIs ==
    ASSUME NEW d
    PROVE  Carried(d) = IF Nines(d, 1) THEN << 1 >> \o Added(d) ELSE Added(d)
BY DEF Carried, Nines, Added

\* There are nines from i on where there is one at i and nines behind it.
LEMMA NinesMore ==
    ASSUME NEW d \in Seq(Digits)
    PROVE  /\ Nines(d, Len(d) + 1)
           /\ \A i \in 1 .. Len(d) : Nines(d, i) <=> d[i] = 9 /\ Nines(d, i + 1)
<1>1. Len(d) \in Nat /\ DOMAIN d = 1 .. Len(d)
  BY LenProperties
<1> QED
  BY <1>1 DEF Nines

\* What the digits are where one is added.
LEMMA AddedIs ==
    ASSUME NEW d \in Seq(Digits)
    PROVE  /\ Added(d) \in Seq(Digits) /\ Len(Added(d)) = Len(d)
           /\ \A i \in 1 .. Len(d) :
                /\ Nines(d, i) => Added(d)[i] = 0
                /\ ~Nines(d, i) /\ Nines(d, i + 1) => Added(d)[i] = d[i] + 1
                /\ ~Nines(d, i + 1) => Added(d)[i] = d[i]
<1>1. PICK long \in Nat : long = Len(d) /\ DOMAIN d = 1 .. long
  BY LenProperties
<1>2. Nines(d, long + 1) /\ \A i \in 1 .. long : Nines(d, i) <=> d[i] = 9 /\ Nines(d, i + 1)
  BY <1>1, NinesMore
<1>3. ASSUME NEW i \in 1 .. long
      PROVE  /\ d[i] \in 0 .. 9
             /\ Added(d)[i] = IF Nines(d, i) THEN 0
                              ELSE IF i = long \/ Nines(d, i + 1) THEN d[i] + 1
                              ELSE d[i]
  <2>1. d[i] \in Digits
    BY <1>1, ElementOfSeq
  <2> QED
    BY <1>1, <2>1 DEF Added, Digits
<1>4. ASSUME NEW i \in 1 .. long
      PROVE  /\ Nines(d, i) => Added(d)[i] = 0
             /\ ~Nines(d, i) /\ Nines(d, i + 1) => Added(d)[i] = d[i] + 1
             /\ ~Nines(d, i + 1) => Added(d)[i] = d[i]
             /\ Added(d)[i] \in 0 .. 9
  <2>1. CASE Nines(d, i)
    BY <1>2, <1>3, <2>1
  <2>2. CASE ~Nines(d, i) /\ Nines(d, i + 1)
    <3>1. d[i] # 9 /\ Added(d)[i] = d[i] + 1
      BY <1>2, <1>3, <2>2
    <3> QED
      BY <1>3, <2>2, <3>1
  <2>3. CASE ~Nines(d, i) /\ ~Nines(d, i + 1)
    <3>1. i # long
      BY <1>2, <2>3
    <3> QED
      BY <1>3, <2>3, <3>1
  <2> QED
    BY <2>1, <2>2, <2>3
<1>5. Added(d) = [i \in 1 .. long |-> Added(d)[i]]
  BY <1>1 DEF Added
<1>6. \A i \in 1 .. long : Added(d)[i] \in Digits
  BY <1>4 DEF Digits
<1>7. Added(d) \in Seq(Digits) /\ Len(Added(d)) = long
  <2>1. PICK a : a = Added(d)
    OBVIOUS
  <2>2. a = [i \in 1 .. long |-> a[i]] /\ \A i \in 1 .. long : a[i] \in Digits
    BY <1>5, <1>6, <2>1
  <2>3. a \in Seq(Digits) /\ Len(a) = long
    BY <2>2
  <2> QED
    BY <2>1, <2>3
<1> QED
  BY <1>1, <1>4, <1>7

\* The carry adds one.
LEMMA CarriedAddsOne ==
    ASSUME NEW d \in Seq(Digits)
    PROVE  Carried(d) \in Seq(Digits) /\ Number(Carried(d)) = Number(d) + 1
<1>1. PICK long \in Nat : long = Len(d)
  BY LenProperties
<1>2. PICK a : a = Added(d)
  OBVIOUS
<1>3. /\ a \in Seq(Digits) /\ Len(a) = long
      /\ \A i \in 1 .. long :
           /\ Nines(d, i) => a[i] = 0
           /\ ~Nines(d, i) /\ Nines(d, i + 1) => a[i] = d[i] + 1
           /\ ~Nines(d, i + 1) => a[i] = d[i]
  BY <1>1, <1>2, AddedIs
<1>4. Nines(d, long + 1) /\ \A i \in 1 .. long : Nines(d, i) <=> d[i] = 9 /\ Nines(d, i + 1)
  BY <1>1, NinesMore
<1>5. PICK f : Steps(f, d) /\ Number(d) = f[Len(d)]
  BY <1>1, NumberIs
<1>6. \A i \in 0 .. long : f[i] \in Nat
  BY <1>1, <1>5, StepsAreNat
<1>7. ASSUME NEW k \in 0 .. long, k + 1 \in 0 .. long
      PROVE  /\ k + 1 \in 1 .. long /\ (k + 1) - 1 = k
             /\ f[k + 1] = 10 * f[k] + d[k + 1] /\ f[k] \in Nat /\ d[k + 1] \in 0 .. 9
  <2>1. PICK next \in 1 .. long : next = k + 1 /\ next - 1 = k
    BY <1>7
  <2>2. f[next] = 10 * f[next - 1] + d[next]
    BY <1>1, <1>5 DEF Steps
  <2>3. d[next] \in Digits
    BY <1>1, ElementOfSeq
  <2> QED
    BY <1>6, <2>1, <2>2, <2>3 DEF Digits
<1>8. CASE ~Nines(d, 1)
  <2>1. PICK g : Steps(g, a) /\ Number(a) = g[Len(a)]
    BY <1>3, NumberIs
  <2> DEFINE Bad == {i \in 0 .. long : g[i] # IF Nines(d, i + 1) THEN f[i] + 1 ELSE f[i]}
  <2>2. Bad \in SUBSET Nat /\ \A k \in Bad : k <= long
    OBVIOUS
  <2>3. 0 \notin Bad
    BY <1>5, <1>8, <2>1 DEF Steps
  <2>4. ASSUME NEW k \in 0 .. long, k \notin Bad PROVE k + 1 \notin Bad
    <3>1. SUFFICES ASSUME k + 1 \in 0 .. long
                   PROVE  g[k + 1] = IF Nines(d, (k + 1) + 1) THEN f[k + 1] + 1 ELSE f[k + 1]
      OBVIOUS
    <3>2. g[k] = IF Nines(d, k + 1) THEN f[k] + 1 ELSE f[k]
      BY <2>4
    <3>3. PICK next \in 1 .. long : next = k + 1 /\ next - 1 = k
      BY <3>1
    <3>4. g[next] = 10 * g[next - 1] + a[next]
      BY <1>3, <2>1 DEF Steps
    <3>5. PICK h, z \in Nat : h = f[k] /\ z = d[next] /\ f[next] = 10 * h + z
      <4>1. f[next] = 10 * f[k] + d[next] /\ f[k] \in Nat /\ d[next] \in 0 .. 9
        BY <1>7, <3>1, <3>3
      <4> HIDE DEF Bad
      <4>2. d[next] \in Nat
        BY <4>1
      <4> QED
        BY <4>1, <4>2
    <3>6. Nines(d, next) <=> d[next] = 9 /\ Nines(d, next + 1)
      BY <1>4
    <3>7. /\ Nines(d, next) => a[next] = 0
          /\ ~Nines(d, next) /\ Nines(d, next + 1) => a[next] = d[next] + 1
          /\ ~Nines(d, next + 1) => a[next] = d[next]
      BY <1>3
    <3>8. CASE Nines(d, next)
      <4>1. g[k] = h + 1 /\ a[next] = 0 /\ z = 9 /\ Nines(d, next + 1)
        BY <3>2, <3>3, <3>5, <3>6, <3>7, <3>8
      <4>2. g[next] = f[next] + 1
        BY <3>3, <3>4, <3>5, <4>1
      <4> QED
        BY <3>3, <4>1, <4>2
    <3>9. CASE ~Nines(d, next) /\ Nines(d, next + 1)
      <4>1. g[k] = h /\ a[next] = z + 1
        BY <3>2, <3>3, <3>5, <3>7, <3>9
      <4>2. g[next] = 10 * h + (z + 1)
        BY <3>3, <3>4, <4>1
      <4>3. g[next] = f[next] + 1
        <5>1. 10 * h + (z + 1) = (10 * h + z) + 1
          OBVIOUS
        <5> QED
          BY <3>5, <4>2, <5>1
      <4> QED
        BY <3>3, <3>9, <4>3
    <3>10. CASE ~Nines(d, next) /\ ~Nines(d, next + 1)
      <4>1. g[k] = h /\ a[next] = z
        BY <3>2, <3>3, <3>5, <3>7, <3>10
      <4>2. g[next] = f[next]
        BY <3>3, <3>4, <3>5, <4>1
      <4> QED
        BY <3>3, <3>10, <4>2
    <3> QED
      BY <3>8, <3>9, <3>10
  <2>5. Bad = {}
    <3> HIDE DEF Bad
    <3> QED
      BY <2>2, <2>3, <2>4, NoLeast
  <2>6. g[long] = f[long] + 1
    BY <1>4, <2>5
  <2>7. Carried(d) = a
    BY <1>2, <1>8, CarriedIs
  <2> QED
    BY <1>1, <1>3, <1>5, <2>1, <2>6, <2>7
<1>9. CASE Nines(d, 1)
  <2>1. PICK r : r = << 1 >> \o a
    OBVIOUS
  <2>2. /\ r \in Seq(Digits) /\ Len(r) = 1 + long
        /\ r[1] = 1 /\ \A i \in 1 .. long : r[i + 1] = a[i]
    <3>1. << 1 >> \in Seq(Digits) /\ Len(<< 1 >>) = 1 /\ << 1 >>[1] = 1
      BY DEF Digits
    <3>2. /\ r \in Seq(Digits) /\ Len(r) = 1 + long
          /\ \A i \in 1 .. 1 + long : r[i] = IF i <= 1 THEN << 1 >>[i] ELSE a[i - 1]
      BY <1>3, <2>1, <3>1, ConcatProperties
    <3> QED
      BY <3>1, <3>2
  <2>3. PICK g : Steps(g, r) /\ Number(r) = g[Len(r)]
    <3>1. Len(r) \in Nat
      BY <2>2
    <3> QED
      BY <3>1, NumberIs
  <2>4. \A i \in 1 .. 1 + long : g[i] = 10 * g[i - 1] + r[i]
    BY <2>2, <2>3 DEF Steps
  <2>5. g[1] = 1
    <3>1. g[1] = 10 * g[1 - 1] + r[1] /\ g[0] = 0
      BY <2>3, <2>4 DEF Steps
    <3> QED
      BY <2>2, <3>1
  <2>6. \A i \in 1 .. long : Nines(d, i) /\ d[i] = 9
    <3>1. DOMAIN d = 1 .. long
      BY <1>1, LenProperties
    <3> QED
      BY <1>9, <3>1 DEF Nines
  <2> DEFINE Bad == {i \in 0 .. long : g[i + 1] # f[i] + 1}
  <2>7. Bad \in SUBSET Nat /\ \A k \in Bad : k <= long
    OBVIOUS
  <2>8. 0 \notin Bad
    BY <1>5, <2>5 DEF Steps
  <2>9. ASSUME NEW k \in 0 .. long, k \notin Bad PROVE k + 1 \notin Bad
    <3>1. SUFFICES ASSUME k + 1 \in 0 .. long PROVE g[(k + 1) + 1] = f[k + 1] + 1
      OBVIOUS
    <3>2. g[k + 1] = f[k] + 1
      BY <2>9
    <3>3. PICK next \in 1 .. long : next = k + 1
      BY <3>1
    <3>4. PICK behind \in 1 .. 1 + long : behind = next + 1 /\ behind - 1 = next
      BY <3>3
    <3>5. g[behind] = 10 * g[behind - 1] + r[behind]
      BY <2>4
    <3>6. PICK h \in Nat : h = f[k] /\ f[next] = 10 * h + 9
      BY <1>7, <2>6, <3>1, <3>3
    <3>7. r[behind] = 0
      BY <1>3, <2>2, <2>6, <3>4
    <3>8. g[behind] = 10 * (h + 1) + 0
      BY <3>2, <3>3, <3>4, <3>5, <3>6, <3>7
    <3> QED
      BY <3>3, <3>4, <3>6, <3>8
  <2>10. Bad = {}
    <3> HIDE DEF Bad
    <3> QED
      BY <2>7, <2>8, <2>9, NoLeast
  <2>11. g[long + 1] = f[long] + 1
    BY <2>10
  <2>12. Carried(d) = r
    BY <1>2, <1>9, <2>1, CarriedIs
  <2>13. Len(r) = long + 1
    BY <2>2
  <2> QED
    BY <1>1, <1>5, <2>2, <2>3, <2>11, <2>12, <2>13
<1> QED
  BY <1>8, <1>9

\* The powers of ten grow.
LEMMA TenToGrows ==
    ASSUME NEW a \in Nat, NEW b \in Nat, a <= b
    PROVE  TenTo(a) <= TenTo(b)
<1> DEFINE Bad == {k \in 0 .. b : a <= k /\ ~(TenTo(a) <= TenTo(k))}
<1>1. Bad \in SUBSET Nat /\ \A k \in Bad : k <= b
  OBVIOUS
<1>2. PICK t \in Nat : t = TenTo(a)
  BY TenToMore
<1>3. 0 \notin Bad
  BY <1>2
<1>4. ASSUME NEW k \in 0 .. b, k \notin Bad PROVE k + 1 \notin Bad
  <2>1. SUFFICES ASSUME a <= k + 1 PROVE TenTo(a) <= TenTo(k + 1)
    OBVIOUS
  <2>2. CASE k + 1 = a
    BY <1>2, <2>2
  <2>3. CASE k + 1 # a
    <3>1. a <= k /\ k \in Nat
      BY <2>1, <2>3
    <3>2. PICK s \in Nat : s = TenTo(k) /\ TenTo(k + 1) = 10 * s
      BY <3>1, TenToMore
    <3>3. t <= s
      BY <1>2, <1>4, <3>1, <3>2
    <3>4. t <= 10 * s
      BY <3>3
    <3> QED
      BY <1>2, <3>2, <3>4
  <2> QED
    BY <2>2, <2>3
<1>5. Bad = {}
  <2> HIDE DEF Bad
  <2> QED
    BY <1>1, <1>3, <1>4, NoLeast
<1>6. b \in 0 .. b
  OBVIOUS
<1> QED
  BY <1>5, <1>6

\* A sequence is what its parts are put together.
LEMMA Joined ==
    ASSUME NEW a \in Seq(Digits), NEW e \in Seq(Digits), NEW d \in Seq(Digits),
           Len(d) = Len(a) + Len(e),
           \A i \in 1 .. Len(a) : a[i] = d[i],
           \A i \in 1 .. Len(e) : e[i] = d[i + Len(a)]
    PROVE  d = a \o e
<1>1. PICK b : b = a \o e
  OBVIOUS
<1>2. PICK m, k \in Nat : m = Len(a) /\ k = Len(e)
  BY LenProperties
<1>3. /\ b \in Seq(Digits) /\ Len(b) = Len(a) + Len(e)
      /\ \A i \in 1 .. Len(a) + Len(e) : b[i] = IF i <= Len(a) THEN a[i] ELSE e[i - Len(a)]
  BY <1>1, ConcatProperties
<1>4. ASSUME NEW i \in 1 .. m + k PROVE b[i] = d[i]
  <2>1. CASE i <= m
    BY <1>2, <1>3, <2>1
  <2>2. CASE ~(i <= m)
    <3>1. PICK j \in 1 .. k : j = i - m /\ i = j + m
      BY <2>2
    <3> QED
      BY <1>2, <1>3, <2>2, <3>1
  <2> QED
    BY <2>1, <2>2
<1>5. Len(b) = Len(d) /\ \A i \in 1 .. Len(b) : b[i] = d[i]
  BY <1>2, <1>3, <1>4
<1> QED
  BY <1>1, <1>3, <1>5, SeqEqual

\* A digit by itself.
LEMMA NumberOfOne ==
    ASSUME NEW z \in Digits
    PROVE  << z >> \in Seq(Digits) /\ Number(<< z >>) = z
<1>1. PICK e : e = << >>
  OBVIOUS
<1>2. e \in Seq(Digits) /\ Append(e, z) = << z >> /\ Number(e) = 0
  BY <1>1, NumberEmpty
<1>3. Number(Append(e, z)) = 10 * Number(e) + z
  BY <1>2, NumberMore
<1>4. PICK m \in Nat : m = Number(e) /\ m = 0
  BY <1>2
<1>5. 10 * m + z = z
  BY <1>4 DEF Digits
<1> QED
  BY <1>2, <1>3, <1>4, <1>5

\* A first digit of five or more makes half a unit, whatever follows,
LEMMA AtLeastHalf ==
    ASSUME NEW r \in Nat, NEW t \in Nat, NEW s \in Nat, r >= 5
    PROVE  2 * (r * t + s) >= 10 * t
<1>1. PICK m \in Nat : r = 5 + m
  BY SMT
<1>2. (5 + m) * t = 5 * t + m * t /\ m * t \in Nat
  OBVIOUS
<1>3. PICK p \in Nat : p = m * t
  BY <1>2
<1>4. r * t = 5 * t + p
  BY <1>1, <1>2, <1>3
<1> QED
  BY <1>4

\* and a lower one makes less than half of it.
LEMMA LessThanHalf ==
    ASSUME NEW r \in Nat, NEW t \in Nat, NEW s \in Nat, r < 5, s < t
    PROVE  2 * (r * t + s) < 10 * t
<1>1. PICK m \in Nat : r + m = 4
  <2>1. 4 - r \in Nat /\ r + (4 - r) = 4
    OBVIOUS
  <2> QED
    BY <2>1
<1>2. (r + m) * t = r * t + m * t /\ m * t \in Nat /\ r * t \in Nat
  OBVIOUS
<1>3. PICK p, q \in Nat : p = m * t /\ q = r * t
  BY <1>2
<1>4. q + p = 4 * t
  BY <1>1, <1>2, <1>3
<1>5. 2 * (q + s) < 10 * t
  BY <1>4
<1> QED
  BY <1>3, <1>5

\* What is behind the place rounded at is half of it or more just when it begins with
\* five or more.
LEMMA FiveIsHalf ==
    ASSUME NEW rest \in Seq(Digits), Len(rest) >= 1
    PROVE  /\ rest[1] >= 5 => 2 * Number(rest) >= TenTo(Len(rest))
           /\ ~(rest[1] >= 5) => 2 * Number(rest) < TenTo(Len(rest))
<1>1. PICK long \in Nat : long = Len(rest) - 1 /\ long + 1 = Len(rest)
  BY LenProperties
<1>2. PICK r \in Digits : r = rest[1]
  BY <1>1, ElementOfSeq
<1>3. PICK e : e = [i \in 1 .. long |-> rest[i + 1]]
  OBVIOUS
<1>4. e \in Seq(Digits) /\ Len(e) = long /\ \A i \in 1 .. long : e[i] = rest[i + 1]
  <2>1. \A i \in 1 .. long : i + 1 \in 1 .. Len(rest) /\ rest[i + 1] \in Digits
    BY <1>1, ElementOfSeq
  <2> QED
    BY <1>3, <2>1
<1>5. rest = << r >> \o e
  <2>1. << r >> \in Seq(Digits) /\ Len(<< r >>) = 1 /\ << r >>[1] = r
    OBVIOUS
  <2>2. PICK b : b = << r >> \o e
    OBVIOUS
  <2>3. /\ b \in Seq(Digits) /\ Len(b) = 1 + long
        /\ \A i \in 1 .. 1 + long : b[i] = IF i <= 1 THEN << r >>[i] ELSE e[i - 1]
    BY <1>4, <2>1, <2>2, ConcatProperties
  <2>4. ASSUME NEW i \in 1 .. 1 + long PROVE b[i] = rest[i]
    <3>1. CASE i = 1
      BY <1>2, <2>1, <2>3, <3>1
    <3>2. CASE i # 1
      <4>1. PICK j \in 1 .. long : j = i - 1 /\ i = j + 1
        BY <3>2
      <4> QED
        BY <1>4, <2>3, <4>1
    <3> QED
      BY <3>1, <3>2
  <2>5. Len(rest) = Len(b)
    BY <1>1, <2>3
  <2> QED
    BY <1>1, <2>2, <2>3, <2>4, <2>5, SeqEqual
<1>6. PICK t, s \in Nat : /\ t = TenTo(long) /\ s = Number(e) /\ s < t
                          /\ TenTo(Len(rest)) = 10 * t
  BY <1>1, <1>4, NumberBelow, NumberIsNat, TenToMore
<1>7. Number(<< r >>) = r /\ << r >> \in Seq(Digits)
  BY NumberOfOne
<1>8. Number(rest) = r * t + s
  <2>1. Number(<< r >> \o e) = Number(<< r >>) * TenTo(Len(e)) + Number(e)
    BY <1>4, <1>7, NumberConcat
  <2> QED
    BY <1>4, <1>5, <1>6, <1>7, <2>1
<1>9. r \in Nat
  BY DEF Digits
<1>10. r >= 5 => 2 * (r * t + s) >= 10 * t
  BY <1>9, AtLeastHalf
<1>11. ASSUME ~(r >= 5) PROVE 2 * (r * t + s) < 10 * t
  <2>1. r < 5 /\ s < t
    BY <1>6, <1>9, <1>11, SMTT(30)
  <2> QED
    BY <1>9, <2>1, LessThanHalf
<1> QED
  BY <1>2, <1>6, <1>8, <1>10, <1>11

-----------------------------------------------------------------------------
(* n(): its parts, and what each is worth *)

Keep(x) == x.exp + 1 + Decimals
Cut(x)  == [i \in 1 .. Keep(x) |-> IF i <= Len(x.digits) THEN x.digits[i] ELSE 0]

RoundsUp(x) == Keep(x) < Len(x.digits) /\ x.digits[Keep(x) + 1] >= 5
Rounded(x)  == IF RoundsUp(x) THEN Carried(Cut(x)) ELSE Cut(x)

Padded(d) ==
    IF Decimals + 1 - Len(d) > 0 THEN Zeros(Decimals + 1 - Len(d)) \o d ELSE d
InFront(d) == SubSeq(d, 1, Len(d) - Decimals)
Behind(d)  == SubSeq(d, Len(d) - Decimals + 1, Len(d))

Answer(neg, whole, frac) ==
    [neg |-> neg /\ ~(whole = << 0 >> /\ frac = Zeros(Decimals)), whole |-> whole, frac |-> frac]

\* n() with its local definitions named.
LEMMA NIs ==
    ASSUME NEW x, x.class = "finite"
    PROVE  n(x) = IF Keep(x) < 0 THEN Nought
                  ELSE Answer(x.neg, Trimmed(InFront(Padded(Rounded(x)))),
                              Behind(Padded(Rounded(x))))
BY DEF n, Keep, Cut, RoundsUp, Rounded, Padded, InFront, Behind, Answer

\* Cut where the number has no more digits: zeros are put behind them.
LEMMA CutAll ==
    ASSUME NEW x, IsFormatted(x), x.class = "finite", Keep(x) \in Nat,
           Keep(x) >= Len(x.digits)
    PROVE  /\ Cut(x) \in Seq(Digits)
           /\ IsUnits(Number(Cut(x)), x)
<1>1. PICK d \in Seq(Digits) : d = x.digits
  BY DEF IsFormatted, Digits
<1>2. PICK long, more \in Nat : long = Len(d) /\ Keep(x) = long + more
  <2>1. PICK keep \in Nat : keep = Keep(x)
    OBVIOUS
  <2>2. PICK long \in Nat : long = Len(d) /\ keep >= long
    BY <1>1, <2>1, LenProperties
  <2>3. keep - long \in Nat /\ keep = long + (keep - long)
    BY <2>2
  <2> QED
    BY <2>1, <2>2, <2>3
<1>3. PICK z \in Seq(Digits) : z = Zeros(more) /\ Len(z) = more /\ \A i \in 1 .. more : z[i] = 0
  BY ZerosAreDigits
<1>4. PICK c : c = Cut(x)
  OBVIOUS
<1>5. c = [i \in 1 .. long + more |-> IF i <= long THEN d[i] ELSE 0]
  BY <1>1, <1>2, <1>4 DEF Cut
<1>6. PICK b : b = d \o z
  OBVIOUS
<1>7. /\ b \in Seq(Digits) /\ Len(b) = long + more
      /\ \A i \in 1 .. long + more : b[i] = IF i <= long THEN d[i] ELSE z[i - long]
  BY <1>2, <1>3, <1>6, ConcatProperties
<1>8. \A i \in 1 .. long + more : b[i] = IF i <= long THEN d[i] ELSE 0
  <2>1. \A i \in 1 .. long + more : ~(i <= long) => i - long \in 1 .. more
    OBVIOUS
  <2> QED
    BY <1>3, <1>7, <2>1
<1>9. b = [i \in 1 .. long + more |-> b[i]]
  BY <1>7
<1>10. c = b
  BY <1>5, <1>8, <1>9
<1>11. PICK p, t, s \in Nat : p = Number(d) /\ t = TenTo(more) /\ s = Number(z)
  BY NumberIsNat, TenToMore
<1>12. Number(b) = p * t + s
  BY <1>3, <1>6, <1>11, NumberConcat
<1>13. s = 0
  BY <1>3, <1>11, NumberOfZeros
<1>14. Number(b) = p * t
  BY <1>12, <1>13
<1>15. long - (long + more) <= 0 /\ -(long - (long + more)) = more
  BY SMT
<1>16. IsUnits(p * t, x)
  <2>1. x.exp + 1 + Decimals = long + more
    BY <1>2 DEF Keep
  <2> QED
    BY <1>1, <1>2, <1>11, <1>15, <2>1 DEF IsUnits
<1> QED
  BY <1>4, <1>7, <1>10, <1>14, <1>16

\* Cut where it has more of them: what is dropped decides which way it is rounded.
LEMMA NearestAbove ==
    ASSUME NEW c \in Nat, NEW k \in Nat, NEW s \in Nat, s < k, 2 * s >= k
    PROVE  /\ -k <= 2 * ((c * k + s) - (c + 1) * k)
           /\ 2 * ((c * k + s) - (c + 1) * k) < k
<1>1. PICK p \in Nat : p = c * k
  OBVIOUS
<1>2. (c + 1) * k = p + k
  BY <1>1
<1>3. 2 * ((p + s) - (p + k)) = 2 * s - 2 * k
  OBVIOUS
<1>4. -k <= 2 * s - 2 * k /\ 2 * s - 2 * k < k
  BY SMT
<1> QED
  BY <1>1, <1>2, <1>3, <1>4

\* The same where what is dropped is less than half a unit.
LEMMA NearestBelow ==
    ASSUME NEW c \in Nat, NEW k \in Nat, NEW s \in Nat, k > 0, 2 * s < k
    PROVE  /\ -k <= 2 * ((c * k + s) - c * k)
           /\ 2 * ((c * k + s) - c * k) < k
<1>1. PICK p \in Nat : p = c * k
  OBVIOUS
<1>2. 2 * ((p + s) - p) = 2 * s
  OBVIOUS
<1>3. -k <= 2 * s /\ 2 * s < k
  BY SMT
<1> QED
  BY <1>1, <1>2, <1>3

\* Cut in the midst of the digits and rounded, the units are the nearest.
LEMMA CutSome ==
    ASSUME NEW x, IsFormatted(x), x.class = "finite", Keep(x) \in Nat,
           Keep(x) < Len(x.digits)
    PROVE  /\ Cut(x) \in Seq(Digits)
           /\ \A u : u = Number(Cut(x)) + (IF RoundsUp(x) THEN 1 ELSE 0) => IsUnits(u, x)
<1>1. PICK d \in Seq(Digits) : d = x.digits
  BY DEF IsFormatted, Digits
<1>2. PICK keep \in Nat : keep = Keep(x)
  OBVIOUS
<1>3. PICK more \in Nat : more > 0 /\ Len(d) = keep + more
  <2>1. PICK long \in Nat : long = Len(d) /\ keep < long
    BY <1>1, <1>2, LenProperties
  <2>2. long - keep \in Nat /\ long - keep > 0 /\ long = keep + (long - keep)
    BY <2>1
  <2> QED
    BY <2>1, <2>2
<1>4. \A i \in 1 .. keep + more : d[i] \in Digits
  BY <1>3, ElementOfSeq
<1>5. PICK c : c = Cut(x)
  OBVIOUS
<1>6. c = [i \in 1 .. keep |-> d[i]]
  <2>1. \A i \in 1 .. keep : i <= Len(x.digits)
    BY <1>1, <1>3
  <2> QED
    BY <1>1, <1>2, <1>5, <2>1 DEF Cut
<1>7. c \in Seq(Digits) /\ Len(c) = keep
  <2>1. \A i \in 1 .. keep : d[i] \in Digits
    BY <1>4
  <2> QED
    BY <1>6, <2>1
<1>8. PICK e : e = [i \in 1 .. more |-> d[i + keep]]
  OBVIOUS
<1>9. e \in Seq(Digits) /\ Len(e) = more /\ e[1] = d[keep + 1]
  <2>1. \A i \in 1 .. more : d[i + keep] \in Digits
    BY <1>4
  <2>2. 1 \in 1 .. more /\ 1 + keep = keep + 1
    BY <1>3
  <2> QED
    BY <1>8, <2>1, <2>2
<1>10. d = c \o e
  <2>1. \A i \in 1 .. Len(c) : c[i] = d[i]
    BY <1>6, <1>7
  <2>2. \A i \in 1 .. Len(e) : e[i] = d[i + Len(c)]
    BY <1>7, <1>8, <1>9
  <2>3. c \in Seq(Digits) /\ e \in Seq(Digits) /\ Len(d) = Len(c) + Len(e)
    BY <1>3, <1>7, <1>9
  <2> QED
    BY <2>1, <2>2, <2>3, Joined
<1>11. PICK a, k, s \in Nat : a = Number(c) /\ k = TenTo(more) /\ s = Number(e)
  BY <1>7, <1>9, NumberIsNat, TenToMore
<1>12. Number(d) = a * k + s
  BY <1>7, <1>9, <1>10, <1>11, NumberConcat
<1>13. s < k /\ k > 0
  BY <1>9, <1>11, NumberBelow
<1>14. RoundsUp(x) <=> e[1] >= 5
  <2>1. Keep(x) < Len(x.digits)
    OBVIOUS
  <2> QED
    BY <1>1, <1>2, <1>9, <2>1 DEF RoundsUp
<1>15. (e[1] >= 5 => 2 * s >= k) /\ (~(e[1] >= 5) => 2 * s < k)
  <2>1. Len(e) >= 1
    BY <1>3, <1>9
  <2> QED
    BY <1>9, <1>11, <2>1, FiveIsHalf
<1>16. ASSUME NEW u, -k <= 2 * ((a * k + s) - u * k), 2 * ((a * k + s) - u * k) < k
       PROVE  IsUnits(u, x)
  <2>1. x.exp + 1 + Decimals = keep
    BY <1>2 DEF Keep
  <2>2. (keep + more) - keep = more /\ ~(more <= 0)
    BY <1>3
  <2> QED
    BY <1>1, <1>3, <1>11, <1>12, <1>16, <2>1, <2>2 DEF IsUnits
<1>17. CASE RoundsUp(x)
  <2>1. IsUnits(a + 1, x)
    BY <1>13, <1>14, <1>15, <1>16, <1>17, NearestAbove
  <2> QED
    BY <1>5, <1>7, <1>11, <1>17, <2>1
<1>18. CASE ~RoundsUp(x)
  <2>1. IsUnits(a, x)
    BY <1>13, <1>14, <1>15, <1>16, <1>18, NearestBelow
  <2>2. a + 0 = a
    OBVIOUS
  <2> QED
    BY <1>5, <1>7, <1>11, <1>18, <2>1, <2>2
<1> QED
  BY <1>17, <1>18

\* Wherever it is cut, what n() rounds to are the units nearest to its number.
LEMMA RoundedIs ==
    ASSUME NEW x, IsFormatted(x), x.class = "finite", Keep(x) \in Nat
    PROVE  Rounded(x) \in Seq(Digits) /\ IsUnits(Number(Rounded(x)), x)
<1>1. PICK c : c = Cut(x)
  OBVIOUS
<1>2. CASE Keep(x) < Len(x.digits)
  <2>1. c \in Seq(Digits) /\ \A u : u = Number(c) + (IF RoundsUp(x) THEN 1 ELSE 0) => IsUnits(u, x)
    BY <1>1, <1>2, CutSome
  <2>2. CASE RoundsUp(x)
    <3>1. Carried(c) \in Seq(Digits) /\ Number(Carried(c)) = Number(c) + 1
      BY <2>1, CarriedAddsOne
    <3> QED
      BY <1>1, <2>1, <2>2, <3>1 DEF Rounded
  <2>3. CASE ~RoundsUp(x)
    <3>1. Number(c) \in Nat
      BY <2>1, NumberIsNat
    <3>2. Number(c) = Number(c) + 0
      BY <3>1
    <3> QED
      BY <1>1, <2>1, <2>3, <3>2 DEF Rounded
  <2> QED
    BY <2>2, <2>3
<1>3. CASE ~(Keep(x) < Len(x.digits))
  <2>1. ~RoundsUp(x)
    BY <1>3 DEF RoundsUp
  <2>2. Keep(x) >= Len(x.digits)
    <3>1. Len(x.digits) \in Nat
      BY LenProperties DEF IsFormatted
    <3> QED
      BY <1>3, <3>1
  <2> QED
    BY <2>1, <2>2, CutAll DEF Rounded
<1> QED
  BY <1>2, <1>3

\* What is printed has a digit in front of the point and all the decimals behind it.
LEMMA PaddedIs ==
    ASSUME NEW d \in Seq(Digits)
    PROVE  /\ Padded(d) \in Seq(Digits) /\ Len(Padded(d)) >= Decimals + 1
           /\ Number(Padded(d)) = Number(d)
<1>1. PICK long \in Nat : long = Len(d)
  BY LenProperties
<1>2. CASE Decimals + 1 - long > 0
  <2>1. PICK short \in Nat : short = Decimals + 1 - long
    BY <1>2, DecimalsAssumption
  <2>2. PICK z \in Seq(Digits) : z = Zeros(short) /\ Len(z) = short
    BY ZerosAreDigits
  <2>3. Padded(d) = z \o d
    BY <1>1, <1>2, <2>1, <2>2 DEF Padded
  <2>4. z \o d \in Seq(Digits) /\ Number(z \o d) = Number(d)
    BY <2>2, LeadingZeros
  <2>5. Len(z \o d) = short + long
    BY <1>1, <2>2, ConcatProperties
  <2>6. short + long >= Decimals + 1
    BY <2>1, DecimalsAssumption
  <2> QED
    BY <2>3, <2>4, <2>5, <2>6
<1>3. CASE ~(Decimals + 1 - long > 0)
  <2>1. long >= Decimals + 1
    BY <1>3, DecimalsAssumption
  <2> QED
    BY <1>1, <1>3, <2>1 DEF Padded
<1> QED
  BY <1>2, <1>3

\* Padded digits fall into a part in front of the point and the decimals.
LEMMA SplitAtPoint ==
    ASSUME NEW d \in Seq(Digits), Len(d) >= Decimals + 1
    PROVE  /\ InFront(d) \in Seq(Digits) /\ Len(InFront(d)) >= 1
           /\ Behind(d) \in Seq(Digits) /\ Len(Behind(d)) = Decimals
           /\ d = InFront(d) \o Behind(d)
<1>1. PICK places \in Nat : places = Decimals /\ places > 0
  BY DecimalsAssumption
<1>2. PICK front \in Nat : front >= 1 /\ Len(d) = front + places /\ front = Len(d) - Decimals
  <2>1. PICK long \in Nat : long = Len(d)
    BY LenProperties
  <2>2. long - places \in Nat /\ long - places >= 1 /\ long = (long - places) + places
    BY <1>1, <2>1
  <2> QED
    BY <1>1, <2>1, <2>2
<1>3. \A i \in 1 .. front + places : d[i] \in Digits
  BY <1>2, ElementOfSeq
<1>4. PICK w, f : w = InFront(d) /\ f = Behind(d)
  OBVIOUS
<1>5. w = SubSeq(d, 1, front) /\ f = SubSeq(d, front + 1, front + places)
  BY <1>2, <1>4 DEF InFront, Behind
<1>6. w \in Seq(Digits) /\ Len(w) = front /\ \A i \in 1 .. front : w[i] = d[i]
  <2>1. w = [i \in 1 .. front |-> d[i]]
    BY <1>2, <1>5
  <2>2. \A i \in 1 .. front : d[i] \in Digits
    BY <1>3
  <2> QED
    BY <2>1, <2>2
<1>7. f \in Seq(Digits) /\ Len(f) = places /\ \A i \in 1 .. places : f[i] = d[i + front]
  <2>1. f = [i \in 1 .. places |-> d[i + front]]
    BY <1>2, <1>5
  <2>2. \A i \in 1 .. places : d[i + front] \in Digits
    BY <1>3
  <2> QED
    BY <2>1, <2>2
<1>8. d = w \o f
  <2>1. w \in Seq(Digits) /\ f \in Seq(Digits) /\ Len(d) = Len(w) + Len(f)
    BY <1>2, <1>6, <1>7
  <2>2. \A i \in 1 .. Len(w) : w[i] = d[i]
    BY <1>6
  <2>3. \A i \in 1 .. Len(f) : f[i] = d[i + Len(w)]
    BY <1>6, <1>7
  <2> QED
    BY <2>1, <2>2, <2>3, Joined
<1> QED
  BY <1>1, <1>2, <1>4, <1>6, <1>7, <1>8

\* What Trimmed leaves away are the zeros in front, but not the last digit.
LEMMA TrimmedIs ==
    ASSUME NEW w \in Seq(Digits), Len(w) >= 1
    PROVE  /\ Trimmed(w) \in Seq(Digits) /\ Len(Trimmed(w)) >= 1
           /\ Len(Trimmed(w)) > 1 => Trimmed(w)[1] # 0
           /\ Number(Trimmed(w)) = Number(w)
<1>1. PICK long \in Nat : long = Len(w) /\ long >= 1 /\ DOMAIN w = 1 .. long
  BY LenProperties
<1> DEFINE kept == {i \in DOMAIN w : i = Len(w) \/ \E j \in 1 .. i : w[j] # 0}
<1>2. kept \in SUBSET Nat /\ kept # {}
  BY <1>1
<1>3. PICK least \in kept : \A m \in kept : least <= m
  <2> HIDE DEF kept
  <2> QED
    BY <1>2, LeastOf
<1>4. least \in 1 .. long
  BY <1>1
<1>5. \A i \in 1 .. long : i >= least => i \in kept
  <2> SUFFICES ASSUME NEW i \in 1 .. long, i >= least PROVE i \in kept
      OBVIOUS
  <2>1. least = long \/ \E j \in 1 .. least : w[j] # 0
    BY <1>1
  <2>2. CASE least = long
    BY <1>1, <2>2
  <2>3. CASE \E j \in 1 .. least : w[j] # 0
    <3>1. PICK j \in 1 .. least : w[j] # 0
      BY <2>3
    <3>2. j \in 1 .. i
      BY <1>4
    <3> QED
      BY <1>1, <3>1, <3>2
  <2> QED
    BY <2>1, <2>2, <2>3
<1>6. kept = least .. long
  <2>1. \A i \in kept : i \in 1 .. long
    BY <1>1
  <2> HIDE DEF kept
  <2>2. \A i \in kept : i \in least .. long
    BY <1>3, <1>4, <2>1
  <2>3. \A i \in least .. long : i \in kept
    BY <1>4, <1>5
  <2> QED
    BY <2>2, <2>3
<1>7. Cardinality(kept) = long - least + 1
  <2>1. least \in Int /\ long \in Int /\ ~(least > long)
    BY <1>4
  <2>2. Cardinality(least .. long) = IF least > long THEN 0 ELSE long - least + 1
    BY <2>1, FS_Interval
  <2> HIDE DEF kept
  <2> QED
    BY <1>6, <2>1, <2>2
<1>8. \A i \in 1 .. long : i < least => w[i] = 0
  <2> SUFFICES ASSUME NEW i \in 1 .. long, i < least, w[i] # 0 PROVE FALSE
      OBVIOUS
  <2>1. i \in kept
    <3>1. i \in 1 .. i
      OBVIOUS
    <3> QED
      BY <1>1, <3>1
  <2>2. least <= i
    <3> HIDE DEF kept
    <3> QED
      BY <1>3, <2>1
  <2> QED
    BY <1>4, <2>2
<1>9. least < long => w[least] # 0
  <2>1. SUFFICES ASSUME least < long PROVE w[least] # 0
    OBVIOUS
  <2>2. PICK j \in 1 .. least : w[j] # 0
    BY <1>1, <2>1
  <2>3. ~(j < least)
    BY <1>4, <1>8, <2>2
  <2>4. j = least
    BY <1>4, <2>3
  <2> QED
    BY <2>2, <2>4
<1> HIDE DEF kept
<1>10. PICK t : t = Trimmed(w)
  OBVIOUS
<1>11. t = SubSeq(w, least, long)
  <2>1. t = SubSeq(w, Len(w) + 1 - Cardinality(kept), Len(w))
    BY <1>10 DEF Trimmed, kept
  <2>2. long + 1 - (long - least + 1) = least
    BY <1>4
  <2> QED
    BY <1>1, <1>7, <2>1, <2>2
<1>12. PICK before, left \in Nat : /\ before = least - 1 /\ left = long - before
                                   /\ left >= 1 /\ long = before + left /\ least = before + 1
  BY <1>4
<1>13. \A i \in 1 .. before + left : w[i] \in Digits
  BY <1>1, <1>12, ElementOfSeq
<1>14. t \in Seq(Digits) /\ Len(t) = left /\ \A i \in 1 .. left : t[i] = w[i + before]
  <2>1. t = [i \in 1 .. left |-> w[i + before]]
    <3>1. t = SubSeq(w, before + 1, before + left)
      BY <1>11, <1>12
    <3>2. Len(w) = before + left
      BY <1>1, <1>12
    <3> QED
      BY <3>1, <3>2
  <2>2. \A i \in 1 .. left : w[i + before] \in Digits
    BY <1>13
  <2> QED
    BY <2>1, <2>2
<1>15. PICK z \in Seq(Digits) : /\ z = Zeros(before) /\ Len(z) = before
                                /\ \A i \in 1 .. before : z[i] = 0
  BY ZerosAreDigits
<1>16. w = z \o t
  <2>1. t \in Seq(Digits) /\ Len(w) = Len(z) + Len(t)
    BY <1>1, <1>12, <1>14, <1>15
  <2>2. \A i \in 1 .. before : i \in 1 .. long /\ i < least
    BY <1>12
  <2>3. \A i \in 1 .. Len(z) : z[i] = w[i]
    BY <1>8, <1>15, <2>2
  <2>4. \A i \in 1 .. Len(t) : t[i] = w[i + Len(z)]
    BY <1>14, <1>15
  <2> QED
    BY <2>1, <2>3, <2>4, Joined
<1>17. Number(w) = Number(t)
  BY <1>14, <1>15, <1>16, LeadingZeros
<1>18. Len(t) > 1 => t[1] # 0
  <2>1. SUFFICES ASSUME left > 1 PROVE t[1] # 0
    BY <1>14
  <2>2. 1 \in 1 .. left /\ 1 + before = least /\ least < long
    BY <1>12, <2>1
  <2> QED
    BY <1>9, <1>14, <2>2
<1> QED
  BY <1>10, <1>12, <1>14, <1>17, <1>18

\* Nothing is left just when all that is printed are zeros.
LEMMA NothingIsLeft ==
    ASSUME NEW w \in Seq(Digits), NEW f \in Seq(Digits), Len(f) = Decimals,
           Len(w) >= 1, Len(w) > 1 => w[1] # 0
    PROVE  (w = << 0 >> /\ f = Zeros(Decimals)) <=> Number(w \o f) = 0
<1>1. PICK places \in Nat : places = Decimals
  BY DecimalsAssumption
<1>2. PICK z \in Seq(Digits) : /\ z = Zeros(places) /\ Len(z) = places
                               /\ \A i \in 1 .. places : z[i] = 0
  BY ZerosAreDigits
<1>3. ASSUME w = << 0 >>, f = z PROVE Number(w \o f) = 0
  <2>1. << 0 >> = Zeros(1) /\ 1 \in Nat
    BY DEF Zeros
  <2>2. Number(Zeros(1) \o z) = Number(z)
    BY <2>1, LeadingZeros
  <2> QED
    BY <1>2, <1>3, <2>1, <2>2, NumberOfZeros
<1>4. ASSUME Number(w \o f) = 0 PROVE w = << 0 >> /\ f = z
  <2>1. PICK b : b = w \o f
    OBVIOUS
  <2>2. PICK front \in Nat : front = Len(w) /\ front >= 1
    BY LenProperties
  <2>3. /\ b \in Seq(Digits) /\ Len(b) = front + places
        /\ \A i \in 1 .. front + places : b[i] = IF i <= front THEN w[i] ELSE f[i - front]
    BY <1>1, <2>1, <2>2, ConcatProperties, ZenonT(40)
  <2>4. \A i \in 1 .. front + places : b[i] = 0
    <3> SUFFICES ASSUME NEW i \in 1 .. front + places, b[i] # 0 PROVE FALSE
        OBVIOUS
    <3>1. i \in 1 .. Len(b)
      BY <2>3
    <3>2. Number(b) > 0
      BY <2>3, <3>1, NumberIsPositive
    <3>3. Number(b) = 0
      BY <1>4, <2>1
    <3> QED
      BY <3>2, <3>3
  <2>5. w[1] = 0
    <3>1. 1 \in 1 .. front + places /\ 1 <= front
      BY <2>2
    <3> QED
      BY <2>3, <2>4, <3>1
  <2>6. Len(w) = 1
    BY <2>2, <2>5
  <2>7. w = << 0 >>
    <3>1. << 0 >> \in Seq(Digits) /\ Len(<< 0 >>) = 1 /\ << 0 >>[1] = 0
      BY DEF Digits
    <3>2. \A i \in 1 .. Len(w) : w[i] = << 0 >>[i]
      BY <2>5, <2>6, <3>1
    <3> QED
      BY <2>6, <3>1, <3>2, SeqEqual
  <2>8. f = z
    <3>1. ASSUME NEW i \in 1 .. places PROVE f[i] = z[i]
      <4>1. PICK j \in 1 .. front + places : j = i + front /\ j - front = i /\ ~(j <= front)
        BY <2>2
      <4> QED
        BY <1>2, <2>3, <2>4, <4>1
    <3>2. Len(f) = Len(z) /\ Len(f) = places
      BY <1>1, <1>2
    <3> QED
      BY <3>1, <3>2, SeqEqual
  <2> QED
    BY <2>7, <2>8
<1> QED
  BY <1>1, <1>2, <1>3, <1>4

\* A number too small to leave a unit.
LEMMA TooSmall ==
    ASSUME NEW x, IsFormatted(x), x.class = "finite", Keep(x) < 0
    PROVE  IsUnits(0, x)
<1>1. PICK d \in Seq(Digits) : d = x.digits
  BY DEF IsFormatted, Digits
<1>2. PICK long \in Nat : long = Len(d)
  BY LenProperties
<1>3. PICK keep \in Int : keep = x.exp + 1 + Decimals /\ keep < 0
  BY DecimalsAssumption DEF IsFormatted, Keep
<1>4. PICK dropped \in Nat : dropped = long - keep /\ long + 1 <= dropped /\ ~(dropped <= 0)
  BY <1>3
<1>5. PICK t, k, s \in Nat : /\ t = TenTo(long) /\ k = TenTo(dropped) /\ s = Number(d)
                             /\ TenTo(long + 1) = 10 * t
  BY NumberIsNat, TenToMore
<1>6. s < t
  BY <1>2, <1>5, NumberBelow
<1>7. 10 * t <= k
  <2>1. long + 1 \in Nat
    OBVIOUS
  <2>2. TenTo(long + 1) <= TenTo(dropped)
    BY <1>4, <2>1, TenToGrows
  <2> QED
    BY <1>5, <2>2
<1>8. 2 * (s - 0 * k) = 2 * s
  OBVIOUS
<1>9. -k <= 2 * s /\ 2 * s < k
  BY <1>6, <1>7
<1> QED
  BY <1>1, <1>2, <1>3, <1>4, <1>5, <1>8, <1>9 DEF IsUnits

\* n() rounds.
LEMMA FiniteIsRounded ==
    ASSUME NEW x, IsFormatted(x), x.class = "finite"
    PROVE  IsRounded(n(x), x)
<1>1. CASE Keep(x) < 0
  <2>1. n(x) = Nought
    BY <1>1, NIs
  <2>2. PICK places \in Nat : places = Decimals
    BY DecimalsAssumption
  <2>3. << 0 >> = Zeros(1) /\ 1 \in Nat /\ Len(<< 0 >>) = 1
    BY DEF Zeros
  <2>4. PICK z \in Seq(Digits) : z = Zeros(places) /\ Len(z) = places
    BY ZerosAreDigits
  <2>5. Number(<< 0 >> \o z) = 0
    <3>1. Number(Zeros(1) \o z) = Number(z)
      BY <2>3, LeadingZeros
    <3> QED
      BY <2>3, <2>4, <3>1, NumberOfZeros
  <2>6. IsUnits(0, x)
    BY <1>1, TooSmall
  <2>7. Nought.neg = FALSE /\ Nought.whole = << 0 >> /\ Nought.frac = z
    BY <2>2, <2>4 DEF Nought
  <2> QED
    BY <2>1, <2>2, <2>3, <2>4, <2>5, <2>6, <2>7 DEF IsRounded
<1>2. CASE ~(Keep(x) < 0)
  <2>1. Keep(x) \in Nat
    BY <1>2, DecimalsAssumption DEF IsFormatted, Keep
  <2>2. PICK r \in Seq(Digits) : r = Rounded(x) /\ IsUnits(Number(r), x)
    BY <2>1, RoundedIs
  <2>3. PICK d \in Seq(Digits) : /\ d = Padded(r) /\ Len(d) >= Decimals + 1
                                 /\ Number(d) = Number(r)
    BY PaddedIs
  <2>4. PICK v, f \in Seq(Digits) : /\ v = InFront(d) /\ f = Behind(d) /\ Len(v) >= 1
                                    /\ Len(f) = Decimals /\ d = v \o f
    BY <2>3, SplitAtPoint
  <2>5. PICK w \in Seq(Digits) : /\ w = Trimmed(v) /\ Len(w) >= 1 /\ (Len(w) > 1 => w[1] # 0)
                                 /\ Number(w) = Number(v)
    BY <2>4, TrimmedIs
  <2>6. n(x) = Answer(x.neg, w, f)
    BY <1>2, <2>2, <2>3, <2>4, <2>5, NIs
  <2>7. Number(w \o f) = Number(r)
    <3>1. Number(w \o f) = Number(w) * TenTo(Len(f)) + Number(f)
      BY NumberConcat
    <3>2. Number(v \o f) = Number(v) * TenTo(Len(f)) + Number(f)
      BY NumberConcat
    <3> QED
      BY <2>3, <2>4, <2>5, <3>1, <3>2
  <2>8. (w = << 0 >> /\ f = Zeros(Decimals)) <=> Number(w \o f) = 0
    BY <2>4, <2>5, NothingIsLeft
  <2>9. PICK p : p = n(x)
    OBVIOUS
  <2>10. p.whole = w /\ p.frac = f
    BY <2>6, <2>9 DEF Answer
  <2>11. p.neg <=> x.neg /\ Number(w \o f) # 0
    <3>1. p.neg = (x.neg /\ ~(w = << 0 >> /\ f = Zeros(Decimals)))
      BY <2>6, <2>9 DEF Answer
    <3> QED
      BY <2>8, <3>1
  <2> QED
    BY <2>2, <2>4, <2>5, <2>7, <2>9, <2>10, <2>11 DEF IsRounded
<1> QED
  BY <1>1, <1>2

-----------------------------------------------------------------------------
(* Where the numbers stand *)

\* The numbers of the line of a primitive are those of its fields, each as n() has it.
LEMMA NumbersOfLine ==
    ASSUME NEW k, NEW r, r.type \in DOMAIN Printed,
           NEW g \in DOMAIN line(k, r).numbers,
           NEW j \in DOMAIN line(k, r).numbers[g]
    PROVE  /\ g \in DOMAIN Printed[r.type]
           /\ j \in DOMAIN r.fields[Printed[r.type][g]]
           /\ line(k, r).numbers[g][j] = n(r.fields[Printed[r.type][g]][j])
<1>1. r.type # "Warning"
  BY DEF Printed
<1>2. line(k, r) = primitive(k, r)
  BY <1>1 DEF line
<1>3. primitive(k, r).numbers = [h \in DOMAIN Printed[r.type] |->
                                    [i \in DOMAIN r.fields[Printed[r.type][h]] |->
                                        n(r.fields[Printed[r.type][h]][i])]]
  BY DEF primitive
<1>4. PICK numbers : numbers = line(k, r).numbers
  OBVIOUS
<1>5. numbers = [h \in DOMAIN Printed[r.type] |->
                    [i \in DOMAIN r.fields[Printed[r.type][h]] |->
                        n(r.fields[Printed[r.type][h]][i])]]
  BY <1>2, <1>3, <1>4
<1>6. g \in DOMAIN numbers /\ j \in DOMAIN numbers[g]
  BY <1>4
<1>7. g \in DOMAIN Printed[r.type]
  BY <1>5, <1>6
<1>8. numbers[g] = [i \in DOMAIN r.fields[Printed[r.type][g]] |->
                       n(r.fields[Printed[r.type][g]][i])]
  BY <1>5, <1>7
<1> QED
  BY <1>4, <1>6, <1>7, <1>8

\* Whatever the view: every finite number that was given is printed rounded to its last
\* decimal, half away from zero, however many digits it has and wherever its point is.
THEOREM NumbersAreRoundedHolds == Spec => []NumbersAreRounded
<1>1. DumpInv => NumbersAreRounded
  <2> SUFFICES ASSUME DumpInv, NEW i \in Recorded(given, Len(given)),
                      NEW g \in DOMAIN LineOf(i).numbers,
                      NEW j \in DOMAIN LineOf(i).numbers[g],
                      given[i].fields[Printed[given[i].type][g]][j].class = "finite"
               PROVE  IsRounded(LineOf(i).numbers[g][j],
                                given[i].fields[Printed[given[i].type][g]][j])
      BY DEF NumbersAreRounded
  <2>1. PICK k, r : r = given[i] /\ LineOf(i) = line(k, r)
    BY LinesAreFound
  <2>2. /\ view \in Views /\ i \in DOMAIN view /\ r = view[i]
        /\ r.type \notin Framing \cup {"Unknown"}
    <3>1. view \in Views /\ i \in 1 .. Len(view) /\ given[i] = view[i]
      BY LinesAreFound DEF DumpInv, GivenInOrder
    <3>2. DOMAIN view = 1 .. Len(view)
      BY <3>1, ViewsAreSequences
    <3> QED
      BY <2>1, <3>1, <3>2 DEF Recorded
  <2>3. CASE r.type = "Warning"
    <3>1. LineOf(i).numbers = << >>
      BY <2>1, <2>3, SMTT(30) DEF line, warning
    <3> QED
      BY <3>1
  <2>4. CASE r.type # "Warning"
    <3>1. r.type \in DOMAIN Printed
      BY <2>2, <2>4, ViewsAssumption
    <3>2. PICK x : x = r.fields[Printed[r.type][g]][j]
      OBVIOUS
    <3>3. /\ g \in DOMAIN Printed[r.type] /\ j \in DOMAIN r.fields[Printed[r.type][g]]
          /\ LineOf(i).numbers[g][j] = n(x)
      BY <2>1, <3>1, <3>2, NumbersOfLine
    <3>4. IsFormatted(x)
      BY <2>2, <3>1, <3>2, <3>3, ViewsAssumption
    <3> QED
      BY <2>1, <3>2, <3>3, <3>4, FiniteIsRounded
  <2> QED
    BY <2>3, <2>4
<1> QED
  BY <1>1, DumpInvariance, PTL
=============================================================================
