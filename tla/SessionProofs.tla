--------------------------- MODULE SessionProofs ---------------------------
(***************************************************************************)
(* Session is proved for any library, any sizes, bounds and limits, and    *)
(* any number of views.  SessionInv is inductive: the ends an operation    *)
(* may come to are lemmas of their own, and the actions are put together   *)
(* from them.                                                              *)
(***************************************************************************)
EXTENDS Session, TLAPS

\* Every code that is not OK becomes an error.
LEMMA CodesBecomeErrors ==
    ASSUME NEW code, NEW dwg
    PROVE  from_native_code(code, dwg).tag = "error"
BY DEF from_native_code, Internal, Error

\* The initial states have the invariant.
LEMMA InitEstablishes == Init => SessionInv
BY SessionAssumption
   DEF Init, SessionInv, SessionTypeOK, Trusted, RawSizes, ViewsSoFar, Defaults,
       NothingBeforeTheHandshake, SizesAreAsReported, LimitsArriveWhole,
       DescriptionsAreWhole, Calls

\* So does a state that differs in nothing.
LEMMA StutterKeeps ==
    ASSUME SessionInv, UNCHANGED vars
    PROVE  SessionInv'
BY DEF vars, constants, values, locals, opening, SessionInv, SessionTypeOK, Trusted,
       Matched, RawSizes, ViewsSoFar, NothingBeforeTheHandshake, SizesAreAsReported,
       LimitsArriveWhole, DescriptionsAreWhole, max_batch_bytes, initial_batch_bytes

\* An operation that ends in an error leaves everything that was made.
LEMMA RefusesKeeps ==
    ASSUME SessionInv, UNCHANGED constants,
           NEW e, e.tag = "error", Refuses(e)
    PROVE  SessionInv'
<1> USE DEF SessionInv, Refuses, Returns, constants, values
<1>1. SessionTypeOK'
  BY SessionAssumption DEF SessionTypeOK
<1>2. Trusted'
  BY DEF Trusted, Matched
<1>3. RawSizes'
  BY DEF RawSizes
<1>4. ViewsSoFar'
  BY DEF ViewsSoFar
<1>5. NothingBeforeTheHandshake'
  BY DEF NothingBeforeTheHandshake
<1>6. SizesAreAsReported'
  BY DEF SizesAreAsReported, max_batch_bytes, initial_batch_bytes
<1>7. LimitsArriveWhole'
  BY DEF LimitsArriveWhole
<1>8. DescriptionsAreWhole'
  BY DEF DescriptionsAreWhole
<1> QED BY <1>1, <1>2, <1>3, <1>4, <1>5, <1>6, <1>7, <1>8

\* A refusal of the library's is one of those.
LEMMA CodesKeep ==
    ASSUME SessionInv, UNCHANGED constants,
           NEW code, NEW dwg, Refuses(from_native_code(code, dwg))
    PROVE  SessionInv'
BY CodesBecomeErrors, RefusesKeeps

\* An error of the crate's own, likewise.
LEMMA ErrorsKeep ==
    ASSUME SessionInv, UNCHANGED constants,
           NEW e, NEW range, Refuses(Error(e, range))
    PROVE  SessionInv'
<1>1. Error(e, range).tag = "error"
  BY DEF Error
<1> QED BY <1>1, RefusesKeeps

\* Constructing a decoder begins with the handshake.
LEMMA NewKeeps == ASSUME SessionInv, New PROVE SessionInv'
<1>1. CASE Refuses(Error("Unlinked", None))
  BY <1>1, ErrorsKeep DEF New
<1>2. CASE linked /\ Asks("handshake") /\ UNCHANGED <<locals, opening>>
  <2> USE <1>2 DEF New, Asks, SessionInv, constants, values, locals, opening
  <2>1. SessionTypeOK'
    BY DEF SessionTypeOK, Calls
  <2>2. Trusted'
    BY DEF Trusted, Matched, ViewsSoFar
  <2>3. RawSizes' /\ SizesAreAsReported'
    BY DEF RawSizes, SizesAreAsReported, max_batch_bytes, initial_batch_bytes
  <2>4. ViewsSoFar'
    BY DEF ViewsSoFar
  <2>5. NothingBeforeTheHandshake' /\ LimitsArriveWhole' /\ DescriptionsAreWhole'
    BY DEF NothingBeforeTheHandshake, LimitsArriveWhole, DescriptionsAreWhole
  <2> QED BY <2>1, <2>2, <2>3, <2>4, <2>5
<1> QED BY <1>1, <1>2 DEF New

\* Only a handshake that found both numbers leads to another call.
LEMMA HandshakeKeeps == ASSUME SessionInv, Handshake PROVE SessionInv'
<1>1. CASE Refuses(Error("HeaderMismatch", None))
  BY <1>1, ErrorsKeep DEF Handshake
<1>2. CASE /\ HeaderMatches(library.version, library.fingerprint)
           /\ pc' = "sizing"
           /\ UNCHANGED <<values, locals, opening, answer, told, wish>>
  <2> USE <1>2 DEF Handshake, HeaderMatches, SessionInv, constants, values, locals, opening
  <2>1. SessionTypeOK'
    BY DEF SessionTypeOK, Calls
  <2>2. Trusted'
    BY DEF Trusted, Matched, ViewsSoFar
  <2>3. RawSizes' /\ SizesAreAsReported'
    BY DEF RawSizes, SizesAreAsReported, max_batch_bytes, initial_batch_bytes
  <2>4. ViewsSoFar'
    BY DEF ViewsSoFar
  <2>5. NothingBeforeTheHandshake' /\ LimitsArriveWhole' /\ DescriptionsAreWhole'
    BY DEF NothingBeforeTheHandshake, LimitsArriveWhole, DescriptionsAreWhole, ViewsSoFar,
           Trusted
  <2> QED BY <2>1, <2>2, <2>3, <2>4, <2>5
<1> QED BY <1>1, <1>2 DEF Handshake

\* The getters make of the two fields what Reconciled makes of the two wishes.
LEMMA GettersReconcile ==
    ASSUME NEW d, NEW w, w.initial \in Nat, w.max \in Nat,
           d.max_batch_bytes = w.max,
           d.initial_batch_bytes =
              IF w.initial < BATCH_HEADER_LEN THEN BATCH_HEADER_LEN ELSE w.initial
    PROVE  [max |-> max_batch_bytes(d), initial |-> initial_batch_bytes(d)] = Reconciled(w)
<1> DEFINE ceiling == IF w.max < BATCH_HEADER_LEN THEN BATCH_HEADER_LEN ELSE w.max
           start == IF w.initial < BATCH_HEADER_LEN THEN BATCH_HEADER_LEN ELSE w.initial
<1>1. max_batch_bytes(d) = ceiling
  BY DEF max_batch_bytes
<1>2. ceiling \in Nat /\ start \in Nat
  BY SessionAssumption
<1>3. initial_batch_bytes(d) = IF start > ceiling THEN ceiling ELSE start
  BY <1>1 DEF initial_batch_bytes
<1> HIDE DEF ceiling, start
<1>4. initial_batch_bytes(d) = IF start < ceiling THEN start ELSE ceiling
  BY <1>2, <1>3
<1>5. Reconciled(w) =
         [max |-> ceiling, initial |-> IF start < ceiling THEN start ELSE ceiling]
  BY DEF Reconciled, ceiling, start
<1> QED BY <1>1, <1>4, <1>5

\* A setter changes what the decoder will be asked for, and nothing else.
LEMMA WithInitialKeeps ==
    ASSUME SessionInv, NEW bytes \in Sizes, WithInitial(bytes)
    PROVE  SessionInv'
<1> USE SessionAssumption
        DEF WithInitial, SessionInv, SessionTypeOK, constants, locals, opening
<1>1. /\ bytes \in Nat
      /\ decoder \in Sized
      /\ decoder'.dwg = decoder.dwg
      /\ decoder'.max_batch_bytes = decoder.max_batch_bytes
      /\ decoder'.initial_batch_bytes =
            IF bytes < BATCH_HEADER_LEN THEN BATCH_HEADER_LEN ELSE bytes
      /\ decoder' \in Sized
  BY DEF Sized
<1>2. /\ wish'.decoder = [initial |-> bytes, max |-> wish.decoder.max]
      /\ wish'.document = wish.document
      /\ wish' \in [{"decoder", "document"} -> [{"initial", "max"} -> Nat]]
  BY <1>1
<1>3. SessionTypeOK'
  BY <1>1, <1>2
<1>4. Trusted'
  BY DEF Trusted, Matched
<1>5. RawSizes'
  BY <1>1, <1>2 DEF RawSizes
<1>6. SizesAreAsReported'
  <2>1. [max |-> max_batch_bytes(decoder'), initial |-> initial_batch_bytes(decoder')]
           = Reconciled(wish'.decoder)
    <3>1. /\ wish'.decoder.initial \in Nat /\ wish'.decoder.max \in Nat
          /\ decoder'.max_batch_bytes = wish'.decoder.max
          /\ decoder'.initial_batch_bytes =
                IF wish'.decoder.initial < BATCH_HEADER_LEN THEN BATCH_HEADER_LEN
                ELSE wish'.decoder.initial
      BY <1>1, <1>2, <1>5, SMTT(30) DEF RawSizes
    <3> QED BY <3>1, GettersReconcile
  <2> QED BY <2>1, <1>2
    DEF SizesAreAsReported, max_batch_bytes, initial_batch_bytes
<1>7. ViewsSoFar' /\ NothingBeforeTheHandshake' /\ LimitsArriveWhole' /\ DescriptionsAreWhole'
  BY DEF ViewsSoFar, NothingBeforeTheHandshake, LimitsArriveWhole, DescriptionsAreWhole
<1> QED BY <1>3, <1>4, <1>5, <1>6, <1>7

LEMMA WithMaxKeeps ==
    ASSUME SessionInv, NEW bytes \in Sizes, WithMax(bytes)
    PROVE  SessionInv'
<1> USE SessionAssumption
        DEF WithMax, SessionInv, SessionTypeOK, constants, locals, opening
<1>1. /\ bytes \in Nat
      /\ decoder \in Sized
      /\ decoder'.dwg = decoder.dwg
      /\ decoder'.max_batch_bytes = bytes
      /\ decoder'.initial_batch_bytes = decoder.initial_batch_bytes
      /\ decoder' \in Sized
  BY DEF Sized
<1>2. /\ wish'.decoder = [initial |-> wish.decoder.initial, max |-> bytes]
      /\ wish'.document = wish.document
      /\ wish' \in [{"decoder", "document"} -> [{"initial", "max"} -> Nat]]
  BY <1>1
<1>3. SessionTypeOK'
  BY <1>1, <1>2
<1>4. Trusted'
  BY DEF Trusted, Matched
<1>5. RawSizes'
  BY <1>1, <1>2 DEF RawSizes
<1>6. SizesAreAsReported'
  <2>1. [max |-> max_batch_bytes(decoder'), initial |-> initial_batch_bytes(decoder')]
           = Reconciled(wish'.decoder)
    <3>1. /\ wish'.decoder.initial \in Nat /\ wish'.decoder.max \in Nat
          /\ decoder'.max_batch_bytes = wish'.decoder.max
          /\ decoder'.initial_batch_bytes =
                IF wish'.decoder.initial < BATCH_HEADER_LEN THEN BATCH_HEADER_LEN
                ELSE wish'.decoder.initial
      BY <1>1, <1>2, <1>5, SMTT(30) DEF RawSizes
    <3> QED BY <3>1, GettersReconcile
  <2> QED BY <2>1, <1>2
    DEF SizesAreAsReported, max_batch_bytes, initial_batch_bytes
<1>7. ViewsSoFar' /\ NothingBeforeTheHandshake' /\ LimitsArriveWhole' /\ DescriptionsAreWhole'
  BY DEF ViewsSoFar, NothingBeforeTheHandshake, LimitsArriveWhole, DescriptionsAreWhole
<1> QED BY <1>3, <1>4, <1>5, <1>6, <1>7

\* A bound that crosses fits, and is what the caller set.
LEMMA OpenKeeps == ASSUME SessionInv, Open PROVE SessionInv'
<1>1. CASE \E error \in {"PathNotUtf8", "EmptyInput"} : Refuses(Error(error, None))
  BY <1>1, ErrorsKeep DEF Open
<1>2. ASSUME NEW l \in LimitsOf, limits_struct(l) = None,
             Refuses(Error("InvalidArgument", None))
      PROVE  SessionInv'
  BY <1>2, ErrorsKeep DEF Open
<1>3. ASSUME NEW l \in LimitsOf, limits_struct(l) # None, Asks("open"),
             crossing' = limits_struct(l), limits' = l, UNCHANGED locals
      PROVE  SessionInv'
  <2> USE <1>3 DEF Open, Asks, SessionInv, constants, values, locals
  <2>1. SessionTypeOK'
    BY DEF SessionTypeOK, Calls
  <2>2. Trusted' /\ NothingBeforeTheHandshake'
    BY DEF Trusted, Matched, ViewsSoFar, NothingBeforeTheHandshake
  <2>3. RawSizes' /\ SizesAreAsReported'
    BY DEF RawSizes, SizesAreAsReported, max_batch_bytes, initial_batch_bytes
  <2>4. ViewsSoFar' /\ DescriptionsAreWhole'
    BY DEF ViewsSoFar, DescriptionsAreWhole
  <2>5. LimitsArriveWhole'
    BY SessionAssumption DEF LimitsArriveWhole, limits_struct
  <2> QED BY <2>1, <2>2, <2>3, <2>4, <2>5
<1> QED BY <1>1, <1>2, <1>3 DEF Open

\* A document is wrapped with the sizes its decoder reports.
LEMMA OpenedKeeps == ASSUME SessionInv, Opened PROVE SessionInv'
<1>1. ASSUME NEW code \in Says, Refuses(from_native_code(code, Dwg)) PROVE SessionInv'
  BY <1>1, CodesKeep DEF Opened
<1>2. CASE Refuses(Internal)
  BY <1>2, ErrorsKeep DEF Opened, Internal
<1>3. CASE /\ document' = wrap(decoder) /\ stream' = None
           /\ wish' = [wish EXCEPT !.document = wish.decoder]
           /\ Returns([tag |-> "document"])
           /\ UNCHANGED <<decoder, told>>
  <2> USE <1>3 DEF Opened, Returns, SessionInv, constants
  <2>1. /\ decoder # None /\ decoder \in Sized
        /\ wish'.document = wish.decoder /\ wish'.decoder = wish.decoder
        /\ wish' \in [{"decoder", "document"} -> [{"initial", "max"} -> Nat]]
        /\ document' \in Sized
    <3>1. decoder # None /\ decoder \in Sized
      BY DEF Trusted, SessionTypeOK
    <3>2. /\ wish'.document = wish.decoder /\ wish'.decoder = wish.decoder
          /\ wish' \in [{"decoder", "document"} -> [{"initial", "max"} -> Nat]]
      BY DEF SessionTypeOK
    <3>3. max_batch_bytes(decoder) \in Nat /\ initial_batch_bytes(decoder) \in Nat
      BY <3>1, SessionAssumption DEF Sized, max_batch_bytes, initial_batch_bytes
    <3>4. document' \in Sized
      BY <3>1, <3>3, SessionAssumption DEF wrap, Sized
    <3> QED BY <3>1, <3>2, <3>4
  <2>2. SessionTypeOK'
    BY <2>1, SessionAssumption DEF SessionTypeOK
  <2>3. Trusted' /\ NothingBeforeTheHandshake'
    BY <2>1 DEF Trusted, Matched, NothingBeforeTheHandshake
  <2>4. RawSizes'
    BY <2>1 DEF RawSizes
  <2>5. SizesAreAsReported'
    BY <2>1 DEF SizesAreAsReported, wrap, max_batch_bytes, initial_batch_bytes
  <2>6. ViewsSoFar' /\ LimitsArriveWhole' /\ DescriptionsAreWhole'
    BY DEF ViewsSoFar, LimitsArriveWhole, DescriptionsAreWhole
  <2> QED BY <2>2, <2>3, <2>4, <2>5, <2>6
<1> QED BY <1>1, <1>2, <1>3 DEF Opened

\* A call about the views begins with nothing collected.
LEMMA CountKeeps == ASSUME SessionInv, Count PROVE SessionInv'
<1> USE DEF Count, Asks, SessionInv, constants, values, opening
<1>1. SessionTypeOK'
  BY SessionAssumption DEF SessionTypeOK, Calls
<1>2. Trusted' /\ NothingBeforeTheHandshake'
  BY DEF Trusted, Matched, ViewsSoFar, NothingBeforeTheHandshake
<1>3. RawSizes' /\ SizesAreAsReported'
  BY DEF RawSizes, SizesAreAsReported, max_batch_bytes, initial_batch_bytes
<1>4. ViewsSoFar' /\ LimitsArriveWhole' /\ DescriptionsAreWhole'
  BY DEF ViewsSoFar, LimitsArriveWhole, DescriptionsAreWhole
<1> QED BY <1>1, <1>2, <1>3, <1>4

LEMMA ViewKeeps ==
    ASSUME SessionInv, NEW i \in Indices, View(i)
    PROVE  SessionInv'
<1> USE DEF View, Asks, SessionInv, constants, values, opening
<1>1. SessionTypeOK'
  BY SessionAssumption DEF SessionTypeOK, Calls
<1>2. Trusted' /\ NothingBeforeTheHandshake'
  BY DEF Trusted, Matched, ViewsSoFar, NothingBeforeTheHandshake
<1>3. RawSizes' /\ SizesAreAsReported'
  BY DEF RawSizes, SizesAreAsReported, max_batch_bytes, initial_batch_bytes
<1>4. ViewsSoFar' /\ LimitsArriveWhole' /\ DescriptionsAreWhole'
  BY DEF ViewsSoFar, LimitsArriveWhole, DescriptionsAreWhole
<1> QED BY <1>1, <1>2, <1>3, <1>4

\* views() starts at the first view, or is over when there is none.
LEMMA CountedKeeps == ASSUME SessionInv, Counted PROVE SessionInv'
<1>1. ASSUME NEW code \in Says, Refuses(from_native_code(code, Dwg)) PROVE SessionInv'
  BY <1>1, CodesKeep DEF Counted
<1>2. CASE /\ \/ Returns([tag |-> "count"])
              \/ Returns([tag |-> "views", first |-> 0, count |-> 0, views |-> << >>])
           /\ UNCHANGED <<values, told, wish>>
  <2>0. /\ pc' = "idle" /\ index' = None /\ upto' = None /\ required' = 0
        /\ views' = << >> /\ UNCHANGED <<linked, library, decoder, document, told, wish>>
    BY <1>2 DEF Returns, values, constants, Counted
  <2>1. SessionTypeOK'
    BY <2>0, SessionAssumption DEF SessionTypeOK, SessionInv
  <2> USE <1>2 DEF Counted, Returns, SessionInv, constants, values
  <2>2. Trusted' /\ NothingBeforeTheHandshake'
    BY DEF Trusted, Matched, NothingBeforeTheHandshake
  <2>3. RawSizes' /\ SizesAreAsReported'
    BY DEF RawSizes, SizesAreAsReported, max_batch_bytes, initial_batch_bytes
  <2>4. ViewsSoFar' /\ LimitsArriveWhole'
    BY DEF ViewsSoFar, LimitsArriveWhole
  <2>5. DescriptionsAreWhole'
    BY DEF DescriptionsAreWhole, ViewsSoFar
  <2> QED BY <2>1, <2>2, <2>3, <2>4, <2>5
<1>3. ASSUME NEW count \in Counts, upto # None, count > 0,
             pc' = "sizing", index' = 0, upto' = count,
             UNCHANGED <<values, required, out, views, opening, answer, told, wish>>
      PROVE  SessionInv'
  <2> USE <1>3 DEF Counted, SessionInv, constants, values, opening
  <2>1. count \in Nat /\ index = None
    BY SessionAssumption DEF ViewsSoFar
  <2>2. SessionTypeOK'
    BY <2>1 DEF SessionTypeOK, Calls
  <2>3. Trusted' /\ NothingBeforeTheHandshake'
    BY DEF Trusted, Matched, NothingBeforeTheHandshake
  <2>4. RawSizes' /\ SizesAreAsReported'
    BY DEF RawSizes, SizesAreAsReported, max_batch_bytes, initial_batch_bytes
  <2>5. ViewsSoFar'
    BY <2>1, SessionAssumption DEF ViewsSoFar
  <2>6. LimitsArriveWhole' /\ DescriptionsAreWhole'
    BY DEF LimitsArriveWhole, DescriptionsAreWhole, ViewsSoFar
  <2> QED BY <2>2, <2>3, <2>4, <2>5, <2>6
<1> QED BY <1>1, <1>2, <1>3 DEF Counted

\* Another view is described: the answer, or what views() has collected, and
\* what its last calls said go on agreeing.
LEMMA DescribedKeeps ==
    ASSUME SessionInv, UNCHANGED constants, pc \in {"sizing", "filling"},
           NEW fields \in Fields, NEW length \in Nat,
           Described(fields, length, [index |-> index, fields |-> fields, length |-> length])
    PROVE  SessionInv'
<1> DEFINE said == [index |-> index, fields |-> fields, length |-> length]
           view == [fields |-> fields, length |-> length]
<1> USE DEF SessionInv, constants
<1>1. CASE index = None /\ NewDecoder(fields)
  <2> USE <1>1 DEF NewDecoder, Returns
  <2>1. /\ wish'.decoder = Defaults /\ wish'.document = wish.document
        /\ wish' \in [{"decoder", "document"} -> [{"initial", "max"} -> Nat]]
    <3>1. Defaults \in [{"initial", "max"} -> Nat]
      BY SessionAssumption DEF Defaults
    <3>2. wish' = [wish EXCEPT !.decoder = Defaults]
      OBVIOUS
    <3> HIDE DEF NewDecoder
    <3> QED BY <3>1, <3>2 DEF SessionTypeOK
  <2>2. SessionTypeOK'
    BY <2>1, SessionAssumption DEF SessionTypeOK, Sized
  <2>3. Trusted' /\ NothingBeforeTheHandshake'
    BY DEF Trusted, Matched, NothingBeforeTheHandshake
  <2>4. /\ wish'.decoder.initial \in Nat /\ wish'.decoder.max \in Nat
        /\ decoder'.max_batch_bytes = wish'.decoder.max
        /\ decoder'.initial_batch_bytes =
              IF wish'.decoder.initial < BATCH_HEADER_LEN THEN BATCH_HEADER_LEN
              ELSE wish'.decoder.initial
    BY <2>1, SessionAssumption DEF Defaults
  <2>5. SizesAreAsReported'
    BY <2>1, <2>4, GettersReconcile
       DEF SizesAreAsReported, max_batch_bytes, initial_batch_bytes
  <2>6. RawSizes'
    BY <2>4 DEF RawSizes
  <2>7. ViewsSoFar' /\ LimitsArriveWhole' /\ DescriptionsAreWhole'
    BY DEF ViewsSoFar, LimitsArriveWhole, DescriptionsAreWhole
  <2> QED BY <2>2, <2>3, <2>5, <2>6, <2>7
<1>2. CASE index # None /\ ViewFromRaw(view, said)
  <2> USE <1>2
  <2>1. /\ index \in Nat /\ said \in Told /\ view \in Views
        /\ told \in Seq(Told) /\ views \in Seq(Views)
    BY DEF SessionTypeOK, Told, Views
  <2>2. told' = Append(told, said) /\ UNCHANGED <<values, wish>>
    BY DEF ViewFromRaw
  <2>3. CASE upto = None /\ Returns([tag |-> "views", first |-> index, count |-> 1,
                                      views |-> <<view>>])
    <3>1. told = << >>
      BY <2>3 DEF ViewsSoFar
    <3>2. Len(told') = 1 /\ told'[1] = said /\ told' \in Seq(Told)
      BY <2>1, <2>2, <3>1
    <3> USE <2>2, <2>3 DEF Returns, values
    <3>3. SessionTypeOK'
      BY <3>2, SessionAssumption DEF SessionTypeOK
    <3>4. Trusted' /\ NothingBeforeTheHandshake'
      BY DEF Trusted, Matched, NothingBeforeTheHandshake
    <3>5. RawSizes' /\ SizesAreAsReported'
      BY DEF RawSizes, SizesAreAsReported, max_batch_bytes, initial_batch_bytes
    <3>6. ViewsSoFar' /\ LimitsArriveWhole'
      BY DEF ViewsSoFar, LimitsArriveWhole
    <3>7. DescriptionsAreWhole'
      BY <2>1, <3>2 DEF DescriptionsAreWhole
    <3> QED BY <3>3, <3>4, <3>5, <3>6, <3>7
  <2>4. CASE upto # None
    <3>1. /\ upto \in Nat /\ index < upto /\ Len(views) = index /\ Len(told) = index
          /\ \A i \in 1 .. index :
                /\ told[i].index = i - 1
                /\ views[i] = [fields |-> told[i].fields, length |-> told[i].length]
      BY <2>4 DEF ViewsSoFar, SessionTypeOK
    <3> DEFINE more == Append(views, view)
               news == Append(told, said)
    <3>2. /\ more \in Seq(Views) /\ news \in Seq(Told)
          /\ Len(more) = index + 1 /\ Len(news) = index + 1
          /\ more[index + 1] = view /\ news[index + 1] = said
          /\ \A i \in 1 .. index : more[i] = views[i] /\ news[i] = told[i]
      BY <2>1, <3>1
    <3> HIDE DEF more, news
    <3>3. \A i \in 1 .. (index + 1) :
             /\ news[i].index = i - 1
             /\ more[i] = [fields |-> news[i].fields, length |-> news[i].length]
      <4> SUFFICES ASSUME NEW i \in 1 .. (index + 1)
                   PROVE  /\ news[i].index = i - 1
                          /\ more[i] = [fields |-> news[i].fields,
                                        length |-> news[i].length]
          OBVIOUS
      <4>1. CASE i \in 1 .. index
        BY <3>1, <3>2, <4>1
      <4>2. CASE i = index + 1
        BY <2>1, <3>2, <4>2
      <4> QED BY <4>1, <4>2, <2>1
    <3>4. told' = news
      BY <2>2 DEF news
    <3>5. CASE index + 1 = upto /\ Returns([tag |-> "views", first |-> 0, count |-> upto,
                                             views |-> more])
      <4> USE <2>2, <3>4, <3>5 DEF Returns, values
      <4>1. SessionTypeOK'
        BY <3>2, SessionAssumption DEF SessionTypeOK
      <4>2. Trusted' /\ NothingBeforeTheHandshake'
        BY DEF Trusted, Matched, NothingBeforeTheHandshake
      <4>3. RawSizes' /\ SizesAreAsReported'
        BY DEF RawSizes, SizesAreAsReported, max_batch_bytes, initial_batch_bytes
      <4>4. ViewsSoFar' /\ LimitsArriveWhole'
        BY DEF ViewsSoFar, LimitsArriveWhole
      <4>5. DescriptionsAreWhole'
        BY <2>1, <3>2, <3>3 DEF DescriptionsAreWhole
      <4> QED BY <4>1, <4>2, <4>3, <4>4, <4>5
    <3>6. CASE /\ index + 1 # upto
               /\ pc' = "sizing" /\ index' = index + 1 /\ required' = 0 /\ out' = None
               /\ views' = more /\ UNCHANGED <<upto, opening, answer>>
      <4> USE <2>2, <3>4, <3>6 DEF values, opening
      <4>1. SessionTypeOK'
        BY <2>1, <3>2, SessionAssumption DEF SessionTypeOK, Calls
      <4>2. Trusted' /\ NothingBeforeTheHandshake'
        BY DEF Trusted, Matched, NothingBeforeTheHandshake
      <4>3. RawSizes' /\ SizesAreAsReported'
        BY DEF RawSizes, SizesAreAsReported, max_batch_bytes, initial_batch_bytes
      <4>4. ViewsSoFar'
        BY <2>1, <2>4, <3>1, <3>2, <3>3, SessionAssumption DEF ViewsSoFar
      <4>5. LimitsArriveWhole' /\ DescriptionsAreWhole'
        BY DEF LimitsArriveWhole, DescriptionsAreWhole, ViewsSoFar
      <4> QED BY <4>1, <4>2, <4>3, <4>4, <4>5
    <3> QED BY <2>4, <3>5, <3>6 DEF ViewFromRaw, more
  <2> QED BY <2>3, <2>4 DEF ViewFromRaw
<1> QED BY <1>1, <1>2 DEF Described

\* The sizing call: what it leads to lends a buffer that this host can hold.
LEMMA SizingKeeps == ASSUME SessionInv, Sizing PROVE SessionInv'
<1>1. ASSUME NEW code \in Says, Refuses(from_native_code(code, Dwg)) PROVE SessionInv'
  BY <1>1, CodesKeep DEF Sizing
<1>2. CASE Refuses(Internal)
  BY <1>2, ErrorsKeep DEF Sizing, Internal
<1>3. ASSUME NEW fields \in Fields, NEW length \in Lengths, length = 0,
             Described(fields, 0, [index |-> index, fields |-> fields, length |-> length])
      PROVE  SessionInv'
  BY <1>3, DescribedKeeps DEF Sizing
<1>4. ASSUME NEW fields \in Fields, NEW length \in Lengths, length \in 1 .. HostMax,
             pc' = "filling", required' = length, out' = fields,
             UNCHANGED <<values, index, upto, views, opening, answer, told, wish>>
      PROVE  SessionInv'
  <2> USE <1>4 DEF Sizing, SessionInv, constants, values, opening
  <2>1. SessionTypeOK'
    BY SessionAssumption DEF SessionTypeOK, Calls
  <2>2. Trusted' /\ NothingBeforeTheHandshake'
    BY SessionAssumption DEF Trusted, Matched, NothingBeforeTheHandshake
  <2>3. RawSizes' /\ SizesAreAsReported'
    BY DEF RawSizes, SizesAreAsReported, max_batch_bytes, initial_batch_bytes
  <2>4. ViewsSoFar' /\ LimitsArriveWhole' /\ DescriptionsAreWhole'
    BY DEF ViewsSoFar, LimitsArriveWhole, DescriptionsAreWhole
  <2> QED BY <2>1, <2>2, <2>3, <2>4
<1> QED BY <1>1, <1>2, <1>3, <1>4 DEF Sizing

\* The call that fills it.
LEMMA FillingKeeps == ASSUME SessionInv, Filling PROVE SessionInv'
<1>1. ASSUME NEW code \in Says, Refuses(from_native_code(code, Dwg)) PROVE SessionInv'
  BY <1>1, CodesKeep DEF Filling
<1>2. CASE Refuses(Internal)
  BY <1>2, ErrorsKeep DEF Filling, Internal
<1>3. ASSUME NEW fields \in Fields, NEW length \in Lengths, length = required,
             Described(fields, required,
                       [index |-> index, fields |-> fields, length |-> length])
      PROVE  SessionInv'
  <2>1. length \in Nat
    BY SessionAssumption
  <2> QED BY <1>3, <2>1, DescribedKeeps DEF Filling
<1> QED BY <1>1, <1>2, <1>3 DEF Filling

LEMMA DecodeKeeps == ASSUME SessionInv, Decode PROVE SessionInv'
<1> USE DEF Decode, Asks, SessionInv, constants, values, locals, opening
<1>1. SessionTypeOK'
  BY SessionAssumption DEF SessionTypeOK, Calls
<1>2. Trusted' /\ NothingBeforeTheHandshake'
  BY DEF Trusted, Matched, ViewsSoFar, NothingBeforeTheHandshake
<1>3. RawSizes' /\ SizesAreAsReported'
  BY DEF RawSizes, SizesAreAsReported, max_batch_bytes, initial_batch_bytes
<1>4. ViewsSoFar' /\ LimitsArriveWhole' /\ DescriptionsAreWhole'
  BY DEF ViewsSoFar, LimitsArriveWhole, DescriptionsAreWhole
<1> QED BY <1>1, <1>2, <1>3, <1>4

\* Sizes that were reconciled once are not changed by Core::new.
LEMMA ReconciledIsKept ==
    ASSUME NEW w, w.initial \in Nat, w.max \in Nat
    PROVE  LET r == Reconciled(w)
               c == CoreNew(r.initial, r.max)
           IN  c.max_batch_bytes = r.max /\ c.initial_batch_bytes = r.initial
<1>1. /\ Reconciled(w).initial \in Nat /\ Reconciled(w).max \in Nat
      /\ BATCH_HEADER_LEN <= Reconciled(w).initial
      /\ Reconciled(w).initial <= Reconciled(w).max
  BY SessionAssumption DEF Reconciled
<1> QED BY <1>1, SessionAssumption DEF CoreNew

\* A stream starts with the sizes of its document.
LEMMA BegunKeeps == ASSUME SessionInv, Begun PROVE SessionInv'
<1>1. ASSUME NEW code \in Says, Refuses(from_native_code(code, Dwg)) PROVE SessionInv'
  BY <1>1, CodesKeep DEF Begun
<1>2. CASE Refuses(Internal)
  BY <1>2, ErrorsKeep DEF Begun, Internal
<1>3. CASE /\ stream' = CoreNew(document.initial_batch_bytes, document.max_batch_bytes)
           /\ Returns([tag |-> "stream"])
           /\ UNCHANGED <<decoder, document, told, wish>>
  <2> USE <1>3 DEF Begun, Returns, SessionInv, constants
  <2>1. SessionTypeOK'
    BY SessionAssumption DEF SessionTypeOK
  <2>2. Trusted' /\ NothingBeforeTheHandshake'
    BY DEF Trusted, Matched, NothingBeforeTheHandshake
  <2>3. RawSizes'
    BY DEF RawSizes
  <2>4. SizesAreAsReported'
    <3>1. wish.document.initial \in Nat /\ wish.document.max \in Nat
      BY DEF SessionTypeOK
    <3>2. document # None
      BY DEF Trusted
    <3>3. /\ document.max_batch_bytes = Reconciled(wish.document).max
          /\ document.initial_batch_bytes = Reconciled(wish.document).initial
      BY <3>2 DEF SizesAreAsReported, Reconciled
    <3>4. /\ stream'.max_batch_bytes = Reconciled(wish.document).max
          /\ stream'.initial_batch_bytes = Reconciled(wish.document).initial
      BY <3>1, <3>3, ReconciledIsKept
    <3>5. [max |-> stream'.max_batch_bytes, initial |-> stream'.initial_batch_bytes]
             = Reconciled(wish.document)
      BY <3>4 DEF Reconciled
    <3> QED BY <3>5 DEF SizesAreAsReported, max_batch_bytes, initial_batch_bytes
  <2>5. ViewsSoFar' /\ LimitsArriveWhole' /\ DescriptionsAreWhole'
    BY DEF ViewsSoFar, LimitsArriveWhole, DescriptionsAreWhole
  <2> QED BY <2>1, <2>2, <2>3, <2>4, <2>5
<1> QED BY <1>1, <1>2, <1>3 DEF Begun

-----------------------------------------------------------------------------
\* Nothing a caller does and nothing a library answers breaks the invariant.
THEOREM SessionInvariance == Spec => []SessionInv
<1>1. SessionInv /\ [Next]_vars => SessionInv'
  <2> SUFFICES ASSUME SessionInv, [Next]_vars PROVE SessionInv'
      OBVIOUS
  <2>1. CASE Caller
    BY <2>1, NewKeeps, OpenKeeps, CountKeeps, DecodeKeeps, WithInitialKeeps, WithMaxKeeps,
       ViewKeeps DEF Caller
  <2>2. CASE Library
    BY <2>2, HandshakeKeeps, OpenedKeeps, CountedKeeps, SizingKeeps, FillingKeeps, BegunKeeps
       DEF Library
  <2>3. CASE UNCHANGED vars
    BY <2>3, StutterKeeps
  <2> QED BY <2>1, <2>2, <2>3 DEF Next
<1> QED BY InitEstablishes, <1>1, PTL DEF Spec

\* However many decoders are made and refused, no other call goes out to a
\* library that is missing or was built from another header.
THEOREM HandshakeComesFirst == Spec => []NothingBeforeTheHandshake
<1>1. SessionInv => NothingBeforeTheHandshake
  BY DEF SessionInv
<1> QED BY <1>1, SessionInvariance, PTL

\* The two getters say what a stream starts with, for any sizes in any order.
THEOREM ReportedSizesAreReal == Spec => []SizesAreAsReported
<1>1. SessionInv => SizesAreAsReported
  BY DEF SessionInv
<1> QED BY <1>1, SessionInvariance, PTL

\* The header of a batch fits the buffer a stream starts with, and the buffer
\* its ceiling: sizes the clamp in the initial state of Stream leaves alone.
StreamCanStart ==
    stream # None =>
        /\ stream.initial_batch_bytes \in Nat /\ stream.max_batch_bytes \in Nat
        /\ BATCH_HEADER_LEN <= stream.initial_batch_bytes
        /\ stream.initial_batch_bytes <= stream.max_batch_bytes

\* Every stream a caller can get starts with a buffer it can use.
THEOREM StreamsCanStart == Spec => []StreamCanStart
<1>1. SessionInv => StreamCanStart
  <2> SUFFICES ASSUME SessionInv, stream # None PROVE StreamCanStart
      BY DEF StreamCanStart
  <2>1. wish.document.initial \in Nat /\ wish.document.max \in Nat
    BY DEF SessionInv, SessionTypeOK
  <2>2. /\ stream.max_batch_bytes = Reconciled(wish.document).max
        /\ stream.initial_batch_bytes = Reconciled(wish.document).initial
    BY DEF SessionInv, SizesAreAsReported, Reconciled
  <2>3. /\ Reconciled(wish.document).initial \in Nat /\ Reconciled(wish.document).max \in Nat
        /\ BATCH_HEADER_LEN <= Reconciled(wish.document).initial
        /\ Reconciled(wish.document).initial <= Reconciled(wish.document).max
    BY <2>1, SessionAssumption DEF Reconciled
  <2> QED BY <2>2, <2>3 DEF StreamCanStart
<1> QED BY <1>1, SessionInvariance, PTL

\* No bound is cut on its way across, whatever the caller sets.
THEOREM NoBoundIsCut == Spec => []LimitsArriveWhole
<1>1. SessionInv => LimitsArriveWhole
  BY DEF SessionInv
<1> QED BY <1>1, SessionInvariance, PTL

\* The views of a document are answered whole, for any number of them and
\* whatever the library says from one call to the next.
THEOREM NoViewIsMixed == Spec => []DescriptionsAreWhole
<1>1. SessionInv => DescriptionsAreWhole
  BY DEF SessionInv
<1> QED BY <1>1, SessionInvariance, PTL
=============================================================================
