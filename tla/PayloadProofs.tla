---------------------------- MODULE PayloadProofs ----------------------------
(***************************************************************************)
(* For counts of any width and records of any length: decode() accepts the *)
(* records of the format and no others, no payload is answered with the    *)
(* error for a bug of the crate, and the views of an item tile its record  *)
(* and answer what it counted.                                             *)
(***************************************************************************)
EXTENDS Payload, TLAPS

\* Below its limit the wide arithmetic is the arithmetic.
LEMMA WideIsExact == \A n \in Nat : n < WideLimit => Wide(n) = n
BY WidthsAssumption DEF Wide

\* The padded length of a string of n bytes.
LEMMA Pad4 == \A n \in Nat : pad4(n) \in Nat /\ n <= pad4(n) /\ pad4(n) <= n + 3
BY DEF pad4

\* The identities are computed exactly, whatever the counts.
LEMMA IdentitiesAreExact ==
    ASSUME NEW k \in 0 .. MAX_COUNT, NEW m \in 0 .. MAX_COUNT, NEW n \in 0 .. MAX_COUNT
    PROVE  /\ polyline_length(m, n) = 64 + 24 * m + 8 * n
           /\ spline_length(k, m, n) = 48 + 8 * k + 24 * m + 8 * n
           /\ Wide(24 * m) = 24 * m /\ Wide(8 * n) = 8 * n
           /\ Wide(72 + pad4(n)) = 72 + pad4(n)
           /\ Wide(64 + pad4(n)) = 64 + pad4(n)
           /\ Wide(32 + pad4(n)) = 32 + pad4(n)
<1>1. /\ 64 + 24 * m + 8 * n < WideLimit
      /\ 48 + 8 * k + 24 * m + 8 * n < WideLimit
      /\ 72 + n + 3 < WideLimit
  BY WidthsAssumption
<1>2. pad4(n) \in Nat /\ pad4(n) <= n + 3
  BY Pad4
<1>3. 72 + pad4(n) < WideLimit
  BY <1>1, <1>2, WidthsAssumption
<1> QED
  BY <1>1, <1>2, <1>3, WideIsExact, WidthsAssumption DEF polyline_length, spline_length

\* A scan that begins inside the payload, and a string that ends inside it,
\* are refused by what the bytes hold or not at all.
LEMMA ScanIsInside ==
    ASSUME NEW h, NEW from \in Nat, ~(from > PayloadLen(h))
    PROVE  finite(h, from) # "Internal"
BY NoneAssumption DEF finite, Refusals

LEMMA ScanIsWhole ==
    ASSUME NEW h, NEW from \in Nat, ~(from > PayloadLen(h))
    PROVE  finite(h, from) = None <=> all_finite(h, from, PayloadLen(h))
BY NoneAssumption DEF finite, Refusals

LEMMA StringIsInside ==
    ASSUME NEW h, NEW at \in Nat, NEW bytes \in Nat, Inside(h, at, bytes)
    PROVE  /\ string_at(h, at, bytes) # "Internal"
           /\ string_at(h, at, bytes) = None <=> h.utf8
BY NoneAssumption DEF string_at, Refusals

\* An item is not a refusal.
LEMMA AcceptedIsAnItem ==
    \A runs : /\ Accept(runs).refused = None
              /\ Accept(runs).refused # "Internal"
              /\ Accept(runs).runs = runs
BY NoneAssumption DEF Accept, Refusals

-----------------------------------------------------------------------------
(* The readers *)

LEMMA FixedIsNotInternal ==
    ASSUME NEW h, IsRecord(h), h.type \in DOMAIN FixedLength
    PROVE  /\ decode_fixed(h).refused # "Internal"
           /\ decode_fixed(h).refused = None <=>
                 /\ h.length = FixedLength[h.type]
                 /\ h.type \in Geometry => all_finite(h, 16, PayloadLen(h))
<1>1. CASE h.length # FixedLength[h.type]
  BY <1>1, NoneAssumption DEF decode_fixed, Refuse, Refusals
<1>2. CASE h.length = FixedLength[h.type]
  <2>1. /\ FieldsEnd[h.type] \in Nat
        /\ FieldsEnd[h.type] <= h.length - 8
        /\ 16 <= h.length - 8
    BY <1>2 DEF FixedLength, FieldsEnd
  <2>2. Inside(h, 0, FieldsEnd[h.type])
    BY <2>1, WidthsAssumption DEF IsRecord, Inside, PayloadLen, RECORD_HEADER_LEN
  <2>3. /\ finite(h, 16) # "Internal"
        /\ finite(h, 16) = None <=> all_finite(h, 16, PayloadLen(h))
    BY <2>1, ScanIsInside, ScanIsWhole DEF PayloadLen, RECORD_HEADER_LEN, IsRecord
  <2>4. decode_fixed(h).refused = IF h.type \in Geometry THEN finite(h, 16) ELSE None
    BY <1>2, <2>2 DEF decode_fixed, Refuse, Accept
  <2> QED
    BY <1>2, <2>3, <2>4, NoneAssumption DEF Refusals
<1> QED
  BY <1>1, <1>2

\* A polyline whose identity holds is read to its last byte and no further.
LEMMA PolylineTiles ==
    ASSUME NEW h, IsRecord(h)
    PROVE  /\ decode_polyline(h).refused # "Internal"
           /\ decode_polyline(h).refused = None =>
                 /\ h.count[2] \in {0, h.count[1]}
                 /\ h.length - 8 = 56 + 24 * h.count[1] + 8 * h.count[2]
                 /\ decode_polyline(h).runs =
                       << Run(56, 24 * h.count[1]),
                          Run(56 + 24 * h.count[1], 8 * h.count[2]) >>
           /\ decode_polyline(h).refused = None <=>
                 /\ h.count[2] \in {0, h.count[1]}
                 /\ h.length = 64 + 24 * h.count[1] + 8 * h.count[2]
                 /\ all_finite(h, 32, PayloadLen(h))
<1> DEFINE p == h.count[1]
           b == h.count[2]
           d == decode_polyline(h)
<1>1. /\ p \in 0 .. MAX_COUNT /\ b \in 0 .. MAX_COUNT
      /\ p \in Nat /\ b \in Nat /\ h.length \in Nat /\ h.length <= HostMax
  BY WidthsAssumption DEF IsRecord
<1>2. /\ polyline_length(p, b) = 64 + 24 * p + 8 * b
      /\ Wide(24 * p) = 24 * p /\ Wide(8 * b) = 8 * b
      /\ 24 * p \in Nat /\ 8 * b \in Nat /\ 56 + 24 * p \in Nat
  BY <1>1, IdentitiesAreExact, WidthsAssumption
<1>3. CASE h.length < 64 \/ b \notin {0, p} \/ polyline_length(p, b) # h.length
  <2>1. ~(h.length < 64) => Inside(h, 0, 28)
    BY <1>1, WidthsAssumption DEF Inside, PayloadLen, RECORD_HEADER_LEN
  <2>2. d.refused \in {"WrongFixedLength", "BulgeCount", "PolylineLengthMismatch"}
    BY <1>3, <2>1 DEF decode_polyline, Refuse
  <2>3. d.refused # None /\ d.refused # "Internal"
    BY <2>2, NoneAssumption DEF Refusals
  <2>4. ~(b \in {0, p} /\ h.length = 64 + 24 * p + 8 * b)
    BY <1>1, <1>2, <1>3
  <2> QED
    BY <2>3, <2>4
<1>4. CASE ~(h.length < 64) /\ b \in {0, p} /\ polyline_length(p, b) = h.length
  <2>1. h.length - 8 = 56 + 24 * p + 8 * b
    BY <1>2, <1>4, <1>1
  <2>2. /\ Inside(h, 0, 28) /\ Inside(h, 0, FieldsEnd.Polyline)
        /\ Inside(h, 56, Wide(24 * p))
        /\ Inside(h, 56 + Wide(24 * p), Wide(8 * b))
    <3>1. FieldsEnd.Polyline = 56
      BY DEF FieldsEnd
    <3>2. Inside(h, 0, 28) /\ Inside(h, 0, 56)
      BY <1>1, <1>2, <2>1, WidthsAssumption DEF Inside, PayloadLen, RECORD_HEADER_LEN
    <3>3. Inside(h, 56, 24 * p)
      BY <1>1, <1>2, <2>1, WidthsAssumption DEF Inside, PayloadLen, RECORD_HEADER_LEN
    <3>4. Inside(h, 56 + 24 * p, 8 * b)
      BY <1>1, <1>2, <2>1, WidthsAssumption DEF Inside, PayloadLen, RECORD_HEADER_LEN
    <3> QED
      BY <3>1, <3>2, <3>3, <3>4, <1>2
  <2>3. finite(h, 32) # "Internal"
    BY <1>1, <2>1, ScanIsInside DEF PayloadLen, RECORD_HEADER_LEN
  <2>6. finite(h, 32) = None <=> all_finite(h, 32, PayloadLen(h))
    BY <1>1, <2>1, ScanIsWhole DEF PayloadLen, RECORD_HEADER_LEN
  <2>7. h.length = 64 + 24 * p + 8 * b
    BY <1>2, <1>4
  <2>4. CASE finite(h, 32) # None
    <3>1. d = Refuse(finite(h, 32))
      BY <1>4, <2>2, <2>4 DEF decode_polyline
    <3> QED
      BY <3>1, <2>3, <2>6, <2>4 DEF Refuse
  <2>5. CASE finite(h, 32) = None
    <3>1. d = Accept(<< Run(56, Wide(24 * p)), Run(56 + Wide(24 * p), Wide(8 * b)) >>)
      BY <1>4, <2>2, <2>5 DEF decode_polyline
    <3> QED
      <4>1. d.refused = None /\ d.refused # "Internal"
        BY <3>1, AcceptedIsAnItem
      <4>2. d.runs = << Run(56, Wide(24 * p)), Run(56 + Wide(24 * p), Wide(8 * b)) >>
        BY <3>1, AcceptedIsAnItem
      <4> QED
        BY <4>1, <4>2, <1>2, <1>4, <2>1, <2>6, <2>7, <2>5
  <2> QED
    BY <2>4, <2>5
<1> QED
  BY <1>3, <1>4

\* So is a spline.
LEMMA SplineTiles ==
    ASSUME NEW h, IsRecord(h)
    PROVE  /\ decode_spline(h).refused # "Internal"
           /\ decode_spline(h).refused = None =>
                 /\ h.count[3] \in {0, h.count[2]}
                 /\ h.length - 8 = 40 + 8 * h.count[1] + 24 * h.count[2] + 8 * h.count[3]
                 /\ decode_spline(h).runs =
                       << Run(40, 8 * h.count[1]),
                          Run(40 + 8 * h.count[1], 24 * h.count[2]),
                          Run(40 + 8 * h.count[1] + 24 * h.count[2], 8 * h.count[3]) >>
           /\ decode_spline(h).refused = None <=>
                 /\ h.count[3] \in {0, h.count[2]}
                 /\ h.length = 48 + 8 * h.count[1] + 24 * h.count[2] + 8 * h.count[3]
                 /\ all_finite(h, 40, PayloadLen(h))
<1> DEFINE k == h.count[1]
           c == h.count[2]
           w == h.count[3]
           d == decode_spline(h)
<1>1. /\ k \in 0 .. MAX_COUNT /\ c \in 0 .. MAX_COUNT /\ w \in 0 .. MAX_COUNT
      /\ k \in Nat /\ c \in Nat /\ w \in Nat /\ h.length \in Nat /\ h.length <= HostMax
  BY WidthsAssumption DEF IsRecord
<1>2. /\ spline_length(k, c, w) = 48 + 8 * k + 24 * c + 8 * w
      /\ Wide(8 * k) = 8 * k /\ Wide(24 * c) = 24 * c /\ Wide(8 * w) = 8 * w
      /\ 8 * k \in Nat /\ 24 * c \in Nat /\ 8 * w \in Nat
      /\ 40 + 8 * k \in Nat /\ 40 + 8 * k + 24 * c \in Nat
  BY <1>1, IdentitiesAreExact, WidthsAssumption
<1>3. CASE h.length < 48 \/ w \notin {0, c} \/ spline_length(k, c, w) # h.length
  <2>1. ~(h.length < 48) => Inside(h, 0, 36)
    BY <1>1, WidthsAssumption DEF Inside, PayloadLen, RECORD_HEADER_LEN
  <2>2. d.refused \in {"WrongFixedLength", "WeightCount", "SplineLengthMismatch"}
    BY <1>3, <2>1 DEF decode_spline, Refuse
  <2>3. d.refused # None /\ d.refused # "Internal"
    BY <2>2, NoneAssumption DEF Refusals
  <2>4. ~(w \in {0, c} /\ h.length = 48 + 8 * k + 24 * c + 8 * w)
    BY <1>1, <1>2, <1>3
  <2> QED
    BY <2>3, <2>4
<1>4. CASE ~(h.length < 48) /\ w \in {0, c} /\ spline_length(k, c, w) = h.length
  <2>1. h.length - 8 = 40 + 8 * k + 24 * c + 8 * w
    BY <1>2, <1>4, <1>1
  <2>2. /\ Inside(h, 0, 36)
        /\ Inside(h, 40, Wide(8 * k))
        /\ Inside(h, 40 + Wide(8 * k), Wide(24 * c))
        /\ Inside(h, 40 + Wide(8 * k) + Wide(24 * c), Wide(8 * w))
    <3>1. Inside(h, 0, 36)
      BY <1>1, <1>2, <2>1, WidthsAssumption DEF Inside, PayloadLen, RECORD_HEADER_LEN
    <3>2. Inside(h, 40, 8 * k)
      BY <1>1, <1>2, <2>1, WidthsAssumption DEF Inside, PayloadLen, RECORD_HEADER_LEN
    <3>3. Inside(h, 40 + 8 * k, 24 * c)
      BY <1>1, <1>2, <2>1, WidthsAssumption DEF Inside, PayloadLen, RECORD_HEADER_LEN
    <3>4. Inside(h, 40 + 8 * k + 24 * c, 8 * w)
      BY <1>1, <1>2, <2>1, WidthsAssumption DEF Inside, PayloadLen, RECORD_HEADER_LEN
    <3> QED
      BY <3>1, <3>2, <3>3, <3>4, <1>2
  <2>3. finite(h, 40) # "Internal"
    BY <1>1, <2>1, ScanIsInside DEF PayloadLen, RECORD_HEADER_LEN
  <2>6. finite(h, 40) = None <=> all_finite(h, 40, PayloadLen(h))
    BY <1>1, <2>1, ScanIsWhole DEF PayloadLen, RECORD_HEADER_LEN
  <2>7. h.length = 48 + 8 * k + 24 * c + 8 * w
    BY <1>2, <1>4
  <2>4. CASE finite(h, 40) # None
    <3>1. d = Refuse(finite(h, 40))
      BY <1>4, <2>2, <2>4 DEF decode_spline
    <3> QED
      BY <3>1, <2>3, <2>6, <2>4 DEF Refuse
  <2>5. CASE finite(h, 40) = None
    <3>1. d = Accept(<< Run(40, Wide(8 * k)), Run(40 + Wide(8 * k), Wide(24 * c)),
                        Run(40 + Wide(8 * k) + Wide(24 * c), Wide(8 * w)) >>)
      BY <1>4, <2>2, <2>5 DEF decode_spline
    <3> QED
      <4>1. d.refused = None /\ d.refused # "Internal"
        BY <3>1, AcceptedIsAnItem
      <4>2. d.runs = << Run(40, Wide(8 * k)), Run(40 + Wide(8 * k), Wide(24 * c)),
                        Run(40 + Wide(8 * k) + Wide(24 * c), Wide(8 * w)) >>
        BY <3>1, AcceptedIsAnItem
      <4> QED
        BY <4>1, <4>2, <1>2, <1>4, <2>1, <2>6, <2>7, <2>5
  <2> QED
    BY <2>4, <2>5
<1> QED
  BY <1>3, <1>4

\* The length a string of n bytes gives its record behind base other bytes.
LEMMA StringLength ==
    ASSUME NEW n \in Nat, NEW base \in {72, 64, 32}, NEW length \in Nat, length % 4 = 0
    PROVE  base + pad4(n) = length <=> length - base \in n .. (n + 3)
<1>1. PICK k \in Int : length = 4 * k
  BY Z3
<1>2. /\ pad4(n) = 4 * ((n + 3) \div 4) /\ (n + 3) \div 4 \in Int
      /\ n <= pad4(n) /\ pad4(n) <= n + 3
  BY DEF pad4
<1>3. base = 72 \/ base = 64 \/ base = 32
  OBVIOUS
<1> QED
  BY <1>1, <1>2, <1>3

LEMMA StringNumbers ==
    ASSUME NEW h, IsRecord(h)
    PROVE  /\ h.count[1] \in Nat /\ h.length \in Nat /\ h.length <= HostMax
           /\ pad4(h.count[1]) \in Nat /\ h.count[1] <= pad4(h.count[1])
           /\ \A base \in {72, 64, 32} :
                 /\ Wide(base + pad4(h.count[1])) = base + pad4(h.count[1])
                 /\ base + pad4(h.count[1]) = h.length <=>
                        h.length - base \in h.count[1] .. (h.count[1] + 3)
<1>1. /\ h.count[1] \in 0 .. MAX_COUNT /\ h.count[1] \in Nat
      /\ h.length \in Nat /\ h.length <= HostMax /\ h.length % 4 = 0
  BY WidthsAssumption DEF IsRecord
<1>2. ASSUME NEW base \in {72, 64, 32}
      PROVE  /\ Wide(base + pad4(h.count[1])) = base + pad4(h.count[1])
             /\ base + pad4(h.count[1]) = h.length <=>
                    h.length - base \in h.count[1] .. (h.count[1] + 3)
  <2>1. Wide(base + pad4(h.count[1])) = base + pad4(h.count[1])
    BY <1>1, IdentitiesAreExact
  <2> QED
    BY <1>1, <2>1, StringLength
<1> QED
  BY <1>1, <1>2, Pad4

\* The records that end in a string: it is read inside the record, and a scan in
\* front of it looks at the floats of the record and no further.
LEMMA TextIsInside ==
    ASSUME NEW h, IsRecord(h)
    PROVE  /\ decode_text(h).refused # "Internal"
           /\ decode_text(h).refused = None <=>
                 /\ h.length - 72 \in h.count[1] .. (h.count[1] + 3)
                 /\ h.utf8
                 /\ all_finite(h, 16, 56)
           /\ decode_text(h).refused = None => decode_text(h).runs = << Run(64, h.count[1]) >>
<1> DEFINE n == h.count[1]
           s == string_at(h, 64, n)
<1>1. /\ n \in Nat /\ h.length \in Nat /\ h.length <= HostMax
      /\ Wide(72 + pad4(n)) = 72 + pad4(n)
      /\ pad4(n) \in Nat /\ n <= pad4(n)
      /\ 72 + pad4(n) = h.length <=> h.length - 72 \in n .. (n + 3)
  BY StringNumbers
<1>2. ~(h.length < 72) => Inside(h, 0, FieldsEnd.Text)
  BY <1>1, WidthsAssumption DEF Inside, PayloadLen, RECORD_HEADER_LEN, FieldsEnd
<1>3. CASE 72 + pad4(n) # h.length \/ ~(all_finite(h, 16, 56))
  <2>1. decode_text(h).refused \in {"WrongFixedLength", "StringLengthMismatch", "NonFiniteFloat"}
    BY <1>1, <1>2, <1>3 DEF decode_text, Refuse
  <2> QED
    BY <1>1, <1>3, <2>1, NoneAssumption DEF Refusals
<1>4. CASE 72 + pad4(n) = h.length /\ all_finite(h, 16, 56)
  <2>1. ~(h.length < 72) /\ Inside(h, 64, n)
    BY <1>1, <1>4, WidthsAssumption DEF Inside, PayloadLen, RECORD_HEADER_LEN
  <2>2. s # "Internal" /\ (s = None <=> h.utf8)
    BY <1>1, <2>1, StringIsInside
  <2>3. decode_text(h) = IF s # None THEN Refuse(s) ELSE Accept(<< Run(64, n) >>)
    BY <1>1, <1>2, <1>4, <2>1 DEF decode_text
  <2>4. Refuse(s).refused = s
    BY DEF Refuse
  <2> QED
    BY <1>1, <1>4, <2>2, <2>3, <2>4, AcceptedIsAnItem
<1> QED
  BY <1>3, <1>4

LEMMA ViewBeginIsInside ==
    ASSUME NEW h, IsRecord(h)
    PROVE  /\ decode_view_begin(h).refused # "Internal"
           /\ decode_view_begin(h).refused = None <=>
                 /\ h.length - 64 \in h.count[1] .. (h.count[1] + 3)
                 /\ h.utf8
           /\ decode_view_begin(h).refused = None => decode_view_begin(h).runs = << Run(56, h.count[1]) >>
<1> DEFINE n == h.count[1]
           s == string_at(h, 56, n)
<1>1. /\ n \in Nat /\ h.length \in Nat /\ h.length <= HostMax
      /\ Wide(64 + pad4(n)) = 64 + pad4(n)
      /\ pad4(n) \in Nat /\ n <= pad4(n)
      /\ 64 + pad4(n) = h.length <=> h.length - 64 \in n .. (n + 3)
  BY StringNumbers
<1>2. ~(h.length < 64) => Inside(h, 0, FieldsEnd.ViewBegin)
  BY <1>1, WidthsAssumption DEF Inside, PayloadLen, RECORD_HEADER_LEN, FieldsEnd
<1>3. CASE 64 + pad4(n) # h.length
  <2>1. decode_view_begin(h).refused \in {"WrongFixedLength", "StringLengthMismatch"}
    BY <1>1, <1>2, <1>3 DEF decode_view_begin, Refuse
  <2> QED
    BY <1>1, <1>3, <2>1, NoneAssumption DEF Refusals
<1>4. CASE 64 + pad4(n) = h.length
  <2>1. ~(h.length < 64) /\ Inside(h, 56, n)
    BY <1>1, <1>4, WidthsAssumption DEF Inside, PayloadLen, RECORD_HEADER_LEN
  <2>2. s # "Internal" /\ (s = None <=> h.utf8)
    BY <1>1, <2>1, StringIsInside
  <2>3. decode_view_begin(h) = IF s # None THEN Refuse(s) ELSE Accept(<< Run(56, n) >>)
    BY <1>1, <1>2, <1>4, <2>1 DEF decode_view_begin
  <2>4. Refuse(s).refused = s
    BY DEF Refuse
  <2> QED
    BY <1>1, <1>4, <2>2, <2>3, <2>4, AcceptedIsAnItem
<1> QED
  BY <1>3, <1>4

LEMMA WarningIsInside ==
    ASSUME NEW h, IsRecord(h)
    PROVE  /\ decode_warning(h).refused # "Internal"
           /\ decode_warning(h).refused = None <=>
                 /\ h.length - 32 \in h.count[1] .. (h.count[1] + 3)
                 /\ h.utf8
                 /\ h.code # 0
           /\ decode_warning(h).refused = None => decode_warning(h).runs = << Run(24, h.count[1]) >>
<1> DEFINE n == h.count[1]
           s == string_at(h, 24, n)
<1>1. /\ n \in Nat /\ h.length \in Nat /\ h.length <= HostMax
      /\ Wide(32 + pad4(n)) = 32 + pad4(n)
      /\ pad4(n) \in Nat /\ n <= pad4(n)
      /\ 32 + pad4(n) = h.length <=> h.length - 32 \in n .. (n + 3)
  BY StringNumbers
<1>2. ~(h.length < 32) => Inside(h, 0, FieldsEnd.Warning)
  BY <1>1, WidthsAssumption DEF Inside, PayloadLen, RECORD_HEADER_LEN, FieldsEnd
<1>3. CASE 32 + pad4(n) # h.length \/ ~(h.code # 0)
  <2>1. decode_warning(h).refused \in {"WrongFixedLength", "StringLengthMismatch", "ZeroWarningCode"}
    BY <1>1, <1>2, <1>3 DEF decode_warning, Refuse
  <2> QED
    BY <1>1, <1>3, <2>1, NoneAssumption DEF Refusals
<1>4. CASE 32 + pad4(n) = h.length /\ h.code # 0
  <2>1. ~(h.length < 32) /\ Inside(h, 24, n)
    BY <1>1, <1>4, WidthsAssumption DEF Inside, PayloadLen, RECORD_HEADER_LEN
  <2>2. s # "Internal" /\ (s = None <=> h.utf8)
    BY <1>1, <2>1, StringIsInside
  <2>3. decode_warning(h) = IF s # None THEN Refuse(s) ELSE Accept(<< Run(24, n) >>)
    BY <1>1, <1>2, <1>4, <2>1 DEF decode_warning
  <2>4. Refuse(s).refused = s
    BY DEF Refuse
  <2> QED
    BY <1>1, <1>4, <2>2, <2>3, <2>4, AcceptedIsAnItem
<1> QED
  BY <1>3, <1>4

\* decode() of any record: the assumption Batch makes of a record's body.
LEMMA DecodeIsNotInternal ==
    ASSUME NEW h, IsRecord(h)
    PROVE  decode(h).refused # "Internal"
<1>1. CASE h.type \in DOMAIN FixedLength
  BY <1>1, FixedIsNotInternal DEF decode, FixedLength
<1>2. CASE h.type \in {"Polyline", "Polygon"}
  BY <1>2, PolylineTiles DEF decode, FixedLength
<1>3. CASE h.type = "Spline"
  BY <1>3, SplineTiles DEF decode, FixedLength
<1>4. CASE h.type \in {"Text", "ViewBegin", "Warning"}
  BY <1>4, TextIsInside, ViewBeginIsInside, WarningIsInside DEF decode, FixedLength
<1>5. CASE h.type = "Unknown"
  BY <1>5, NoneAssumption DEF decode, FixedLength, Accept, Refusals
<1>6. h.type \in DOMAIN FixedLength \cup {"Polyline", "Polygon", "Spline", "Text",
                                          "ViewBegin", "Warning", "Unknown"}
  BY DEF IsRecord, Types, FieldsEnd, FixedLength
<1> QED
  BY <1>1, <1>2, <1>3, <1>4, <1>5, <1>6

-----------------------------------------------------------------------------
(* The specification *)

\* The item is what decode() makes of the record, and the last get() is get()
\* of one of its views.
PayloadInv ==
    /\ record \in Records
    /\ item = NotYet \/ item = decode(record)
    /\ got = NotYet \/ \E view \in DOMAIN Strides(record.type), i \in Indices :
          got = [view |-> view, index |-> i,
                 some |-> get(item.runs[view], Strides(record.type)[view], i)]
    /\ got # NotYet => item.refused = None

LEMMA PayloadInvariance == Spec => []PayloadInv
<1>1. Init => PayloadInv
  BY DEF Init, PayloadInv
<1>2. PayloadInv /\ [Next]_vars => PayloadInv'
  <2> SUFFICES ASSUME PayloadInv, [Next]_vars PROVE PayloadInv'
      OBVIOUS
  <2>1. CASE Decode
    <3>1. got = NotYet
      BY <2>1, NoneAssumption DEF Decode, PayloadInv, NotYet
    <3> QED
      BY <2>1, <3>1 DEF Decode, PayloadInv
  <2>2. ASSUME NEW view \in DOMAIN Strides(record.type), NEW i \in Indices, Get(view, i)
        PROVE  PayloadInv'
    BY <2>2 DEF Get, PayloadInv
  <2>3. CASE UNCHANGED vars
    BY <2>3 DEF vars, PayloadInv
  <2> QED
    BY <2>1, <2>2, <2>3 DEF Next
<1> QED
  BY <1>1, <1>2, PTL DEF Spec

\* No payload, whatever it declares and however wide the counts are, is
\* answered with the error for a bug of this crate.
THEOREM NoInternal == Spec => []NoPayloadIsInternal
<1>1. PayloadInv => NoPayloadIsInternal
  <2> SUFFICES ASSUME PayloadInv PROVE item.refused # "Internal"
      BY DEF NoPayloadIsInternal
  <2>1. CASE item = NotYet
    BY <2>1 DEF NotYet
  <2>2. CASE item = decode(record)
    BY <2>2, DecodeIsNotInternal, RecordsAssumption DEF PayloadInv
  <2> QED
    BY <2>1, <2>2 DEF PayloadInv
<1> QED
  BY <1>1, PayloadInvariance, PTL

-----------------------------------------------------------------------------
(* What the caller reads *)

\* A run of numbers of eight bytes: what its element i holds was scanned.
LEMMA ElementsAreScanned ==
    ASSUME NEW from \in Nat, NEW at \in Nat, NEW to \in Nat, (at - from) % 8 = 0, from <= at,
           NEW stride \in {8, 24}, NEW i \in Nat,
           at + i * stride + stride <= to
    PROVE  Windows(at + i * stride, at + i * stride + stride) \subseteq Windows(from, to)
<1>1. CASE stride = 8
  BY <1>1 DEF Windows
<1>2. CASE stride = 24
  BY <1>2 DEF Windows
<1> QED
  BY <1>1, <1>2

\* get() answers an element at the indices below len() and nowhere else.
LEMMA GetMatchesLen ==
    ASSUME NEW run, NEW n \in Nat, NEW stride \in {8, 24}, NEW i \in Nat,
           run.len = stride * n, run.len <= HostMax
    PROVE  /\ len(run, stride) = n
           /\ get(run, stride, i) <=> i < n
           /\ i < n => i * stride + stride <= run.len
<1>1. CASE stride = 8
  BY <1>1, WidthsAssumption DEF len, get
<1>2. CASE stride = 24
  BY <1>2, WidthsAssumption DEF len, get
<1> QED
  BY <1>1, <1>2

\* The views of an item with counted runs: each begins behind the one before it
\* in what was scanned, and is as long as its count says.
LEMMA ViewIs ==
    ASSUME NEW h, IsRecord(h), decode(h).refused = None,
           NEW view \in DOMAIN Strides(h.type)
    PROVE  LET run    == decode(h).runs[view]
               stride == Strides(h.type)[view]
           IN  /\ view \in 1 .. 3 /\ h.count[view] \in Nat
               /\ stride \in {8, 24}
               /\ run.len = stride * h.count[view] /\ run.len <= HostMax
               /\ run.at \in Nat /\ run.at + run.len <= PayloadLen(h)
               /\ FloatsFrom(h) \in Nat /\ FloatsFrom(h) <= run.at
               /\ (run.at - FloatsFrom(h)) % 8 = 0
               /\ all_finite(h, FloatsFrom(h), PayloadLen(h))
<1> DEFINE a == h.count[1]
           b == h.count[2]
           c == h.count[3]
<1>1. /\ a \in Nat /\ b \in Nat /\ c \in Nat /\ h.length \in Nat /\ h.length <= HostMax
      /\ HostMax \in Nat
  BY WidthsAssumption DEF IsRecord
<1>2. CASE h.type \in {"Polyline", "Polygon"}
  <2>1. decode(h) = decode_polyline(h) /\ Strides(h.type) = << 24, 8 >> /\ FloatsFrom(h) = 32
    BY <1>2 DEF decode, FixedLength, Strides, FloatsFrom
  <2>2. /\ decode(h).runs = << Run(56, 24 * a), Run(56 + 24 * a, 8 * b) >>
        /\ h.length - 8 = 56 + 24 * a + 8 * b
        /\ all_finite(h, 32, PayloadLen(h))
    BY <2>1, PolylineTiles
  <2>3. PayloadLen(h) = 56 + 24 * a + 8 * b /\ 56 + 24 * a + 8 * b <= HostMax
    BY <1>1, <2>2 DEF PayloadLen, RECORD_HEADER_LEN
  <2>4. CASE view = 1
    BY <1>1, <2>1, <2>2, <2>3, <2>4 DEF Run
  <2>5. CASE view = 2
    BY <1>1, <2>1, <2>2, <2>3, <2>5 DEF Run
  <2> QED
    BY <2>1, <2>4, <2>5
<1>3. CASE h.type = "Spline"
  <2>1. decode(h) = decode_spline(h) /\ Strides(h.type) = << 8, 24, 8 >> /\ FloatsFrom(h) = 40
    BY <1>3 DEF decode, FixedLength, Strides, FloatsFrom
  <2>2. /\ decode(h).runs = << Run(40, 8 * a), Run(40 + 8 * a, 24 * b),
                                Run(40 + 8 * a + 24 * b, 8 * c) >>
        /\ h.length - 8 = 40 + 8 * a + 24 * b + 8 * c
        /\ all_finite(h, 40, PayloadLen(h))
    BY <2>1, SplineTiles
  <2>3. /\ PayloadLen(h) = 40 + 8 * a + 24 * b + 8 * c
        /\ 40 + 8 * a + 24 * b + 8 * c <= HostMax
    BY <1>1, <2>2 DEF PayloadLen, RECORD_HEADER_LEN
  <2>4. CASE view = 1
    BY <1>1, <2>1, <2>2, <2>3, <2>4 DEF Run
  <2>5. CASE view = 2
    BY <1>1, <2>1, <2>2, <2>3, <2>5 DEF Run
  <2>6. CASE view = 3
    BY <1>1, <2>1, <2>2, <2>3, <2>6 DEF Run
  <2> QED
    BY <2>1, <2>4, <2>5, <2>6
<1>4. CASE h.type \notin {"Polyline", "Polygon", "Spline"}
  BY <1>4 DEF Strides
<1> QED
  BY <1>2, <1>3, <1>4

\* An answered record is the record, and an item what decode() made of it.
LEMMA ItemIs ==
    PayloadInv /\ item # NotYet =>
        IsRecord(record) /\ item = decode(record)
BY RecordsAssumption DEF PayloadInv

LEMMA AnItemIsSome == item.refused = None => item # NotYet
<1>1. NotYet.refused # None
  BY NoneAssumption DEF NotYet
<1> QED
  BY <1>1

\* A view answers the elements its record counted and no others, however wide
\* an index is, and every number of them is finite.
THEOREM ViewsAreTheirCounts == Spec => []ViewsReadTheirCounts
<1> DEFINE stride(view) == Strides(record.type)[view]
           n(view)      == len(item.runs[view], stride(view))
           read         == item.runs[got.view].at + got.index * stride(got.view)
<1>1. ASSUME PayloadInv, item.refused = None PROVE ViewsReadTheirCounts
  <2>1. IsRecord(record) /\ item = decode(record) /\ decode(record).refused = None
    BY <1>1, ItemIs, AnItemIsSome
  <2>2. ASSUME NEW view \in DOMAIN Strides(record.type) PROVE n(view) = record.count[view]
    <3>1. 0 \in Nat
      OBVIOUS
    <3> QED
      BY <2>1, <2>2, <3>1, ViewIs, GetMatchesLen
  <2>3. record.type \in {"Polyline", "Polygon"} => n(2) \in {0, n(1)}
    <3> SUFFICES ASSUME record.type \in {"Polyline", "Polygon"} PROVE n(2) \in {0, n(1)}
        OBVIOUS
    <3>1. Strides(record.type) = << 24, 8 >> /\ decode(record) = decode_polyline(record)
      BY DEF Strides, decode, FixedLength
    <3>2. record.count[2] \in {0, record.count[1]}
      BY <2>1, <3>1, PolylineTiles
    <3>3. 1 \in DOMAIN Strides(record.type) /\ 2 \in DOMAIN Strides(record.type)
      BY <3>1
    <3> HIDE DEF n
    <3> QED
      BY <2>2, <3>2, <3>3
  <2>4. record.type = "Spline" => n(3) \in {0, n(2)}
    <3> SUFFICES ASSUME record.type = "Spline" PROVE n(3) \in {0, n(2)}
        OBVIOUS
    <3>1. Strides(record.type) = << 8, 24, 8 >> /\ decode(record) = decode_spline(record)
      BY DEF Strides, decode, FixedLength
    <3>2. record.count[3] \in {0, record.count[2]}
      BY <2>1, <3>1, SplineTiles
    <3>3. 2 \in DOMAIN Strides(record.type) /\ 3 \in DOMAIN Strides(record.type)
      BY <3>1
    <3> HIDE DEF n
    <3> QED
      BY <2>2, <3>2, <3>3
  <2>5. ASSUME got # NotYet
        PROVE  /\ got.some <=> got.index < record.count[got.view]
               /\ got.some => Windows(read, read + stride(got.view)) \cap record.nonfinite = {}
    <3>1. PICK view \in DOMAIN Strides(record.type), i \in Indices :
              got = [view |-> view, index |-> i,
                     some |-> get(item.runs[view], Strides(record.type)[view], i)]
      BY <1>1, <2>5 DEF PayloadInv
    <3>2. i \in Nat
      BY IndicesAssumption, WidthsAssumption
    <3> DEFINE run  == item.runs[view]
               s    == Strides(record.type)[view]
               from == FloatsFrom(record)
               to   == PayloadLen(record)
               k    == record.count[view]
    <3>3. /\ k \in Nat /\ s \in {8, 24} /\ run.len = s * k /\ run.len <= HostMax
          /\ run.at \in Nat /\ run.at + run.len <= to
          /\ from \in Nat /\ from <= run.at /\ (run.at - from) % 8 = 0
          /\ all_finite(record, from, to)
      BY <2>1, ViewIs
    <3>4. got.view = view /\ got.index = i /\ (got.some <=> get(run, s, i))
      BY <3>1
    <3>5. to \in Nat
      BY <2>1, <3>3 DEF PayloadLen, RECORD_HEADER_LEN, IsRecord
    <3>6. read = run.at + i * s /\ stride(got.view) = s
      BY <3>4
    <3> HIDE DEF run, s, from, to, k, read, stride
    <3>7. (get(run, s, i) <=> i < k) /\ (i < k => i * s + s <= run.len)
      BY <3>2, <3>3, GetMatchesLen, ZenonT(40)
    <3>8. i < k => run.at + i * s + s <= to
      <4>1. i * s \in Nat /\ s \in Nat /\ run.len \in Nat
        BY <3>2, <3>3
      <4> QED
        BY <3>3, <3>5, <3>7, <4>1
    <3>9. i < k => Windows(run.at + i * s, run.at + i * s + s) \subseteq Windows(from, to)
      BY <3>2, <3>3, <3>5, <3>8, ElementsAreScanned
    <3>10. got.some <=> got.index < k
      BY <3>4, <3>7
    <3>11. got.some => Windows(run.at + i * s, run.at + i * s + s) \cap record.nonfinite = {}
      BY <3>3, <3>4, <3>7, <3>9 DEF all_finite
    <3> QED
      BY <3>4, <3>6, <3>10, <3>11 DEF k
  <2> QED
    BY <2>2, <2>3, <2>4, <2>5 DEF ViewsReadTheirCounts
<1>2. PayloadInv => ViewsReadTheirCounts
  BY <1>1 DEF ViewsReadTheirCounts
<1> QED
  BY <1>2, PayloadInvariance, PTL

\* The runs of an item, end to end.
LEMMA RunsAre ==
    ASSUME NEW h, IsRecord(h), decode(h).refused = None, h.type \notin DOMAIN FixedLength
    PROVE  LET runs   == decode(h).runs
               end(i) == runs[i].at + runs[i].len
           IN  /\ \A i \in 1 .. Len(runs) - 1 : runs[i + 1].at = end(i)
               /\ PayloadLen(h) - end(Len(runs)) \in
                      IF h.type \in {"Text", "ViewBegin", "Warning"} THEN 0 .. 3 ELSE {0}
<1> DEFINE a == h.count[1]
           b == h.count[2]
           c == h.count[3]
           runs   == decode(h).runs
           end(i) == runs[i].at + runs[i].len
<1>1. /\ a \in Nat /\ b \in Nat /\ c \in Nat /\ h.length \in Nat
      /\ PayloadLen(h) = h.length - 8
  BY WidthsAssumption DEF IsRecord, PayloadLen, RECORD_HEADER_LEN
<1>2. CASE h.type \in {"Polyline", "Polygon"}
  <2>1. decode(h) = decode_polyline(h)
    BY <1>2 DEF decode, FixedLength
  <2>2. /\ runs = << Run(56, 24 * a), Run(56 + 24 * a, 8 * b) >>
        /\ h.length - 8 = 56 + 24 * a + 8 * b
    BY <2>1, PolylineTiles
  <2> HIDE DEF runs
  <2>3. end(1) = runs[2].at /\ end(2) = PayloadLen(h) /\ Len(runs) = 2
    BY <1>1, <2>2 DEF Run
  <2> QED
    BY <1>1, <1>2, <2>3 DEF runs
<1>3. CASE h.type = "Spline"
  <2>1. decode(h) = decode_spline(h)
    BY <1>3 DEF decode, FixedLength
  <2>2. /\ runs = << Run(40, 8 * a), Run(40 + 8 * a, 24 * b), Run(40 + 8 * a + 24 * b, 8 * c) >>
        /\ h.length - 8 = 40 + 8 * a + 24 * b + 8 * c
    BY <2>1, SplineTiles
  <2> HIDE DEF runs
  <2>3. /\ end(1) = runs[2].at /\ end(2) = runs[3].at /\ end(3) = PayloadLen(h)
        /\ Len(runs) = 3
    BY <1>1, <2>2 DEF Run
  <2> QED
    BY <1>1, <1>3, <2>3 DEF runs
<1>4. CASE h.type \in {"Text", "ViewBegin", "Warning"}
  <2>1. \/ /\ h.type = "Text" /\ decode(h) = decode_text(h)
        \/ /\ h.type = "ViewBegin" /\ decode(h) = decode_view_begin(h)
        \/ /\ h.type = "Warning" /\ decode(h) = decode_warning(h)
    BY <1>4 DEF decode, FixedLength
  <2>2. \E at \in {64, 56, 24} : /\ runs = << Run(at, a) >>
                                /\ h.length - 8 - at \in a .. (a + 3)
    BY <1>1, <2>1, TextIsInside, ViewBeginIsInside, WarningIsInside
  <2> HIDE DEF runs
  <2>3. Len(runs) = 1 /\ PayloadLen(h) - end(1) \in 0 .. 3
    BY <1>1, <2>2 DEF Run
  <2> QED
    BY <1>4, <2>3 DEF runs
<1>5. CASE h.type = "Unknown"
  <2>1. runs = << Run(0, PayloadLen(h)) >>
    BY <1>5, AcceptedIsAnItem DEF decode, FixedLength
  <2> HIDE DEF runs
  <2>2. Len(runs) = 1 /\ end(1) = PayloadLen(h)
    BY <1>1, <2>1 DEF Run
  <2> QED
    BY <1>1, <1>5, <2>2 DEF runs
<1>6. h.type \in {"Polyline", "Polygon", "Spline", "Text", "ViewBegin", "Warning", "Unknown"}
  BY DEF IsRecord, Types, FieldsEnd, FixedLength
<1> QED
  BY <1>2, <1>3, <1>4, <1>5, <1>6

\* The runs of an item tile its record from the end of its fixed part, up to
\* three bytes of padding behind a string.
THEOREM ItemsAreTiled == Spec => []RunsTile
<1>1. ASSUME PayloadInv, item.refused = None, record.type \notin DOMAIN FixedLength
      PROVE  RunsTile
  <2>1. IsRecord(record) /\ item = decode(record) /\ decode(record).refused = None
    BY <1>1, ItemIs, AnItemIsSome
  <2> QED
    BY <1>1, <2>1, RunsAre DEF RunsTile
<1>2. PayloadInv => RunsTile
  BY <1>1 DEF RunsTile
<1> QED
  BY <1>2, PayloadInvariance, PTL

\* decode() accepts a record exactly when it is one of the format.
LEMMA FormatIs ==
    ASSUME NEW h, IsRecord(h)
    PROVE  decode(h).refused = None <=> WellFormed(h)
<1> DEFINE a == h.count[1]
           b == h.count[2]
           c == h.count[3]
<1>1. /\ a \in Nat /\ b \in Nat /\ c \in Nat /\ h.length \in Nat
      /\ PayloadLen(h) = h.length - 8
  BY WidthsAssumption DEF IsRecord, PayloadLen, RECORD_HEADER_LEN
<1>2. Windows(16, 0) = {}
  BY DEF Windows
<1>3. CASE h.type \in DOMAIN FixedLength
  <2>1. decode(h) = decode_fixed(h)
    BY <1>3 DEF decode, FixedLength
  <2>2. WellFormed(h) <=> h.length = FixedLength[h.type] /\ Floats(h) \cap h.nonfinite = {}
    BY <1>3 DEF WellFormed, FixedLength
  <2>3. CASE h.type \in Geometry
    <3>1. h.length = FixedLength[h.type] => PayloadLen(h) = FieldsEnd[h.type]
      BY <1>1, <2>3 DEF Geometry, FixedLength, FieldsEnd
    <3>2. Floats(h) = Windows(16, FieldsEnd[h.type])
      BY <2>3 DEF Floats, FloatsFrom, FloatsEnd, Geometry
    <3> QED
      BY <1>3, <2>1, <2>2, <2>3, <3>1, <3>2, FixedIsNotInternal DEF all_finite
  <2>4. CASE h.type \notin Geometry
    <3>1. Floats(h) = Windows(16, 0)
      BY <1>3, <2>4 DEF Floats, FloatsFrom, FloatsEnd, FixedLength
    <3> QED
      BY <1>2, <1>3, <2>1, <2>2, <2>4, <3>1, FixedIsNotInternal
  <2> QED
    BY <2>3, <2>4
<1>4. CASE h.type \in {"Polyline", "Polygon"}
  <2>1. decode(h) = decode_polyline(h)
    BY <1>4 DEF decode, FixedLength
  <2>2. WellFormed(h) <=> /\ b \in {0, a} /\ h.length = 64 + 24 * a + 8 * b
                          /\ Floats(h) \cap h.nonfinite = {}
    BY <1>4 DEF WellFormed, FixedLength
  <2>3. Floats(h) = Windows(32, 56 + 24 * a + 8 * b)
    BY <1>4 DEF Floats, FloatsFrom, FloatsEnd, Geometry
  <2>4. h.length = 64 + 24 * a + 8 * b => PayloadLen(h) = 56 + 24 * a + 8 * b
    BY <1>1
  <2> QED
    BY <2>1, <2>2, <2>3, <2>4, PolylineTiles DEF all_finite
<1>5. CASE h.type = "Spline"
  <2>1. decode(h) = decode_spline(h)
    BY <1>5 DEF decode, FixedLength
  <2>2. WellFormed(h) <=> /\ c \in {0, b} /\ h.length = 48 + 8 * a + 24 * b + 8 * c
                          /\ Floats(h) \cap h.nonfinite = {}
    BY <1>5 DEF WellFormed, FixedLength
  <2>3. Floats(h) = Windows(40, 40 + 8 * a + 24 * b + 8 * c)
    BY <1>5 DEF Floats, FloatsFrom, FloatsEnd, Geometry
  <2>4. h.length = 48 + 8 * a + 24 * b + 8 * c => PayloadLen(h) = 40 + 8 * a + 24 * b + 8 * c
    BY <1>1
  <2> QED
    BY <2>1, <2>2, <2>3, <2>4, SplineTiles DEF all_finite
<1>6. CASE h.type = "Text"
  <2>1. decode(h) = decode_text(h)
    BY <1>6 DEF decode, FixedLength
  <2>2. WellFormed(h) <=> /\ h.length - 72 \in a .. (a + 3) /\ h.utf8
                          /\ Floats(h) \cap h.nonfinite = {}
    BY <1>6 DEF WellFormed, FixedLength
  <2>3. Floats(h) = Windows(16, 56)
    BY <1>6 DEF Floats, FloatsFrom, FloatsEnd, Geometry
  <2> QED
    BY <2>1, <2>2, <2>3, TextIsInside DEF all_finite
<1>7. CASE h.type \in {"ViewBegin", "Warning", "Unknown"}
  <2>1. Floats(h) = Windows(16, 0)
    BY <1>7 DEF Floats, FloatsFrom, FloatsEnd, Geometry
  <2>2. CASE h.type = "ViewBegin"
    <3>1. decode(h) = decode_view_begin(h)
      BY <2>2 DEF decode, FixedLength
    <3>2. WellFormed(h) <=> h.length - 64 \in a .. (a + 3) /\ h.utf8
      BY <1>2, <2>1, <2>2 DEF WellFormed, FixedLength
    <3> QED
      BY <3>1, <3>2, ViewBeginIsInside
  <2>3. CASE h.type = "Warning"
    <3>1. decode(h) = decode_warning(h)
      BY <2>3 DEF decode, FixedLength
    <3>2. WellFormed(h) <=> h.length - 32 \in a .. (a + 3) /\ h.utf8 /\ h.code # 0
      BY <1>2, <2>1, <2>3 DEF WellFormed, FixedLength
    <3> QED
      BY <3>1, <3>2, WarningIsInside
  <2>4. CASE h.type = "Unknown"
    <3>1. decode(h).refused = None
      BY <2>4, AcceptedIsAnItem DEF decode, FixedLength
    <3>2. WellFormed(h)
      BY <1>2, <2>1, <2>4 DEF WellFormed, FixedLength
    <3> QED
      BY <3>1, <3>2
  <2> QED
    BY <1>7, <2>2, <2>3, <2>4
<1>8. h.type \in DOMAIN FixedLength \cup {"Polyline", "Polygon", "Spline", "Text",
                                          "ViewBegin", "Warning", "Unknown"}
  BY DEF IsRecord, Types, FieldsEnd, FixedLength
<1> QED
  BY <1>3, <1>4, <1>5, <1>6, <1>7, <1>8

\* decode() accepts the records of the format and no others: no count, however
\* wide, makes an identity wrap, and no byte outside the floats is scanned.
THEOREM TheFormatIsDecoded == Spec => []DecodesTheFormat
<1>1. PayloadInv => DecodesTheFormat
  BY ItemIs, FormatIs DEF DecodesTheFormat
<1> QED
  BY <1>1, PayloadInvariance, PTL
=============================================================================
