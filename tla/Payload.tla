------------------------------- MODULE Payload -------------------------------
(***************************************************************************)
(* What src/src/batch.rs makes of the payload of one record: decode() and  *)
(* the readers it calls, and the views (Vertices, Scalars) a caller reads  *)
(* the counted ones through.                                               *)
(*                                                                         *)
(* A payload is abstracted to the length its record declares, the counts   *)
(* it carries, the eight-byte windows of it that do not read as a finite   *)
(* f64, and whether the bytes of its string are UTF-8.  Counts are u32 and *)
(* the arithmetic over them u64; the widths are parameters.  An operator   *)
(* commented as a slip is its neighbour with a plausible mistake in it.    *)
(***************************************************************************)
EXTENDS Integers, Sequences

CONSTANTS
    None,
    MAX_COUNT,          \* u32::MAX
    WideLimit,          \* 2^64
    HostMax,            \* usize::MAX
    Records,            \* the records a caller may be given
    Indices             \* the indices it may ask a view for

RECORD_HEADER_LEN == 8

\* What a payload is refused by.
Refusals ==
    {"WrongFixedLength", "BulgeCount", "PolylineLengthMismatch", "WeightCount",
     "SplineLengthMismatch", "StringLengthMismatch", "NonFiniteFloat",
     "InvalidUtf8", "ZeroWarningCode", "Internal"}

ASSUME NoneAssumption == None \notin Refusals \cup {"not yet"}

\* The compile-time asserts of batch.rs, and that a u64 is wider than a u32.
ASSUME WidthsAssumption ==
    /\ MAX_COUNT \in Nat /\ WideLimit \in Nat /\ HostMax \in Nat
    /\ 64 + 24 * MAX_COUNT + 8 * MAX_COUNT < WideLimit - 1
    /\ 48 + 8 * MAX_COUNT + 24 * MAX_COUNT + 8 * MAX_COUNT < WideLimit - 1
    /\ 72 + MAX_COUNT + 3 < WideLimit - 1

\* The one legal length of each fixed size record.
FixedLength ==
    [DocumentBegin |-> 24, Line |-> 72, Arc |-> 96, Circle |-> 80,
     Ellipse |-> 120, ViewEnd |-> 24, DocumentEnd |-> 24]

\* How far into its payload the fields of a record reach, the counted runs and
\* the string apart.
FieldsEnd ==
    [DocumentBegin |-> 8, Line |-> 64, Arc |-> 88, Circle |-> 72,
     Ellipse |-> 112, ViewEnd |-> 16, DocumentEnd |-> 16,
     ViewBegin |-> 52, Polyline |-> 56, Polygon |-> 56, Spline |-> 36,
     Text |-> 60, Warning |-> 20]

Types == DOMAIN FieldsEnd \cup {"Unknown"}

\* count[1], count[2] and count[3] are the counts of the record in their order:
\* points and bulges; knots, controls and weights; the bytes of the string.
\* code is the code of a Warning.
IsRecord(h) ==
    /\ h.type \in Types
    /\ h.length \in Nat /\ h.length >= RECORD_HEADER_LEN /\ h.length % 4 = 0
    /\ h.length <= HostMax
    /\ \A i \in 1 .. 3 : h.count[i] \in 0 .. MAX_COUNT
    /\ h.code \in 0 .. MAX_COUNT
    /\ h.nonfinite \subseteq Nat
    /\ h.utf8 \in BOOLEAN

ASSUME RecordsAssumption == \A h \in Records : IsRecord(h)
ASSUME IndicesAssumption == Indices \subseteq 0 .. HostMax

-----------------------------------------------------------------------------
(* The helpers every reader shares *)

Wide(n) == n % WideLimit

pad4(v) == 4 * ((v + 3) \div 4)

\* Slip: the identity is computed in the width of the counts.
polyline_length_Narrow(points, bulges) == (64 + 24 * points + 8 * bulges) % (MAX_COUNT + 1)

polyline_length(points, bulges) == Wide(64 + 24 * points + 8 * bulges)
spline_length(knots, controls, weights) ==
    Wide(48 + 8 * knots + 24 * controls + 8 * weights)

PayloadLen(h) == h.length - RECORD_HEADER_LEN

\* Fields: a range of the payload can be read.
Inside(h, at, len) == at + len <= HostMax /\ at + len <= PayloadLen(h)

\* The eight-byte windows all_finite looks at, in a slice that begins at from
\* and ends at to.
Windows(from, to) == {w \in from .. to : (w - from) % 8 = 0 /\ w + 8 <= to}

all_finite(h, from, to) == Windows(from, to) \cap h.nonfinite = {}

\* The first rule that does not hold refuses the record.
Refuse(reason) == [refused |-> reason]
Accept(runs)   == [refused |-> None, runs |-> runs]

\* finite(), over everything from an offset to the end of the payload.
finite(h, from) ==
    IF from > PayloadLen(h)                    THEN "Internal"
    ELSE IF ~all_finite(h, from, PayloadLen(h)) THEN "NonFiniteFloat"
    ELSE None

\* string_at()
string_at(h, at, len) ==
    IF ~Inside(h, at, len) THEN "Internal"
    ELSE IF ~h.utf8        THEN "InvalidUtf8"
    ELSE None

Run(at, len) == [at |-> at, len |-> len]

-----------------------------------------------------------------------------
(* decode(), one operator for each arm that differs *)

Geometry == {"Line", "Arc", "Circle", "Ellipse"}

decode_fixed(h) ==
    IF h.length # FixedLength[h.type]         THEN Refuse("WrongFixedLength")
    ELSE IF ~Inside(h, 0, FieldsEnd[h.type])  THEN Refuse("Internal")
    ELSE IF h.type \in Geometry /\ finite(h, 16) # None
                                              THEN Refuse(finite(h, 16))
    ELSE Accept(<< >>)

\* Slip: the bulges are read from where the vertices begin.
decode_polyline_Overlaid(h) ==
    LET points == h.count[1]
        bulges == h.count[2]
    IN  IF h.length < 64                                 THEN Refuse("WrongFixedLength")
        ELSE IF ~Inside(h, 0, 28)                        THEN Refuse("Internal")
        ELSE IF bulges \notin {0, points}                THEN Refuse("BulgeCount")
        ELSE IF polyline_length(points, bulges) # h.length
                                                         THEN Refuse("PolylineLengthMismatch")
        ELSE IF finite(h, 32) # None                     THEN Refuse(finite(h, 32))
        ELSE Accept(<< Run(56, Wide(24 * points)), Run(56, Wide(8 * bulges)) >>)

decode_polyline(h) ==
    LET points == h.count[1]
        bulges == h.count[2]
    IN  IF h.length < 64                                 THEN Refuse("WrongFixedLength")
        ELSE IF ~Inside(h, 0, 28)                        THEN Refuse("Internal")
        ELSE IF bulges \notin {0, points}                THEN Refuse("BulgeCount")
        ELSE IF polyline_length(points, bulges) # h.length
                                                         THEN Refuse("PolylineLengthMismatch")
        ELSE IF finite(h, 32) # None                     THEN Refuse(finite(h, 32))
        ELSE IF ~Inside(h, 56, Wide(24 * points))        THEN Refuse("Internal")
        ELSE IF ~Inside(h, 56 + Wide(24 * points), Wide(8 * bulges))
                                                         THEN Refuse("Internal")
        ELSE IF ~Inside(h, 0, FieldsEnd.Polyline)        THEN Refuse("Internal")
        ELSE Accept(<< Run(56, Wide(24 * points)),
                       Run(56 + Wide(24 * points), Wide(8 * bulges)) >>)

decode_spline(h) ==
    LET knots    == Wide(8 * h.count[1])
        controls == Wide(24 * h.count[2])
        weights  == Wide(8 * h.count[3])
    IN  IF h.length < 48                                 THEN Refuse("WrongFixedLength")
        ELSE IF ~Inside(h, 0, 36)                        THEN Refuse("Internal")
        ELSE IF h.count[3] \notin {0, h.count[2]}        THEN Refuse("WeightCount")
        ELSE IF spline_length(h.count[1], h.count[2], h.count[3]) # h.length
                                                         THEN Refuse("SplineLengthMismatch")
        ELSE IF finite(h, 40) # None                     THEN Refuse(finite(h, 40))
        ELSE IF ~Inside(h, 40, knots)                    THEN Refuse("Internal")
        ELSE IF ~Inside(h, 40 + knots, controls)         THEN Refuse("Internal")
        ELSE IF ~Inside(h, 40 + knots + controls, weights)
                                                         THEN Refuse("Internal")
        ELSE Accept(<< Run(40, knots), Run(40 + knots, controls),
                       Run(40 + knots + controls, weights) >>)

\* Slip: the scan runs on into the string.
decode_text_Scanned(h) ==
    LET bytes == h.count[1]
    IN  IF h.length < 72                                 THEN Refuse("WrongFixedLength")
        ELSE IF ~Inside(h, 0, FieldsEnd.Text)            THEN Refuse("Internal")
        ELSE IF Wide(72 + pad4(bytes)) # h.length        THEN Refuse("StringLengthMismatch")
        ELSE IF finite(h, 16) # None                     THEN Refuse(finite(h, 16))
        ELSE IF string_at(h, 64, bytes) # None           THEN Refuse(string_at(h, 64, bytes))
        ELSE Accept(<< Run(64, bytes) >>)

\* The scan stops in front of the string.
decode_text(h) ==
    LET bytes == h.count[1]
    IN  IF h.length < 72                                 THEN Refuse("WrongFixedLength")
        ELSE IF ~Inside(h, 0, FieldsEnd.Text)            THEN Refuse("Internal")
        ELSE IF Wide(72 + pad4(bytes)) # h.length        THEN Refuse("StringLengthMismatch")
        ELSE IF ~all_finite(h, 16, 56)                   THEN Refuse("NonFiniteFloat")
        ELSE IF string_at(h, 64, bytes) # None           THEN Refuse(string_at(h, 64, bytes))
        ELSE Accept(<< Run(64, bytes) >>)

decode_view_begin(h) ==
    LET bytes == h.count[1]
    IN  IF h.length < 64                                 THEN Refuse("WrongFixedLength")
        ELSE IF ~Inside(h, 0, FieldsEnd.ViewBegin)       THEN Refuse("Internal")
        ELSE IF Wide(64 + pad4(bytes)) # h.length        THEN Refuse("StringLengthMismatch")
        ELSE IF string_at(h, 56, bytes) # None           THEN Refuse(string_at(h, 56, bytes))
        ELSE Accept(<< Run(56, bytes) >>)

decode_warning(h) ==
    LET bytes == h.count[1]
    IN  IF h.length < 32                                 THEN Refuse("WrongFixedLength")
        ELSE IF ~Inside(h, 0, FieldsEnd.Warning)         THEN Refuse("Internal")
        ELSE IF Wide(32 + pad4(bytes)) # h.length        THEN Refuse("StringLengthMismatch")
        ELSE IF h.code = 0                               THEN Refuse("ZeroWarningCode")
        ELSE IF string_at(h, 24, bytes) # None           THEN Refuse(string_at(h, 24, bytes))
        ELSE Accept(<< Run(24, bytes) >>)

decode(h) ==
    CASE h.type \in DOMAIN FixedLength       -> decode_fixed(h)
      [] h.type \in {"Polyline", "Polygon"}  -> decode_polyline(h)
      [] h.type = "Spline"                   -> decode_spline(h)
      [] h.type = "Text"                     -> decode_text(h)
      [] h.type = "ViewBegin"                -> decode_view_begin(h)
      [] h.type = "Warning"                  -> decode_warning(h)
      [] h.type = "Unknown"                  -> Accept(<< Run(0, PayloadLen(h)) >>)

-----------------------------------------------------------------------------
(* The views *)

\* The strides of the counted runs of an item: Vertices and Scalars.
Strides(type) ==
    CASE type \in {"Polyline", "Polygon"} -> << 24, 8 >>
      [] type = "Spline"                  -> << 8, 24, 8 >>
      [] OTHER                            -> << >>

\* Vertices::len and Scalars::len
len(run, stride) == run.len \div stride

\* Slip: the offset of an index is left to wrap.
get_Wrapping(run, stride, i) == ((i * stride) % (HostMax + 1)) + stride <= run.len

\* Vertices::get and Scalars::get: whether there is an element to answer.
get(run, stride, i) ==
    /\ i * stride <= HostMax
    /\ i * stride + stride <= HostMax
    /\ i * stride + stride <= run.len

-----------------------------------------------------------------------------
(* A caller with one record *)

VARIABLES
    record,
    item,       \* what decode() answered, or NotYet
    got         \* the last get(): [view, index, some], or NotYet

vars == <<record, item, got>>

NotYet == [refused |-> "not yet"]

Init == record \in Records /\ item = NotYet /\ got = NotYet

Decode ==
    /\ item = NotYet
    /\ item' = decode(record)
    /\ UNCHANGED <<record, got>>

Get(view, i) ==
    /\ item.refused = None
    /\ got' = [view |-> view, index |-> i,
               some |-> get(item.runs[view], Strides(record.type)[view], i)]
    /\ UNCHANGED <<record, item>>

Next == Decode \/ \E view \in DOMAIN Strides(record.type), i \in Indices : Get(view, i)

Spec == Init /\ [][Next]_vars

-----------------------------------------------------------------------------
(* Properties *)

\* No payload, whatever it declares, is answered with the error for a bug of
\* this crate: every read is inside the record once the rules before it held.
NoPayloadIsInternal == item.refused # "Internal"

\* The floats of an item, by the layout of its record.
FloatsFrom(h) == CASE h.type \in {"Polyline", "Polygon"} -> 32
                   [] h.type = "Spline"                  -> 40
                   [] OTHER                              -> 16
FloatsEnd(h) ==
    CASE h.type \in Geometry               -> FieldsEnd[h.type]
      [] h.type = "Text"                   -> 56
      [] h.type \in {"Polyline", "Polygon"} -> 56 + 24 * h.count[1] + 8 * h.count[2]
      [] h.type = "Spline"   -> 40 + 8 * h.count[1] + 24 * h.count[2] + 8 * h.count[3]
      [] OTHER                             -> 0
Floats(h) == Windows(FloatsFrom(h), FloatsEnd(h))

\* A record of the format: its counts account for its length exactly, in
\* numbers without a width, its floats are finite and its string is UTF-8.
WellFormed(h) ==
    /\ CASE h.type \in DOMAIN FixedLength -> h.length = FixedLength[h.type]
         [] h.type \in {"Polyline", "Polygon"} ->
               /\ h.count[2] \in {0, h.count[1]}
               /\ h.length = 64 + 24 * h.count[1] + 8 * h.count[2]
         [] h.type = "Spline" ->
               /\ h.count[3] \in {0, h.count[2]}
               /\ h.length = 48 + 8 * h.count[1] + 24 * h.count[2] + 8 * h.count[3]
         [] h.type = "Text"      -> h.length - 72 \in h.count[1] .. (h.count[1] + 3)
         [] h.type = "ViewBegin" -> h.length - 64 \in h.count[1] .. (h.count[1] + 3)
         [] h.type = "Warning"   -> h.length - 32 \in h.count[1] .. (h.count[1] + 3)
         [] OTHER                -> TRUE
    /\ Floats(h) \cap h.nonfinite = {}
    /\ h.type \in {"Text", "ViewBegin", "Warning"} => h.utf8
    /\ h.type = "Warning" => h.code # 0

\* decode() accepts the records of the format and no others: no count can make
\* an identity wrap, and no byte outside the floats is scanned as one.
DecodesTheFormat == item # NotYet => (item.refused = None <=> WellFormed(record))

\* The runs of an item lie one behind the other from the end of its fixed part
\* to the end of its record, up to three bytes of padding behind a string.
RunsTile ==
    item.refused = None /\ record.type \notin DOMAIN FixedLength =>
        LET end(i) == item.runs[i].at + item.runs[i].len
            last   == end(Len(item.runs))
        IN  /\ \A i \in 1 .. Len(item.runs) - 1 : item.runs[i + 1].at = end(i)
            /\ PayloadLen(record) - last \in
                   IF record.type \in {"Text", "ViewBegin", "Warning"} THEN 0 .. 3 ELSE {0}

\* A view answers the elements its record counted and no others, also at an
\* index whose offset no usize holds, the one that goes with another one holds
\* an element for each of its elements or none, and no element that is answered
\* holds a number that is not finite.
ViewsReadTheirCounts ==
    item.refused = None =>
        LET stride(view) == Strides(record.type)[view]
            n(view)      == len(item.runs[view], stride(view))
            read         == item.runs[got.view].at + got.index * stride(got.view)
        IN  /\ \A view \in DOMAIN Strides(record.type) : n(view) = record.count[view]
            /\ record.type \in {"Polyline", "Polygon"} => n(2) \in {0, n(1)}
            /\ record.type = "Spline" => n(3) \in {0, n(2)}
            /\ got # NotYet =>
                  /\ got.some <=> got.index < record.count[got.view]
                  /\ got.some => Windows(read, read + stride(got.view))
                                     \cap record.nonfinite = {}
=============================================================================
