-------------------------------- MODULE Dump --------------------------------
(***************************************************************************)
(* src/examples/dump.rs, the program tools/aot_parity.sh compares with the *)
(* recordings: it drains the stream of one view, keeps a line for each     *)
(* record the recording has, and writes them when the stream ended in      *)
(* order.  The stream is what Delivery promises of it.                     *)
(*                                                                         *)
(* A line is kept as its fields: their separators, names and the hex of    *)
(* the handle are layout, and the code of a warning stands for its name.   *)
(* Texts are sequences of code points.  A finite number other than zero is *)
(* the digits and the exponent that format!("{:.14e}") writes of it.  An   *)
(* operator commented as a slip is its neighbour with a plausible mistake  *)
(* in it.                                                                  *)
(***************************************************************************)
EXTENDS Integers, Sequences, FiniteSets

CONSTANTS
    None,
    Decimals,               \* 6
    FORWARD_PROBE_FIRST,
    Views                   \* the records of the views that may be dumped

ASSUME DecimalsAssumption == Decimals \in Nat \ {0}

ASSUME NoneAssumption == None \notin Nat

Framing == {"DocumentBegin", "ViewBegin", "ViewEnd", "DocumentEnd"}

\* The fields of a primitive that hold numbers, in the order they are printed.
Printed ==
    [Line     |-> << "start", "end" >>,
     Arc      |-> << "centre", "radius", "start_angle", "end_angle", "normal" >>,
     Circle   |-> << "centre", "radius", "normal" >>,
     Ellipse  |-> << "centre", "major_axis", "ratio", "start_param", "end_param",
                     "normal" >>,
     Polyline |-> << "vertices", "bulges", "normal" >>,
     Polygon  |-> << "vertices", "bulges", "normal" >>,
     Spline   |-> << "knots", "controls", "weights" >>,
     Text     |-> << "position", "height", "rotation" >>]

\* What format!("{:.14e}") may say of a finite number.
IsFormatted(x) ==
    x.class = "finite" => x.digits \in Seq(0 .. 9) /\ x.digits # << >> /\ x.exp \in Int

ASSUME ViewsAssumption ==
    /\ FORWARD_PROBE_FIRST \in Nat
    /\ \A v \in Views :
          /\ v \in Seq({v[i] : i \in DOMAIN v})
          /\ \A i \in DOMAIN v :
                /\ v[i].type \in Framing \cup {"Unknown", "Warning"} \cup DOMAIN Printed
                /\ v[i].type = "Unknown" => v[i].record_type \in Nat
                /\ v[i].type \in {"Text", "Warning"} => v[i].text \in Seq(Nat)
                /\ v[i].type \in DOMAIN Printed =>
                      \A g \in DOMAIN Printed[v[i].type] :
                          LET field == v[i].fields[Printed[v[i].type][g]]
                          IN  \A k \in DOMAIN field : IsFormatted(field[k])

-----------------------------------------------------------------------------
(* quote() *)

hex(digit) == IF digit < 10 THEN 48 + digit ELSE 87 + digit

\* Slip: a backslash is taken for a character like the others.
escape_NoBackslash(ch) ==
    CASE ch = 34 -> << 92, 34 >>
      [] ch = 10 -> << 92, 110 >>
      [] ch = 13 -> << 92, 114 >>
      [] ch = 9  -> << 92, 116 >>
      [] ch < 32 /\ ch \notin {9, 10, 13} ->
            << 92, 117, 48, 48, hex(ch \div 16), hex(ch % 16) >>
      [] OTHER   -> << ch >>

escape(ch) ==
    CASE ch = 34 -> << 92, 34 >>
      [] ch = 92 -> << 92, 92 >>
      [] ch = 10 -> << 92, 110 >>
      [] ch = 13 -> << 92, 114 >>
      [] ch = 9  -> << 92, 116 >>
      [] ch < 32 /\ ch \notin {9, 10, 13} ->
            << 92, 117, 48, 48, hex(ch \div 16), hex(ch % 16) >>
      [] OTHER   -> << ch >>

quote(text) ==
    LET s[i \in 0 .. Len(text)] ==
            IF i = 0 THEN << 34 >> ELSE s[i - 1] \o escape(text[i])
    IN  Append(s[Len(text)], 34)

-----------------------------------------------------------------------------
(* n() *)

Zeros(count) == [i \in 1 .. count |-> 0]
Nought       == [neg |-> FALSE, whole |-> << 0 >>, frac |-> Zeros(Decimals)]

\* Slip: the carry stops at the first digit.
Carried_Lost(digits) ==
    [i \in DOMAIN digits |->
        IF \A j \in DOMAIN digits : j > i => digits[j] = 9
        THEN (digits[i] + 1) % 10 ELSE digits[i]]

\* One more in the last place: the nines at the end turn over, and a digit is
\* inserted in front when there is nothing else.
Carried(digits) ==
    LET over(i) == \A j \in DOMAIN digits : j >= i => digits[j] = 9
        added   == [i \in DOMAIN digits |->
                       IF over(i) THEN 0
                       ELSE IF i = Len(digits) \/ over(i + 1) THEN digits[i] + 1
                       ELSE digits[i]]
    IN  IF over(1) THEN << 1 >> \o added ELSE added

Trimmed(whole) ==
    LET kept == {i \in DOMAIN whole : i = Len(whole) \/ \E j \in 1 .. i : whole[j] # 0}
    IN  SubSeq(whole, Len(whole) + 1 - Cardinality(kept), Len(whole))

n(x) ==
    LET keep     == x.exp + 1 + Decimals
        cut      == [i \in 1 .. keep |-> IF i <= Len(x.digits) THEN x.digits[i] ELSE 0]
        round_up == keep < Len(x.digits) /\ x.digits[keep + 1] >= 5
        rounded  == IF round_up THEN Carried(cut) ELSE cut
        short    == Decimals + 1 - Len(rounded)
        digits   == IF short > 0 THEN Zeros(short) \o rounded ELSE rounded
        split    == Len(digits) - Decimals
        whole    == Trimmed(SubSeq(digits, 1, split))
        frac     == SubSeq(digits, split + 1, Len(digits))
        zero     == whole = << 0 >> /\ frac = Zeros(Decimals)
    IN  CASE x.class = "NaN"      -> [word |-> "NaN", neg |-> FALSE]
          [] x.class = "infinite" -> [word |-> "Infinity", neg |-> x.neg]
          [] x.class = "zero"     -> Nought
          [] x.class = "finite"   ->
                IF keep < 0 THEN Nought
                ELSE [neg |-> x.neg /\ ~zero, whole |-> whole, frac |-> frac]

-----------------------------------------------------------------------------
(* line() *)

map_or_0(handle) == IF handle = None THEN 0 ELSE handle

head(index, kind, handle, flags) ==
    [index |-> index, kind |-> kind, handle |-> map_or_0(handle), flags |-> flags]

warning(index, w) ==
    [head |-> head(index, "Warning", w.handle, 0), numbers |-> << >>,
     plain |-> << w.code >>, quoted |-> quote(w.text)]

primitive(index, p) ==
    [head    |-> head(index, p.type, p.handle, IF p.expanded THEN 1 ELSE 0),
     numbers |-> [g \in DOMAIN Printed[p.type] |->
                     LET v == p.fields[Printed[p.type][g]]
                     IN  [i \in DOMAIN v |-> n(v[i])]],
     plain   |-> CASE p.type \in {"Polyline", "Polygon"} ->
                         << Len(p.fields.vertices), p.closed >>
                   [] p.type = "Spline" -> << p.degree, p.flags >>
                   [] OTHER -> << >>,
     quoted  |-> IF p.type = "Text" THEN quote(p.text) ELSE << >>]

\* The records the recording leaves out.
Skipped(r) ==
    \/ r.type \in Framing
    \/ r.type = "Unknown" /\ r.record_type >= FORWARD_PROBE_FIRST

Refused(r) == r.type = "Unknown" /\ r.record_type < FORWARD_PROBE_FIRST

line(index, r) == IF r.type = "Warning" THEN warning(index, r) ELSE primitive(index, r)

-----------------------------------------------------------------------------
(* run() and main() *)

VARIABLES
    view, given, state,     \* the stream: see Delivery
    out,                    \* the lines collected
    index,
    stdout,                 \* what standard output holds
    exit                    \* the exit code, None while the program runs

vars == <<view, given, state, out, index, stdout, exit>>

Stream == INSTANCE Delivery WITH View <- LAMBDA v : v \in Views, out <- given

Init ==
    /\ Stream!Init
    /\ out = << >>
    /\ index = 0
    /\ stdout = << >>
    /\ exit = None

\* The arguments are not a path and a view (64), or there is no decoder, no
\* document or no decode (2).
NeverStarts ==
    /\ exit = None
    /\ given = << >> /\ state = "open"
    /\ exit' \in {2, 64}
    /\ UNCHANGED <<view, given, state, out, index, stdout>>

\* Slip: the number of a line counts the records that were left out, too.
Collect_Counted ==
    /\ exit = None
    /\ Stream!Deliver
    /\ LET r == given'[Len(given')]
       IN  /\ out' = IF Skipped(r) \/ Refused(r) THEN out ELSE Append(out, line(index, r))
           /\ index' = index + 1
           /\ exit' = IF Refused(r) THEN 2 ELSE None
    /\ UNCHANGED stdout

\* The stream answers a record.
Collect ==
    /\ exit = None
    /\ Stream!Deliver
    /\ LET r == given'[Len(given')]
       IN  CASE Skipped(r) -> UNCHANGED <<out, index, exit>>
             [] Refused(r) -> exit' = 2 /\ UNCHANGED <<out, index>>
             [] OTHER      -> /\ out' = Append(out, line(index, r))
                              /\ index' = index + 1
                              /\ UNCHANGED exit
    /\ UNCHANGED stdout

\* The stream answers an error: nothing is written.
Failed ==
    /\ exit = None
    /\ Stream!Cut
    /\ exit' = 2
    /\ UNCHANGED <<out, index, stdout>>

\* The stream answers None.  Writing may fail with a part of it written, and
\* flushing with all of it.
Finished ==
    /\ exit = None
    /\ Stream!Finish
    /\ \E written \in 0 .. Len(out) :
          /\ stdout' = SubSeq(out, 1, written)
          /\ exit' \in IF written = Len(out) THEN {0, 2} ELSE {2}
    /\ UNCHANGED <<out, index>>

Next == NeverStarts \/ Collect \/ Failed \/ Finished

Spec == Init /\ [][Next]_vars

-----------------------------------------------------------------------------
(* Properties *)

\* The primitives and warnings among the first k records of a view.
Recorded(v, k) == {i \in 1 .. k : v[i].type \notin Framing \cup {"Unknown"}}

\* The recording of a view has a line for each of them, numbered from 0; and these
\* lines begin it.
BeginsRecording(lines, v) ==
    \A k \in DOMAIN lines :
        \E i \in Recorded(v, Len(v)) :
            Cardinality(Recorded(v, i)) = k /\ lines[k] = line(k - 1, v[i])

\* "A decode that fails half way prints nothing and exits non-zero rather than
\* leaving a truncated dump": 0 is only answered behind the whole recording of
\* a view every record of which the recording can tell, and only a write that
\* failed leaves a part of one.
WholeOrNothing ==
    /\ BeginsRecording(stdout, view)
    /\ stdout # << >> => state = "whole"
    /\ exit = 0 => /\ Len(stdout) = Cardinality(Recorded(view, Len(view)))
                   /\ \A i \in DOMAIN view : ~Refused(view[i])

\* The line of the i-th of the records that were given.
LineOf(i) == out[Cardinality(Recorded(given, i))]

\* What a reader makes of a quoted text, with None in it when the quotes are not
\* closed by its last character: what it reads at i, and behind it the rest.
HexValue(c) == IF c < 58 THEN c - 48 ELSE c - 87
Coded(c, d) == 16 * HexValue(c) + HexValue(d)
Meaning(c)  == CASE c = 110 -> 10 [] c = 114 -> 13 [] c = 116 -> 9 [] OTHER -> c

At(q, i) == IF i \in DOMAIN q THEN q[i] ELSE 0

ReadAt(q, i, rest) ==
    IF i > Len(q) THEN << None >>
    ELSE IF At(q, i) = 34 THEN IF i = Len(q) THEN << >> ELSE << None >>
    ELSE IF At(q, i) # 92 THEN << At(q, i) >> \o rest[i + 1]
    ELSE IF At(q, i + 1) # 117 THEN << Meaning(At(q, i + 1)) >> \o rest[i + 2]
    ELSE << Coded(At(q, i + 4), At(q, i + 5)) >> \o rest[i + 6]

Unquoted(q) ==
    LET text[i \in 2 .. Len(q) + 6] == ReadAt(q, i, text)
    IN  text[2]

\* One record is one line, and two texts that differ are never printed alike:
\* no character of a text breaks the line or ends the quotes, and the text can
\* be read back from it.
TextsStayWhole ==
    \A i \in Recorded(given, Len(given)) :
        given[i].type \in {"Text", "Warning"} =>
            /\ \A k \in DOMAIN LineOf(i).quoted : LineOf(i).quoted[k] >= 32
            /\ Unquoted(LineOf(i).quoted) = given[i].text

\* The digits of a sequence as one number.
Number(digits) ==
    LET value[i \in 0 .. Len(digits)] ==
            IF i = 0 THEN 0 ELSE 10 * value[i - 1] + digits[i]
    IN  value[Len(digits)]

TenTo(count) == Number(<< 1 >> \o Zeros(count))

\* The number of units of the last decimal nearest to x, half away from zero.
IsUnits(u, x) ==
    LET kept    == x.exp + 1 + Decimals
        dropped == Len(x.digits) - kept
        over    == 2 * (Number(x.digits) - u * TenTo(dropped))
    IN  IF dropped <= 0 THEN u = Number(x.digits) * TenTo(-dropped)
        ELSE -TenTo(dropped) <= over /\ over < TenTo(dropped)

\* What is printed of x is x rounded to its last decimal, with a digit in front of the
\* point and no zero before another, and a sign only when something of it is left.
IsRounded(p, x) ==
    LET units == Number(p.whole \o p.frac)
    IN  /\ IsUnits(units, x)
        /\ Len(p.frac) = Decimals
        /\ Len(p.whole) >= 1
        /\ Len(p.whole) > 1 => p.whole[1] # 0
        /\ p.neg <=> x.neg /\ units # 0

\* Every finite number of a record that was given is printed rounded, on its line and in
\* its place.
NumbersAreRounded ==
    \A i \in Recorded(given, Len(given)) :
        LET l == LineOf(i)
            r == given[i]
        IN  \A g \in DOMAIN l.numbers : \A k \in DOMAIN l.numbers[g] :
                LET x == r.fields[Printed[r.type][g]][k]
                IN  x.class = "finite" => IsRounded(l.numbers[g][k], x)
=============================================================================
