------------------------------- MODULE MCDump -------------------------------
(***************************************************************************)
(* Dump for TLC, with three significant digits and two decimals: every     *)
(* view of up to three records of each way a record can go, a text of up   *)
(* to three characters of each way a character can go (and of the letters  *)
(* the escapes are made of), and every number of three digits from where   *)
(* nothing of it is printed to where zeros follow it.                      *)
(***************************************************************************)
EXTENDS Dump

Finite(neg, digits, exp) ==
    [class |-> "finite", neg |-> neg, digits |-> digits, exp |-> exp]

Primitive(type, fields) ==
    [type |-> type, handle |-> 7, expanded |-> TRUE, fields |-> fields]
Circle(x) == Primitive("Circle", [centre |-> << >>, radius |-> << x >>, normal |-> << >>])
Text(text) ==
    [type |-> "Text", handle |-> None, expanded |-> FALSE, text |-> text,
     fields |-> [position |-> << >>, height |-> << >>, rotation |-> << >>]]
Polyline ==
    [type |-> "Polyline", handle |-> None, expanded |-> FALSE, closed |-> 1,
     fields |-> [vertices |-> << Finite(TRUE, << 9, 9, 6 >>, 0),
                                 [class |-> "zero", neg |-> TRUE],
                                 Finite(FALSE, << 9, 9, 6 >>, -1) >>,
                 bulges |-> << >>, normal |-> << >>]]
Warning(text) == [type |-> "Warning", handle |-> None, code |-> 101, text |-> text]
Unknown(t) == [type |-> "Unknown", record_type |-> t]

\* The powers of ten of Dump are those of Integers.
ASSUME \A count \in 0 .. 8 : TenTo(count) = 10 ^ count

UpTo(set, len) == UNION {[1 .. k -> set] : k \in 0 .. len}

MCViews ==
    UpTo({[type |-> "DocumentBegin"], Unknown(31), Unknown(32), Warning(<< 10 >>),
          Polyline, Text(<< 34 >>)}, 3)
    \cup {<< Text(t) >> : t \in UpTo({34, 92, 10, 13, 9, 1, 31, 110, 117, 48}, 3)}
    \cup {<< Circle(Finite(neg, << a, b, c >>, exp)) >> :
              neg \in BOOLEAN, a \in 1 .. 9, b \in 0 .. 9, c \in 0 .. 9, exp \in -5 .. 4}
    \cup {<< Circle([class |-> class, neg |-> neg]) >> :
              class \in {"NaN", "infinite", "zero"}, neg \in BOOLEAN}
=============================================================================
