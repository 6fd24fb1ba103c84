------------------------------ MODULE MCDecode ------------------------------
(***************************************************************************)
(* Decode for TLC: a view whose records outgrow the first buffer one by    *)
(* one and the ceiling together, the same view from a library that loses   *)
(* records, the same view failing half way, and a view with nothing in it. *)
(* total tells records of kind Other apart.                                *)
(***************************************************************************)
EXTENDS Decode

Rec(length, kind, total) == [length |-> length, kind |-> kind, total |-> total]

MCRecords == << Rec(24, "DocumentBegin", 0), Rec(8, "Other", 1),
                Rec(32, "Warning", 0), Rec(8, "Other", 2),
                Rec(24, "DocumentEnd", 5) >>

MCScripts ==
    { [records |-> MCRecords, ends |-> "OK", lossy |-> lossy] : lossy \in BOOLEAN }
    \cup { [records |-> SubSeq(MCRecords, 1, 4), ends |-> "CORRUPT_INPUT",
            lossy |-> FALSE],
           [records |-> << Rec(24, "DocumentBegin", 0), Rec(24, "DocumentEnd", 2) >>,
            ends |-> "OK", lossy |-> FALSE] }
=============================================================================
