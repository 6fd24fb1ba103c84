----------------------------- MODULE MCSession -----------------------------
(***************************************************************************)
(* Session for TLC: a library that fits the header, one for each number    *)
(* that may differ, and both; sizes on both sides of the header and of the *)
(* defaults; a depth that fits its field, one that does not, and one that  *)
(* would be cut to a zero.                                                 *)
(***************************************************************************)
EXTENDS Session

MCBounds    == {"max_entities", "max_block_depth"}
MCSizes     == {0, 20, 50}
MCLimitsOf  == {[b \in MCBounds |-> IF b = "max_block_depth" THEN depth ELSE entities] :
                   depth \in {None, 0, 255, 256, 260}, entities \in {None, 300}}
MCLibraries == [version : {2, 3}, fingerprint : {7, 8}]
MCFields    == {"x", "y"}
MCLengths   == {0, 1, 2, 1001}
MCIndices   == {0, 2}
MCCounts    == {0, 1, 2}
=============================================================================
