----------------------------- MODULE MCHandles -----------------------------
(***************************************************************************)
(* Handles for TLC: two threads, a document for each or both for one, two  *)
(* decodes, one flag and two tokens of it.                                 *)
(***************************************************************************)
EXTENDS Handles, TLC

CONSTANTS t1, t2, d1, d2, s1, s2, f1, k1, k2

MCThreads   == {t1, t2}
MCDocuments == {d1, d2}
MCDecodes   == {s1, s2}
MCFlags     == {f1}
MCTokens    == {k1, k2}

\* Threads, handles and tokens are told apart by nothing but their names.
Symmetry == Permutations(MCThreads) \cup Permutations(MCDocuments)
            \cup Permutations(MCDecodes) \cup Permutations(MCTokens)
=============================================================================
