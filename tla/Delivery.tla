------------------------------ MODULE Delivery ------------------------------
(***************************************************************************)
(* What a decode promises the caller that drains it: the records of the    *)
(* view, in their order and each of them once, and then either None, only  *)
(* behind the whole of them, or an error that says the rest is missing.    *)
(***************************************************************************)
EXTENDS Naturals, Sequences

CONSTANT View(_)    \* View(s) says that s is what some view decodes to

VARIABLES view,     \* the records of the view
          out,      \* the records the caller has been given
          state     \* "open", "whole" or "cut"

vars == <<view, out, state>>

Init ==
    /\ View(view)
    /\ out = << >>
    /\ state = "open"

Deliver ==
    /\ state = "open"
    /\ Len(out) < Len(view)
    /\ out' = Append(out, view[Len(out) + 1])
    /\ UNCHANGED <<view, state>>

Finish ==
    /\ state = "open"
    /\ out = view
    /\ state' = "whole"
    /\ UNCHANGED <<view, out>>

Cut ==
    /\ state = "open"
    /\ state' = "cut"
    /\ UNCHANGED <<view, out>>

Next == Deliver \/ Finish \/ Cut

Safety == Init /\ [][Next]_vars

Spec == Safety /\ WF_vars(Next)
=============================================================================
