---------------------------- MODULE FusedIterator ----------------------------
(***************************************************************************)
(* What an iterator of fallible items promises its caller, and what        *)
(* PrimitiveStream declares by implementing Iterator<Item = Result<Item>>  *)
(* and FusedIterator: every call is answered, by an item, by an error or   *)
(* by None; after the first error and after the first None every answer is *)
(* None.                                                                   *)
(***************************************************************************)
VARIABLES asked,    \* a call of next() is outstanding
          life,     \* "open", "failed" once an error has been answered, "ended"
                    \* once None has been answered without one
          last      \* the kind of the last answer

vars == <<asked, life, last>>

Init ==
    /\ asked = FALSE
    /\ life = "open"
    /\ last = "not yet"

Ask == ~asked /\ asked' = TRUE /\ UNCHANGED <<life, last>>

Answer(kind) == asked /\ asked' = FALSE /\ last' = kind

Yield == life = "open" /\ Answer("item") /\ UNCHANGED life
Fail  == life = "open" /\ Answer("error") /\ life' = "failed"
End   == life = "open" /\ Answer("none") /\ life' = "ended"
Over  == life # "open" /\ Answer("none") /\ UNCHANGED life

Respond == Yield \/ Fail \/ End \/ Over

Next == Ask \/ Respond

Safety == Init /\ [][Next]_vars

Spec == Safety /\ WF_vars(Respond)
=============================================================================
