----------------------------- MODULE AnyLibrary -----------------------------
(***************************************************************************)
(* The stream of Stream against a library that answers whatever the C      *)
(* signature of viprs_acad_decode_next_batch lets it answer, as the        *)
(* scripted sources of the tests in src/src/stream.rs do.                  *)
(***************************************************************************)
EXTENDS Stream

CONSTANT Answers        \* what a call may come back with

ASSUME AnswersAssumption == \A a \in Answers : IsAnswer(a)

LibraryAnswers == \E a \in Answers : Receive(a)

Next == Call \/ NextItem \/ LibraryAnswers

\* The stream runs on the thread that called next(), and a call of the library
\* returns.  Nothing obliges the caller to call next() again.
Fairness == WF_streamVars(NextItem) /\ WF_streamVars(LibraryAnswers)

Spec == Init /\ [][Next]_streamVars /\ Fairness
=============================================================================
