------------------------------ MODULE Judgement ------------------------------
(***************************************************************************)
(* What the verifier promises (verify/README.md, ADR 0008): a witness is   *)
(* verified exactly when it may be judged, its setup and one lap of its    *)
(* loop run without an error, everything that has to recur does, and the   *)
(* lap has the outputs and the net effect that are claimed for it.  Every  *)
(* other witness is rejected, a lap that cannot be run with the status of  *)
(* the step that failed.                                                   *)
(***************************************************************************)
CONSTANTS
  AfterSetup(_),   \* the result of the setup of a witness on its initial state
  AfterLap(_, _),  \* of a witness and the result of its setup: the result of one lap after it
  Admissible(_),   \* may the witness be judged at all?
  IsLoop(_, _, _), \* do the results of its setup and of one lap make the witness a loop?
  Failure(_, _)    \* the status of the step of the two runs that failed, an option

VARIABLES witness, verdict

Init == verdict = "none"
Decide ==
  /\ verdict = "none" /\ verdict' # "none"
  /\ \E b \in {AfterSetup(witness)} : \E a \in {AfterLap(witness, b)} :
       /\ verdict' = "verified" <=> IsLoop(witness, b, a)
       /\ Admissible(witness) => \A err \in Failure(b, a) : verdict' = err
  /\ UNCHANGED witness
Spec == Init /\ [][Decide]_<<witness, verdict>>

=============================================================================
