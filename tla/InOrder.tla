------------------------------ MODULE InOrder ------------------------------
(***************************************************************************)
(* What a caller of runOrderedJobs is promised: the results are handed     *)
(* over one by one in input order, and the call succeeds only after the    *)
(* last.                                                                   *)
(***************************************************************************)
EXTENDS Naturals

CONSTANT N  \* how many jobs there are

VARIABLES
  last,    \* the job whose result was handed over last, 0 before the first
  outcome  \* what the call returned

Init == last = 0 /\ outcome = "none"

Handle ==
  /\ outcome = "none" /\ last < N
  /\ last' = last + 1
  /\ UNCHANGED outcome

Succeed ==
  /\ outcome = "none" /\ last = N
  /\ outcome' = "ok"
  /\ UNCHANGED last

Fail ==
  /\ outcome = "none"
  /\ outcome' = "error"
  /\ UNCHANGED last

Next == Handle \/ Succeed \/ Fail

Spec == Init /\ [][Next]_<<last, outcome>>
============================================================================
