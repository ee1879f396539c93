---------------------------- MODULE MCSolveMarks ----------------------------
(* A small instance of SolveMarks for TLC.                                 *)
EXTENDS SolveMarks

\* While a nested solve runs, no stack has more than one frame above its
\* sentinel and the pool holds at most one cell; without one, the limits are
\* those of the constants.
Bounded ==
  callers # << >> =>
    /\ Len(stack) <= 2 /\ term_offset <= 1
    /\ \A k \in DOMAIN callers : Len(callers[k].stack) <= 2
=============================================================================
