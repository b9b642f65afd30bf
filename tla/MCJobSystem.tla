----------------------------- MODULE MCJobSystem -----------------------------
(***************************************************************************)
(* A small pool.  The job import calls outer, whose body calls inner at     *)
(* index 0, while the main thread calls own, waits for them or destroys the *)
(* pool.                                                                    *)
(***************************************************************************)
EXTENDS JobSystemProofs

CONSTANTS outer, inner, own, import

MCCount == [l \in Loops |-> 2]
MCBodyLoop ==
  [l \in Loops |-> [i \in 0 .. Count[l] - 1 |-> IF l = outer /\ i = 0 THEN inner ELSE NoLoop]]

ImportCallsOuter == [j \in Jobs |-> IF j = import THEN outer ELSE NoLoop]
=============================================================================
