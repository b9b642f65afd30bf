----------------------------- MODULE MCDocuments -----------------------------
(* The constants of the runs over Documents. *)
EXTENDS Documents

CONSTANTS p1, p2

\* Several tabs and histories that forget, without copies; copies of scenes that change; copies
\* through a crash; and copies through two crashes with an index that cannot always be written.
MCLimits ==
  {[copying |-> FALSE, failing |-> FALSE, edits |-> 2, tabs |-> 3, crashes |-> 0],
   [copying |-> FALSE, failing |-> FALSE, edits |-> 3, tabs |-> 2, crashes |-> 0],
   [copying |-> TRUE, failing |-> FALSE, edits |-> 2, tabs |-> 2, crashes |-> 0],
   [copying |-> TRUE, failing |-> FALSE, edits |-> 2, tabs |-> 1, crashes |-> 1],
   [copying |-> TRUE, failing |-> TRUE, edits |-> 1, tabs |-> 2, crashes |-> 2]}

MCSymmetry == Permutations(Paths)
=============================================================================
