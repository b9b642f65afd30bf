------------------------------- MODULE Lists -------------------------------
(* What of a list is kept when some of it is erased, and what a list says of order. *)
EXTENDS Integers, Sequences, SequencesExt

\* What of s is in S, in its order.
Only(s, S) ==
  LET kept[n \in 0 .. Len(s)] ==
        IF n = 0 THEN <<>> ELSE IF s[n] \in S THEN Append(kept[n - 1], s[n]) ELSE kept[n - 1]
  IN kept[Len(s)]

\* No b comes after what is in A.
Never(s, A, b) == \A n \in DOMAIN s : s[n] = b => \A m \in 1 .. n - 1 : s[m] \notin A
\* Some b comes after an a.
After(s, a, b) == \E n \in DOMAIN s : s[n] = b /\ \E m \in 1 .. n - 1 : s[m] = a
\* Every b comes after an a.
Leads(s, a, b) == \A n \in DOMAIN s : s[n] = b => \E m \in 1 .. n - 1 : s[m] = a
=============================================================================
