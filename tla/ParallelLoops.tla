---------------------------- MODULE ParallelLoops ----------------------------
(***************************************************************************)
(* What JobSystem::parallelFor promises its callers (JobSystem.hpp): a loop *)
(* calls body(index) once for every index, and returns once every call has  *)
(* returned.  Nothing is said of the threads that call it.                  *)
(***************************************************************************)
EXTENDS Naturals

CONSTANTS
  Loops,  \* the calls of parallelFor
  Count   \* how many indices each has

Indices(l) == 0 .. Count[l] - 1

VARIABLES
  call,   \* of each loop: uncalled, called or returned
  visit   \* of each loop and index: waiting, running or done

vars == <<call, visit>>

Init ==
  /\ call = [l \in Loops |-> "uncalled"]
  /\ visit = [l \in Loops |-> [i \in Indices(l) |-> "waiting"]]

Call(l) ==
  /\ call[l] = "uncalled"
  /\ call' = [call EXCEPT ![l] = "called"]
  /\ UNCHANGED visit

Begin(l, i) ==
  /\ call[l] = "called" /\ visit[l][i] = "waiting"
  /\ visit' = [visit EXCEPT ![l][i] = "running"]
  /\ UNCHANGED call

End(l, i) ==
  /\ visit[l][i] = "running"
  /\ visit' = [visit EXCEPT ![l][i] = "done"]
  /\ UNCHANGED call

Return(l) ==
  /\ call[l] = "called" /\ \A i \in Indices(l) : visit[l][i] = "done"
  /\ call' = [call EXCEPT ![l] = "returned"]
  /\ UNCHANGED visit

Next == \E l \in Loops : Call(l) \/ Return(l) \/ \E i \in Indices(l) : Begin(l, i) \/ End(l, i)

Spec == Init /\ [][Next]_vars
=============================================================================
