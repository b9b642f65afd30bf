--------------------------- MODULE CommandHistory ---------------------------
(***************************************************************************)
(* The undo and redo stacks of one document (CommandHistory.cpp).  A scene  *)
(* is known by a number, equal for equal scenes.  A command is the pair of  *)
(* scenes it goes between: apply makes `to` of `from`, and revert makes     *)
(* `from` of `to`, as every Command does to the scene it was recorded on.   *)
(***************************************************************************)
EXTENDS Naturals, Sequences, SequencesExt

CONSTANT Capacity  \* how many commands a history remembers (m_capacity)

ASSUME CapacityAssumption == Capacity \in Nat \ {0}

Entries == [from : Nat, to : Nat, state : Nat]

Histories == [done : Seq(Entries), undone : Seq(Entries), baseState : Nat, lastState : Nat]

NewHistory == [done |-> <<>>, undone |-> <<>>, baseState |-> 0, lastState |-> 0]

stateId(h) == IF h.done = <<>> THEN h.baseState ELSE Last(h.done).state

\* mutant: a command is numbered by its place in the stack
recordApplied_Reused(h, from, to) ==
  LET entry == [from |-> from, to |-> to, state |-> Len(h.done) + 1]
      done == Append(h.done, entry)
  IN  [h EXCEPT !.undone = <<>>, !.lastState = @ + 1,
         !.done = IF Len(done) > Capacity THEN Tail(done) ELSE done,
         !.baseState = IF Len(done) > Capacity THEN Head(done).state ELSE @]

\* The redo stack goes, the state reached is new, and the oldest command makes place: the state
\* before the stack becomes the one it led to.
recordApplied(h, from, to) ==
  LET entry == [from |-> from, to |-> to, state |-> h.lastState + 1]
      done == Append(h.done, entry)
  IN  [h EXCEPT !.undone = <<>>, !.lastState = @ + 1,
         !.done = IF Len(done) > Capacity THEN Tail(done) ELSE done,
         !.baseState = IF Len(done) > Capacity THEN Head(done).state ELSE @]

canUndo(h) == h.done # <<>>

canRedo(h) == h.undone # <<>>

undo(h) == [h EXCEPT !.done = Front(@), !.undone = Append(@, Last(h.done))]

redo(h) == [h EXCEPT !.undone = Front(@), !.done = Append(@, Last(h.undone))]

\* Forgets every command; the state that follows is new.
clear(h) == [h EXCEPT !.done = <<>>, !.undone = <<>>, !.lastState = @ + 1, !.baseState = h.lastState + 1]
=============================================================================
