------------------------------ MODULE MCSession ------------------------------
(* Small instances of Session for TLC. *)
EXTENDS Session, TLC

\* Players are alike, and so are entities.
Alike == Permutations(Players) \cup Permutations(Entities)

\* Of the events, only those the host's code may answer decide what happens next, and no invariant
\* of the run that uses this view tells two events of one kind apart: two states are one when they
\* differ only in the other events.
Newcomers == {event.peer : event \in {x \in Range(events[Host]) : x.kind = "PeerJoined"}}
WithoutEvents ==
  <<state, phase, local, peers, authorities, Newcomers, loopback, server,
    clientId, answered, nextPeer, down, up, spent>>

\* The run of the liveness: games are paused before the second attempt to join, but not from then on.
\* Where this bars keepAlive, poll is enabled, and no other action that must happen is barred.
PausesAlone == spent'.links <= 1 \/ \A g \in Games : phase'[g] \in {"code", "polling"}

\* From then on nothing keeps an event the code has not read beyond its frame, and two states are one
\* as above.
LiveView == <<WithoutEvents, IF spent.links <= 1 THEN events ELSE <<>>>>
=============================================================================
