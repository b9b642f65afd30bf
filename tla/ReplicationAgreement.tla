------------------------ MODULE ReplicationAgreement ------------------------
(***************************************************************************)
(* Why the players of a session have the same instances: the invariant the *)
(* proof of SpawnsAgree needs, over what each game has and knows of, and   *)
(* what is still on its way between them.  ReplicationProofs shows that     *)
(* every step keeps it.                                                     *)
(***************************************************************************)
EXTENDS Replication

(* What the games agree on.  Of an instance i the invariant speaks together with the one it is in. *)
Above(i) == Inside[SpawnerOf[i]]
Over(i) == {i, Above(i)} \cap Instances

\* What is on its way to and from a client about i: what it has not handled, then what is on the wire.
About(i) == [kind : {"Spawn", "Despawn"}, instance : Over(i)]
Carries(peer, i) ==
  [kind : {"Replication"}, peer : {peer}, message : About(i), delivery : {"Reliable"}]
MessagesOf(es) == [n \in DOMAIN es |-> es[n].message]
HeardIn(es, peer, i) == MessagesOf(Only(es, Carries(peer, i)))
Heard(g, peer, i) == HeardIn(events[g], peer, i)
Wire(c) == down[c]["Reliable"]
News(c, i) ==
  IF c \in Reached
  THEN (IF Online(c) THEN Heard(c, hostPeer, i) ELSE <<>>) \o Only(Wire(c), About(i))
  ELSE <<>>
Reports(c, i) ==
  IF client[c] # 0 THEN Heard(Host, client[c], i) \o Only(up[c]["Reliable"], About(i)) ELSE <<>>

Hears(i, c, j) == spawnMessage(j) \in ToSet(News(c, i))
HearsGone(i, c, j) == despawnMessage(j) \in ToSet(News(c, i))
Tells(i, c, j) == spawnMessage(j) \in ToSet(Reports(c, i))
TellsGone(i, c, j) == despawnMessage(j) \in ToSet(Reports(c, i))
Silence(i, j) ==
  \A c \in Clients : ~Hears(i, c, j) /\ ~HearsGone(i, c, j) /\ ~Tells(i, c, j) /\ ~TellsGone(i, c, j)

\* What the games of the session have, and know of.
In(g, j) == Online(g) /\ j \in alive[g]
Knows(g, j) == Online(g) /\ j \in known(g)
Alone(g, j) == \A h \in Games \ {g} : ~In(h, j) /\ ~Knows(h, j)
Free(j) == j \in budget["places"]

\* In the frame in which a game placed or destroyed something it will tell of it.
Placing(g, j) == phase[g] = "frame" /\ events[g] = <<>> /\ isAuthority(g, SpawnerOf[j])
Going(g, j) == Knows(g, j) /\ ~In(g, j) /\ phase[g] = "frame" /\ isAuthority(g, SpawnerOf[j])
Leaving(i, c, j) == \E k \in Over(j) : Going(c, k) \/ TellsGone(i, c, k)

\* The host will not have j any more.
Dead(i, j) ==
  /\ ~In(Host, j) /\ ~Free(j)
  /\ \A c \in Clients : (In(c, j) => Knows(c, j)) /\ ~Tells(i, c, j)

\* The host has yet to welcome c; c has been, or is to be told that it decides for something.
Newcomer(c) == [kind |-> "PeerJoined", peer |-> client[c]] \in ToSet(events[Host])
Grants(c) == {AuthorityPacket(e, client[c]) : e \in Owned}
Authorized(c) == Online(c) /\ \E e \in Owned : authority[c][e] = client[c]

\* What was not placed, nor what it is in, is nowhere.
Unplaced(i) ==
  \A j \in Over(i) : \A k \in Over(j) :
    Free(k) => Silence(i, j) /\ \A g \in Games : ~In(g, j) /\ ~Knows(g, j)
\* What was placed in this frame is only there, and so is what is in it.
Placed(i) ==
  \A j \in Over(i), g \in Games : \A k \in Over(j) :
    In(g, k) /\ ~Knows(g, k) => Placing(g, k) /\ Alone(g, j) /\ Silence(i, j)
\* What the host is yet to hear of is only where it was placed, and so is what is in it; nothing is
\* told of that before it is of what it is in.
Reported(i) ==
  \A k \in Over(i), c \in Clients : Tells(i, c, k) =>
    /\ \A j \in Over(i) : k \in Over(j) =>
         /\ Alone(c, j)
         /\ Never(Reports(c, i), {spawnMessage(j), despawnMessage(j)}, spawnMessage(k))
         /\ \A d \in Clients : /\ ~Hears(i, d, j) /\ ~HearsGone(i, d, j)
                               /\ d # c => ~Tells(i, d, j) /\ ~TellsGone(i, d, j)
    /\ Online(c) => \/ In(c, k) \/ Leaving(i, c, k)
                    \/ \E l \in Over(k) \ {k} : Dead(i, l)
\* Where something is, what it is in is.
Nested(i) ==
  \A j \in Over(i), g \in Games : In(g, j) =>
    \A k \in Over(j) : In(g, k) /\ (Knows(g, j) => Knows(g, k))
\* What is gone for the host is gone, and no client hears that it appeared after it heard that.
GoneIsDead(i) == \A j \in Over(i), c \in Clients : HearsGone(i, c, j) => Dead(i, j)
GoneIsLast(i) ==
  \A j \in Over(i), c \in Clients : \A k \in Over(j) :
    Never(News(c, i), {despawnMessage(k)}, spawnMessage(j))
\* A client has, or hears first of what something is in.
OuterFirst(i) ==
  \A j \in Over(i), c \in Clients : \A k \in Over(j) \ {j} :
    ~Newcomer(c) /\ In(Host, j) /\ Hears(i, c, j) =>
      \/ Knows(c, k) \/ TellsGone(i, c, k)
      \/ After(News(c, i), spawnMessage(k), spawnMessage(j))
\* What a client lost it does not hear of again, and it tells of it, or heard of it.
Missing(i) ==
  \A j \in Over(i), c \in Clients : Knows(c, j) /\ ~In(c, j) =>
    ~Hears(i, c, j) /\ (Leaving(i, c, j) \/ \E k \in Over(j) : Dead(i, k))
Retracted(i) ==
  \A j \in Over(i), c \in Clients : Online(c) /\ TellsGone(i, c, j) =>
    ~In(c, j) /\ ~Knows(c, j) /\ ~Hears(i, c, j)
\* A client hears of something once, or before it decides for anything.
HearsOnce(i, c, j) ==
  Never(News(c, i), {spawnMessage(j)}, spawnMessage(j)) /\ (Hears(i, c, j) => ~Knows(c, j))
HearsEarly(c, j) ==
  Never(Wire(c), Grants(c), spawnMessage(j)) /\ (Authorized(c) => spawnMessage(j) \notin ToSet(Wire(c)))
HeardOnce(i) ==
  \A j \in Over(i), c \in Clients : c \in Reached => HearsOnce(i, c, j) \/ HearsEarly(c, j)
\* The host tells newcomers of things after what they are in.
HostOrder(i) ==
  \A j \in Over(i) : \A k \in Over(j) \ {j} : In(Host, j) => Leads(spawned[Host], k, j)
\* Clients have what the host has, or will.
ClientsFollow(i) ==
  \A j \in Over(i), c \in Clients : c \in Reached /\ ~Newcomer(c) /\ In(Host, j) /\ Knows(Host, j) =>
    Hears(i, c, j) \/ In(c, j) \/ Leaving(i, c, j)
\* The host has what clients have, or will.
HostFollows(i) ==
  \A j \in Over(i), c \in Clients :
    In(c, j) \/ (Hears(i, c, j) /\ \A k \in Over(j) \ {j} : Newcomer(c) \/ In(c, k) \/ Hears(i, c, k)) =>
      \/ In(Host, j) \/ (In(c, j) /\ ~Knows(c, j)) \/ Tells(i, c, j)
      \/ \E k \in Over(j) : HearsGone(i, c, k) \/ Going(Host, k)

Agreed(i) ==
  /\ Unplaced(i) /\ Placed(i) /\ Reported(i) /\ Nested(i) /\ GoneIsDead(i) /\ GoneIsLast(i)
  /\ OuterFirst(i) /\ Missing(i) /\ Retracted(i) /\ HeardOnce(i) /\ HostOrder(i)
  /\ ClientsFollow(i) /\ HostFollows(i)

\* Who is in the session.
Joining(c) == linked[c] /\ ~Online(c)
Membership(c) ==
  /\ client[c] # hostPeer /\ client[c] < nextPeer
  /\ \A d \in Clients \ {c} : client[c] = client[d] => client[c] = 0
  /\ Online(c) => linked[c] /\ number[c] = client[c]
  /\ linked[c] => client[c] # 0
  /\ Joining(c) => /\ ~wasClient[c] /\ Wire(c) # <<>>
                   /\ Head(Wire(c)) = [kind |-> "Welcome", number |-> client[c]]
                   /\ \A p \in ToSet(Tail(Wire(c))) : p.kind # "Welcome"
  /\ Online(c) => \A p \in ToSet(Wire(c)) : p.kind # "Welcome"
  /\ ~Online(c) => authority[c] = NoAuthority
  /\ ~Online(c) /\ ~wasClient[c] => known(c) \subseteq strays[c]
Unread(c) ==
  \A i \in Instances : ~Online(c) /\ ~wasClient[c] /\ phase[c] = "poll" => Heard(c, hostPeer, i) = <<>>
\* A newcomer decides for nothing yet, and has said nothing.
Fresh(c) ==
  c \in Reached =>
    /\ Newcomer(c) => ~Authorized(c) /\ ToSet(Wire(c)) \cap Grants(c) = {}
    /\ Newcomer(c) \/ ~Online(c) => \A i \in Instances : Reports(c, i) = <<>>
\* Only values go unreliably; clients hear from the host, and it from those who joined.
Tidings == [kind : {"Spawn", "Despawn"}, instance : Instances]
OnlyValues(packets) == \A p \in ToSet(packets) : p.kind = "Values"
Delivered(c) ==
  /\ OnlyValues(down[c]["Unreliable"]) /\ OnlyValues(up[c]["Unreliable"])
  /\ \A ev \in ToSet(events[c]) :
       ev.kind = "Replication" /\ ev.peer = hostPeer /\ (ev.message \in Tidings => ev.delivery = "Reliable")
HostSession ==
  /\ number[Host] = hostPeer /\ nextPeer > hostPeer
  /\ \A e \in Owned : authority[Host][e] \in {hostPeer} \cup {client[c] : c \in Peers}
  /\ \A ev \in ToSet(events[Host]) :
       /\ ev.peer > hostPeer /\ ev.peer < nextPeer
       /\ ev.kind = "Replication" /\ ev.message \in Tidings => ev.delivery = "Reliable"

SessionInv ==
  HostSession /\ \A c \in Clients : Membership(c) /\ Unread(c) /\ Fresh(c) /\ Delivered(c)

Clear == Instances \ Disputed
AgreeInv == SessionInv /\ \A i \in Clear : Agreed(i)
=============================================================================
