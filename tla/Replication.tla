----------------------------- MODULE Replication -----------------------------
(***************************************************************************)
(* runtime::NetworkReplication: what keeps the scenes of a session alike.   *)
(* Whoever decides for an entity sends its values, and whoever decides for  *)
(* a spawner tells of the instances placed under it; the host checks what   *)
(* clients send, passes it on, and tells newcomers what there is.           *)
(*                                                                          *)
(* The session is the one of module Session, reduced to what the            *)
(* replication sees of it: what is reliable arrives in order, what is not   *)
(* may be lost, or come late with respect to the rest.  In a frame a game   *)
(* polls, handles what came (receive()), runs its code and sends.  A value  *)
(* names the write that made it: 0 is that of the prefab, 1 the first.      *)
(***************************************************************************)
EXTENDS Lists, FiniteSets

CONSTANTS
  Host, Clients,   \* the games
  Synced,          \* the entities with a NetworkSync
  Spawners,        \* the entities with a NetworkSpawner
  Instances,       \* what games place under them, each at most once
  SpawnerOf,       \* the spawner each instance is placed under
  Inside,          \* the instance an entity is part of, or Root
  Root,
  MaxLate,         \* bounds the unreliable packets on their way to or from a client,
  MaxLag,          \* the reliable ones before the game that sends them goes on,
  MaxPolled,       \* and the events a game finds in one poll
  Budgets          \* what a behaviour may do, each thing once, one record per scenario

Games == Clients \cup {Host}
Owned == Synced \cup Spawners
hostPeer == 1

\* How often a client joins, leaves or is written to, what is given away, placed and destroyed.
Budget == [joins : Nat, leaves : Nat, writes : Nat,
           grants : SUBSET Owned, places : SUBSET Instances, destroys : SUBSET Instances]

\* A scene has finitely many entities; one level of instances inside instances.
ASSUME ReplicationAssumption ==
  /\ IsFiniteSet(Owned) /\ IsFiniteSet(Instances)
  /\ Host \notin Clients /\ Synced \cap Spawners = {} /\ Root \notin Instances
  /\ SpawnerOf \in [Instances -> Spawners] /\ Inside \in [Owned -> Instances \cup {Root}]
  /\ \A s \in Spawners : Inside[s] # Root => Inside[SpawnerOf[Inside[s]]] = Root
  /\ {MaxLate, MaxLag, MaxPolled} \subseteq Nat /\ Budgets \subseteq Budget

VARIABLES
  number,     \* the number of each game, 0 outside the session
  linked,     \* of each client: it has a connection to the host
  client,     \* the number the host knows each client by, 0 when it is none
  nextPeer,   \* the number the host gives next
  authority,  \* who decides for each entity, according to each game
  phase,      \* of each game: it may poll, or is past that in its frame
  events,     \* what poll() left each game to handle
  down, up,   \* per client and delivery, the packets on their way from and to the host
  value,      \* what each game shows of each synchronized entity
  tracked,    \* what each game keeps of it
  alive,      \* the instances in the scene of each game
  spawned,    \* those each game keeps, in the order they appeared
  wasClient,  \* of each client: it has not yet put away the session it was in
  untold,     \* history: what the host refused to hear of, or gave away before telling of it
  strays,     \* history: of each client, what it placed after its session ended
  budget      \* what the behaviour may still do

wires == <<down, up>>
session == <<number, linked, client, nextPeer, authority>>
scenes == <<value, tracked, alive, spawned>>
history == <<untold, strays>>
vars == <<session, phase, events, wires, scenes, wasClient, history, budget>>

Deliveries == {"Reliable", "Unreliable"}
NoPeer == 0
Unsent == -1

\* took is history: who decided the values last taken.
Tracked == [sent : Int, settled : BOOLEAN, sequence : Nat,
            lastSequence : Nat, lastAuthority : Nat, took : Nat]
Untracked == [sent |-> Unsent, settled |-> TRUE, sequence |-> 0,
              lastSequence |-> 0, lastAuthority |-> NoPeer, took |-> NoPeer]

Messages ==
  [kind : {"Spawn", "Despawn"}, instance : Instances]
    \cup [kind : {"Values"}, entity : Synced, sequence : Nat, value : Nat, by : Nat]
Packets ==
  Messages \cup [kind : {"Welcome"}, number : Nat]
    \cup [kind : {"Authority"}, entity : Owned, peer : Nat] \cup [kind : {"PeerLeft"}, peer : Nat]
Events ==
  [kind : {"PeerJoined"}, peer : Nat]
    \cup [kind : {"Replication"}, peer : Nat, message : Messages, delivery : Deliveries]

\* Every variable has its type, and every packet and event is one the code builds.
TypeOK ==
  /\ number \in [Games -> Nat] /\ client \in [Clients -> Nat] /\ nextPeer \in Nat
  /\ linked \in [Clients -> BOOLEAN] /\ wasClient \in [Clients -> BOOLEAN]
  /\ authority \in [Games -> [Owned -> Nat]]
  /\ phase \in [Games -> {"poll", "frame"}]
  /\ events \in [Games -> Seq(Events)]
  /\ down \in [Clients -> [Deliveries -> Seq(Packets)]]
  /\ up \in [Clients -> [Deliveries -> Seq(Messages)]]
  /\ value \in [Games -> [Synced -> Nat]]
  /\ tracked \in [Games -> [Synced -> Tracked]]
  /\ alive \in [Games -> SUBSET Instances]
  /\ spawned \in [Games -> Seq(Instances)]
  /\ untold \in SUBSET Instances /\ strays \in [Clients -> SUBSET Instances]
  /\ budget \in Budget

Silent == [d \in Deliveries |-> <<>>]
NoAuthority == [e \in Owned |-> hostPeer]

Init ==
  /\ number = [g \in Games |-> IF g = Host THEN hostPeer ELSE 0]
  /\ linked = [c \in Clients |-> FALSE]
  /\ client = [c \in Clients |-> 0] /\ nextPeer = 2
  /\ authority = [g \in Games |-> NoAuthority]
  /\ phase = [g \in Games |-> "poll"] /\ events = [g \in Games |-> <<>>]
  /\ down = [c \in Clients |-> Silent] /\ up = [c \in Clients |-> Silent]
  /\ value = [g \in Games |-> [e \in Synced |-> 0]]
  /\ tracked = [g \in Games |-> [e \in Synced |-> Untracked]]
  /\ alive = [g \in Games |-> {}] /\ spawned = [g \in Games |-> <<>>]
  /\ wasClient = [c \in Clients |-> FALSE]
  /\ untold = {} /\ strays = [c \in Clients |-> {}]
  /\ budget \in Budgets

-----------------------------------------------------------------------------
Online(g) == number[g] # 0
isAuthority(g, e) == ~Online(g) \/ authority[g][e] = number[g]
known(g) == ToSet(spawned[g])
Exists(g, e) == Inside[e] = Root \/ Inside[e] \in alive[g]
Below(i) == {j \in Instances : Inside[SpawnerOf[j]] = i}
ExistingSynced(g) == {e \in Synced : Exists(g, e)}

Spends(deed) == budget[deed] > 0 /\ budget' = [budget EXCEPT ![deed] = @ - 1]
Uses(deed, what) == what \in budget[deed] /\ budget' = [budget EXCEPT ![deed] = @ \ {what}]

\* The host's connections that carry what it sends: it may not know yet that a client is gone.
Peers == {c \in Clients : client[c] # 0}
Reached == {c \in Peers : linked[c]}

\* A wire with more packets.  Of those that are unreliable it holds MaxLate, losing the oldest, and
\* any may be lost as it is sent.
Latest(packets) == SubSeq(packets, IF Len(packets) > MaxLate THEN Len(packets) - MaxLate + 1 ELSE 1, Len(packets))
With(wire, reliable, unreliable, carried) ==
  [wire EXCEPT !["Reliable"] = @ \o reliable,
               !["Unreliable"] = IF carried THEN Latest(@ \o unreliable) ELSE @]

\* The host sends to the clients of `to`; `lost` are those whose unreliable packets are.
ToClients(to, reliable, unreliable, lost) ==
  down' = [c \in Clients |-> IF c \in to \cap Reached
                             THEN With(down[c], reliable, unreliable, c \notin lost) ELSE down[c]]

KeptUp(g) == \A c \in Clients : Len((IF g = Host THEN down ELSE up)[c]["Reliable"]) <= MaxLag

\* sendReplication(everyone) of game g.
SendsEveryone(g, reliable, unreliable, lost) ==
  IF g = Host
  THEN ToClients(Clients, reliable, unreliable, lost) /\ UNCHANGED up
  ELSE /\ up' = IF Online(g) THEN [up EXCEPT ![g] = With(@, reliable, unreliable, g \notin lost)] ELSE up
       /\ UNCHANGED down

-----------------------------------------------------------------------------
(* The session: what a poll finds.                                          *)
Polls(g) ==
  /\ phase[g] = "poll" /\ Len(events[g]) < MaxPolled /\ KeptUp(g)
  /\ UNCHANGED <<phase, scenes, history>>

GivesBack(who, peer) == [e \in Owned |-> IF who[e] = peer THEN hostPeer ELSE who[e]]
AuthorityPacket(e, p) == [kind |-> "Authority", entity |-> e, peer |-> p]
Decided == SetToSeq({AuthorityPacket(e, authority[Host][e]) :
                      e \in {o \in Owned : authority[Host][o] # hostPeer}})

clientConnected(c) ==
  /\ Polls(Host) /\ Spends("joins")
  /\ ~linked[c] /\ client[c] = 0 /\ ~wasClient[c]
  /\ linked' = [linked EXCEPT ![c] = TRUE]
  /\ client' = [client EXCEPT ![c] = nextPeer] /\ nextPeer' = nextPeer + 1
  /\ down' = [down EXCEPT ![c] =
       [Silent EXCEPT !["Reliable"] = <<[kind |-> "Welcome", number |-> nextPeer]>> \o Decided]]
  /\ up' = [up EXCEPT ![c] = Silent]
  /\ events' = [events EXCEPT ![Host] = Append(@, [kind |-> "PeerJoined", peer |-> nextPeer])]
  /\ UNCHANGED <<number, authority, wasClient>>

\* The host hears that a connection is gone; what was still on it is not read.
clientLeft(c) ==
  /\ Polls(Host) /\ client[c] # 0 /\ ~linked[c]
  /\ client' = [client EXCEPT ![c] = 0]
  /\ authority' = [authority EXCEPT ![Host] = GivesBack(@, client[c])]
  /\ ToClients(Clients, <<[kind |-> "PeerLeft", peer |-> client[c]]>>, <<>>, {})
  /\ up' = [up EXCEPT ![c] = Silent]
  /\ UNCHANGED <<number, linked, nextPeer, events, wasClient, budget>>

relay(c, d) ==
  /\ Polls(Host) /\ client[c] # 0 /\ up[c][d] # <<>>
  /\ events' = [events EXCEPT ![Host] = Append(@,
       [kind |-> "Replication", peer |-> client[c], message |-> Head(up[c][d]), delivery |-> d])]
  /\ up' = [up EXCEPT ![c][d] = Tail(@)]
  /\ UNCHANGED <<session, down, wasClient, budget>>

received(c, d) ==
  /\ Polls(c) /\ linked[c] /\ down[c][d] # <<>>
  /\ down' = [down EXCEPT ![c][d] = Tail(@)]
  /\ LET packet == Head(down[c][d])
     IN CASE packet.kind = "Welcome" ->
               /\ number' = [number EXCEPT ![c] = packet.number]
               /\ authority' = [authority EXCEPT ![c] = NoAuthority]
               /\ wasClient' = [wasClient EXCEPT ![c] = TRUE]
               /\ UNCHANGED events
          [] packet.kind = "Authority" ->
               /\ authority' = [authority EXCEPT ![c][packet.entity] = packet.peer]
               /\ UNCHANGED <<number, wasClient, events>>
          [] packet.kind = "PeerLeft" ->
               /\ authority' = [authority EXCEPT ![c] = GivesBack(@, packet.peer)]
               /\ UNCHANGED <<number, wasClient, events>>
          [] OTHER ->
               /\ events' = [events EXCEPT ![c] = Append(@,
                    [kind |-> "Replication", peer |-> hostPeer, message |-> packet, delivery |-> d])]
               /\ UNCHANGED <<number, authority, wasClient>>
  /\ UNCHANGED <<linked, client, nextPeer, up, budget>>

\* close() of a client, whether its code leaves or its poll finds the connection gone.
Closes(c) ==
  /\ Online(c) /\ Spends("leaves")
  /\ number' = [number EXCEPT ![c] = 0] /\ linked' = [linked EXCEPT ![c] = FALSE]
  /\ authority' = [authority EXCEPT ![c] = NoAuthority]
  /\ down' = [down EXCEPT ![c] = Silent]
  /\ UNCHANGED <<client, nextPeer, up, events, wasClient>>

disconnected(c) == Polls(c) /\ Closes(c)

-----------------------------------------------------------------------------
(* receive().                                                               *)
Left(g) == g # Host /\ wasClient[g] /\ ~Online(g)

\* mutant: what appeared during the session is forgotten, not destroyed
leftSession_Forgets(c) ==
  /\ phase[c] = "poll" /\ Left(c)
  /\ wasClient' = [wasClient EXCEPT ![c] = FALSE]
  /\ spawned' = [spawned EXCEPT ![c] = <<>>]
  /\ phase' = [phase EXCEPT ![c] = "frame"]
  /\ UNCHANGED <<session, events, wires, value, alive, tracked, history, budget>>

\* It begins by putting away the session that ended, before the events of the same poll.
leftSession(c) ==
  /\ phase[c] = "poll" /\ Left(c)
  /\ wasClient' = [wasClient EXCEPT ![c] = FALSE]
  /\ alive' = [alive EXCEPT ![c] =
       {i \in @ : i \notin known(c) /\ \A j \in known(c) : i \notin Below(j)}]
  /\ spawned' = [spawned EXCEPT ![c] = <<>>]
  /\ tracked' = [tracked EXCEPT ![c] =
       [e \in Synced |-> [Untracked EXCEPT !.sequence = tracked[c][e].sequence]]]
  /\ phase' = [phase EXCEPT ![c] = "frame"]
  /\ UNCHANGED <<session, events, wires, value, history, budget>>

\* An event g handles next.
Handles(g, kind) ==
  /\ KeptUp(g) /\ events[g] # <<>> /\ (phase[g] = "poll" => ~Left(g))
  /\ Head(events[g]).kind = kind
  /\ events' = [events EXCEPT ![g] = Tail(@)]
  /\ phase' = [phase EXCEPT ![g] = "frame"]
  /\ UNCHANGED <<session, wasClient, budget>>

mayDecide(g, event, e) == g = Host => event.peer = authority[Host][e]

\* mutant: an event is passed on as it was received, with who it came from
passOn_Event(g, event, lost) ==
  IF g = Host
  THEN ToClients({c \in Clients : client[c] # event.peer}, <<event>>, <<>>, lost) /\ UNCHANGED up
  ELSE UNCHANGED wires

passOn(g, event, lost) ==
  LET Of(delivery) == IF event.delivery = delivery THEN <<event.message>> ELSE <<>>
  IN IF g = Host
     THEN /\ ToClients({c \in Clients : client[c] # event.peer}, Of("Reliable"), Of("Unreliable"), lost)
          /\ UNCHANGED up
     ELSE UNCHANGED wires

Forgets(g, i) ==
  /\ spawned' = [spawned EXCEPT ![g] = Only(@, Instances \ {i})]
  /\ tracked' = [tracked EXCEPT ![g] = [e \in Synced |-> IF Inside[e] = i THEN Untracked ELSE @[e]]]

receiveSpawn(g) ==
  /\ Handles(g, "Replication")
  /\ LET event == Head(events[g])
         i == event.message.instance
         may == mayDecide(g, event, SpawnerOf[i])
         exists == Exists(g, SpawnerOf[i])
     IN /\ event.message.kind = "Spawn"
        /\ IF may /\ exists /\ i \notin known(g)
           THEN /\ alive' = [alive EXCEPT ![g] = @ \cup {i}]
                /\ spawned' = [spawned EXCEPT ![g] = Append(@, i)]
                /\ value' = [value EXCEPT ![g] = [e \in Synced |-> IF Inside[e] = i THEN 0 ELSE @[e]]]
                /\ passOn(g, event, {})
           ELSE UNCHANGED <<alive, spawned, value, wires>>
        /\ untold' = untold \cup (IF g = Host /\ ~(may /\ exists) THEN {i} ELSE {})
        /\ strays' = IF Online(g) THEN strays ELSE [strays EXCEPT ![g] = @ \cup {i}]
        /\ UNCHANGED tracked

receiveDespawn(g) ==
  /\ Handles(g, "Replication")
  /\ LET event == Head(events[g])
         i == event.message.instance
         may == mayDecide(g, event, SpawnerOf[i])
     IN /\ event.message.kind = "Despawn"
        /\ IF may
           THEN /\ alive' = [alive EXCEPT ![g] = @ \ ({i} \cup Below(i))]
                /\ Forgets(g, i) /\ passOn(g, event, {})
           ELSE UNCHANGED <<alive, spawned, tracked, wires>>
        /\ untold' = untold \cup (IF may THEN {} ELSE {i})
        /\ UNCHANGED <<value, strays>>

\* Numbers of another authority are not compared with its own.
SinceAuthority(t, who) ==
  IF t.lastAuthority = who THEN t ELSE [t EXCEPT !.lastAuthority = who, !.lastSequence = 0]

receiveValues(g, lost) ==
  /\ Handles(g, "Replication")
  /\ lost # {} => g = Host /\ Head(events[g]).delivery = "Unreliable"
  /\ LET event == Head(events[g])
         m == event.message
         e == m.entity
         t == SinceAuthority(tracked[g][e], authority[g][e])
         newer == m.sequence > t.lastSequence
     IN /\ m.kind = "Values"
        /\ IF mayDecide(g, event, e) /\ ~isAuthority(g, e)
           THEN /\ passOn(g, event, lost)
                /\ IF Exists(g, e)
                   THEN /\ tracked' = [tracked EXCEPT ![g][e] =
                             IF newer THEN [t EXCEPT !.lastSequence = m.sequence, !.took = m.by] ELSE t]
                        /\ value' = [value EXCEPT ![g][e] = IF newer THEN m.value ELSE @]
                   ELSE UNCHANGED <<tracked, value>>
           ELSE UNCHANGED <<tracked, value, wires>>
        /\ UNCHANGED <<alive, spawned, history>>

valuesMessage(e, n, v, by) == [kind |-> "Values", entity |-> e, sequence |-> n, value |-> v, by |-> by]
spawnMessage(i) == [kind |-> "Spawn", instance |-> i]
despawnMessage(i) == [kind |-> "Despawn", instance |-> i]

\* A newcomer is told of every instance, then of the values as they are.
welcome ==
  /\ Handles(Host, "PeerJoined")
  /\ tracked' = [tracked EXCEPT ![Host] = [e \in Synced |->
       IF Exists(Host, e) /\ isAuthority(Host, e) /\ @[e].sequence = 0
       THEN [@[e] EXCEPT !.sequence = 1] ELSE @[e]]]
  /\ LET peer == Head(events[Host]).peer
         Told(e) == LET t == tracked'[Host][e]
                    IN IF isAuthority(Host, e)
                       THEN valuesMessage(e, t.sequence, value[Host][e], hostPeer)
                       ELSE valuesMessage(e, IF t.lastSequence = 0 THEN 1 ELSE t.lastSequence,
                                          value[Host][e], t.took)
         there == Only(spawned[Host], alive[Host])
         news == [n \in DOMAIN there |-> spawnMessage(there[n])]
                   \o SetToSeq({Told(e) : e \in ExistingSynced(Host)})
     IN ToClients({c \in Clients : client[c] = peer}, news, <<>>, {})
  /\ UNCHANGED <<up, value, alive, spawned, history>>

-----------------------------------------------------------------------------
(* The code of the game, then send().                                       *)
Runs(g) == KeptUp(g) /\ events[g] = <<>> /\ (phase[g] = "poll" => ~Left(g))

Deed(g) ==
  /\ Runs(g) /\ Online(g) /\ phase' = [phase EXCEPT ![g] = "frame"]
  /\ UNCHANGED <<events, wasClient>>

\* Games change what they decide for, as the documentation asks of their code.
write(g, e) ==
  /\ Deed(g) /\ Spends("writes") /\ Exists(g, e) /\ isAuthority(g, e)
  /\ value' = [value EXCEPT ![g][e] = budget["writes"] + 1]
  /\ UNCHANGED <<session, wires, tracked, alive, spawned, history>>

\* It sets the values of what it places at once: they are no longer those of the prefab.
place(g, i) ==
  /\ Deed(g) /\ Uses("places", i) /\ Exists(g, SpawnerOf[i]) /\ isAuthority(g, SpawnerOf[i])
  /\ alive' = [alive EXCEPT ![g] = @ \cup {i}]
  /\ value' = [value EXCEPT ![g] = [e \in Synced |-> IF Inside[e] = i THEN 1 ELSE @[e]]]
  /\ UNCHANGED <<session, wires, tracked, spawned, history>>

destroy(g, i) ==
  /\ Deed(g) /\ Uses("destroys", i) /\ i \in alive[g] /\ isAuthority(g, SpawnerOf[i])
  /\ alive' = [alive EXCEPT ![g] = @ \ ({i} \cup Below(i))]
  /\ UNCHANGED <<session, wires, value, tracked, spawned, history>>

setAuthority(e, peer) ==
  /\ Deed(Host) /\ Uses("grants", e) /\ Exists(Host, e) /\ authority[Host][e] # peer
  /\ authority' = [authority EXCEPT ![Host][e] = peer]
  /\ ToClients(Clients, <<AuthorityPacket(e, peer)>>, <<>>, {})
  /\ untold' = untold \cup {i \in Instances : /\ SpawnerOf[i] = e
                                              /\ (i \in alive[Host]) # (i \in known(Host))}
  /\ UNCHANGED <<number, linked, client, nextPeer, up, scenes, strays>>

leave(c) ==
  /\ Runs(c) /\ Closes(c) /\ phase' = [phase EXCEPT ![c] = "frame"]
  /\ UNCHANGED <<scenes, history>>

\* mutant: what is inside another instance is told of first
New_Inside(g) ==
  LET new(nested) == {i \in alive[g] \ known(g) : /\ isAuthority(g, SpawnerOf[i])
                                                  /\ (Inside[SpawnerOf[i]] # Root) = nested}
  IN SetToSeq(new(TRUE)) \o SetToSeq(new(FALSE))

\* The instances sendSpawns tells of, those under others after them.
New(g) ==
  LET new(nested) == {i \in alive[g] \ known(g) : /\ isAuthority(g, SpawnerOf[i])
                                                  /\ (Inside[SpawnerOf[i]] # Root) = nested}
  IN SetToSeq(new(FALSE)) \o SetToSeq(new(TRUE))

Gone(g) ==
  Reverse(Only(spawned[g], {i \in Instances \ alive[g] : isAuthority(g, SpawnerOf[i])}))

Changed(g, e) == value[g][e] # tracked[g][e].sent

\* mutant: what was sent once counts as arrived
Settles_AtOnce(g, e) == TRUE

\* The others surely have what is sent: it goes reliably, having stopped changing.
Settles(g, e) == ~Changed(g, e)

\* The entities sendValues sends the values of, among those the rate lets it look at.
Sends(g, due) ==
  IF Online(g) /\ (g = Host => Peers # {})
  THEN {e \in due : /\ Exists(g, e) /\ isAuthority(g, e)
                    /\ Changed(g, e) \/ ~tracked[g][e].settled}
  ELSE {}

\* What is kept of an entity whose values are sent.
Sending(t, values, settles) == [t EXCEPT !.sequence = @ + 1, !.sent = values, !.settled = settles]

send(g, due, lost) ==
  /\ Runs(g)
  /\ LET new == New(g)
         gone == Gone(g)
         sent == Sends(g, due)
         fresh == {e \in sent : Changed(g, e)}
         Values(es) == SetToSeq({valuesMessage(e, tracked[g][e].sequence + 1, value[g][e], number[g]) : e \in es})
         spawns == [n \in DOMAIN new |-> spawnMessage(new[n])]
         despawns == [n \in DOMAIN gone |-> despawnMessage(gone[n])]
     IN /\ lost # {} => fresh # {} /\ (g = Host \/ lost = {g})
        /\ \/ phase[g] = "frame"
           \/ new \o gone # <<>> \/ sent # {}
        /\ SendsEveryone(g, spawns \o despawns \o Values(sent \ fresh), Values(fresh), lost)
        /\ spawned' = [spawned EXCEPT ![g] = Only(@ \o new, Instances \ ToSet(gone))]
        /\ tracked' = [tracked EXCEPT ![g] = [e \in Synced |->
             CASE e \in sent -> Sending(@[e], value[g][e], Settles(g, e))
               [] Inside[e] \in ToSet(gone) -> Untracked
               [] OTHER -> @[e]]]
  /\ phase' = [phase EXCEPT ![g] = "poll"]
  /\ UNCHANGED <<session, events, value, alive, wasClient, history, budget>>

-----------------------------------------------------------------------------
Next ==
  \/ \E c \in Clients :
       \/ clientConnected(c) \/ clientLeft(c) \/ disconnected(c) \/ leftSession(c) \/ leave(c)
       \/ \E d \in Deliveries : relay(c, d) \/ received(c, d)
  \/ \E g \in Games :
       \/ receiveSpawn(g) \/ receiveDespawn(g)
       \/ \E lost \in SUBSET Clients :
            \/ receiveValues(g, lost)
            \/ \E due \in SUBSET Synced : send(g, due, lost)
       \/ \E e \in Synced : write(g, e)
       \/ \E i \in Instances : place(g, i) \/ destroy(g, i)
  \/ welcome
  \/ \E e \in Owned, peer \in {hostPeer} \cup {client[c] : c \in Peers} : setAuthority(e, peer)

Spec == Init /\ [][Next]_vars

-----------------------------------------------------------------------------
(* Nothing is on its way, and everyone has handled what came and sent.      *)
Quiet ==
  /\ \A c \in Clients :
       /\ down[c] = Silent /\ up[c] = Silent /\ ~Left(c)
       /\ linked[c] = (client[c] # 0)
  /\ \A g \in Games : events[g] = <<>> /\ phase[g] = "poll"

Disputed == LET roots == untold \cup UNION {strays[c] : c \in Clients} IN roots \cup UNION {Below(i) : i \in roots}

\* Once nothing is on its way, the players of a session have the instances the host has, whoever
\* placed and destroyed them, joined or left meanwhile; but for those the host refused to hear of, as
\* another decided for their spawner by then, those nobody told of, and those a client placed after
\* its session ended (sendSpawns, receiveSpawn, receiveDespawn, welcome, leftSession).
SpawnsAgree ==
  Quiet => \A c \in Clients : Online(c) => alive[c] \ Disputed = alive[Host] \ Disputed

\* Once nothing is on its way and who decides for an entity has settled, the others show its values;
\* but for a game whose last numbers are those of who decided before, and not below (receiveValues).
OnlyOldNumbersDivide ==
  Quiet => \A d \in Games, g \in Games, e \in Synced :
    /\ Online(d) /\ Online(g) /\ authority[Host][e] = number[d]
    /\ Exists(d, e) /\ Exists(g, e)
    /\ tracked[d][e].settled /\ ~Changed(d, e)
    => \/ value[g][e] = value[d][e]
       \/ /\ tracked[g][e].took # number[d]
          /\ tracked[g][e].lastSequence >= tracked[d][e].sequence

\* What appeared during a session goes with it, but for what was handled after it ended, in the
\* same poll (leftSession).
LeavesNothingBehind ==
  \A c \in Clients : ~Online(c) /\ ~wasClient[c] => alive[c] \subseteq strays[c]
=============================================================================
