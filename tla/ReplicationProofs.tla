-------------------------- MODULE ReplicationProofs --------------------------
(***************************************************************************)
(* Proofs about Replication, for every scene, number of clients and budget: *)
(* its types; that a session leaves nothing behind in the scene of a client *)
(* that left it; and that the players of a session have the same instances. *)
(***************************************************************************)
EXTENDS ReplicationAgreement, SequenceFacts

(* What wires and lists hold. *)

\* Latest keeps the end of a sequence.
LEMMA LatestIs ==
  ASSUME NEW S, NEW s \in Seq(S)
  PROVE  Latest(s) \in Seq(S)
<1> DEFINE first == IF Len(s) > MaxLate THEN Len(s) - MaxLate + 1 ELSE 1
<1>1. first \in 1 .. Len(s) + 1
  BY LenProperties, ReplicationAssumption
<1> HIDE DEF first
<1>2. SubSeq(s, first, Len(s)) \in Seq(S)
  BY <1>1, EndIs
<1> QED
  BY <1>2 DEF Latest, first

\* A wire with more packets is a wire.
LEMMA WithIs ==
  ASSUME NEW P, NEW wire \in [Deliveries -> Seq(P)], NEW reliable \in Seq(P), NEW unreliable \in Seq(P),
         NEW carried \in BOOLEAN
  PROVE  With(wire, reliable, unreliable, carried) \in [Deliveries -> Seq(P)]
<1> DEFINE sure == wire["Reliable"] \o reliable
           late == wire["Unreliable"] \o unreliable
<1>1. wire["Reliable"] \in Seq(P) /\ wire["Unreliable"] \in Seq(P)
  BY DEF Deliveries
<1>2. sure \in Seq(P) /\ late \in Seq(P)
  BY <1>1, ToSetConcat
<1> HIDE DEF sure, late
<1>3. Latest(late) \in Seq(P)
  BY <1>2, LatestIs
<1>4. With(wire, reliable, unreliable, carried)
        = [wire EXCEPT !["Reliable"] = sure, !["Unreliable"] = IF carried THEN Latest(late) ELSE @]
  BY DEF With, sure, late
<1> QED
  BY <1>1, <1>2, <1>3, <1>4

-----------------------------------------------------------------------------
(* Types *)

\* The games and the entities, as the assumption has them.
LEMMA GamesAre ==
  /\ Host \in Games /\ Clients \subseteq Games /\ \A c \in Clients : c # Host
  /\ Synced \subseteq Owned /\ Spawners \subseteq Owned
  /\ \A i \in Instances : SpawnerOf[i] \in Spawners
  /\ Root \notin Instances
BY ReplicationAssumption DEF Games, Owned

\* A sequence of what is in S is one of what is in a larger set.
LEMMA SeqMonotone ==
  ASSUME NEW S, NEW T, S \subseteq T, NEW s \in Seq(S)
  PROVE  s \in Seq(T)
OBVIOUS

\* A function changed at one place keeps its range.
LEMMA Updated ==
  ASSUME NEW D, NEW R, NEW f \in [D -> R], NEW d, NEW r \in R
  PROVE  [f EXCEPT ![d] = r] \in [D -> R]
OBVIOUS

\* A deed leaves the budget of a behaviour a budget.
LEMMA SpendsTypes ==
  ASSUME TypeOK, NEW deed \in {"joins", "leaves", "writes"}, Spends(deed)
  PROVE  budget[deed] \in Nat \ {0} /\ budget' \in Budget
<1>1. PICK left : left = budget[deed] - 1
  OBVIOUS
<1>2. budget[deed] > 0 /\ budget' = [budget EXCEPT ![deed] = left]
  BY <1>1 DEF Spends
<1>3. budget \in Budget /\ budget[deed] \in Nat \ {0} /\ left \in Nat
  BY <1>1, <1>2 DEF TypeOK, Budget
<1> QED
  BY <1>2, <1>3 DEF Budget

\* So does one that is done once to each thing.
LEMMA UsesTypes ==
  ASSUME TypeOK, NEW deed \in {"grants", "places", "destroys"}, NEW what, Uses(deed, what)
  PROVE  budget' \in Budget
<1>1. PICK left : left = budget[deed] \ {what}
  OBVIOUS
<1>2. budget' = [budget EXCEPT ![deed] = left]
  BY <1>1 DEF Uses
<1>3. budget \in Budget /\ left \subseteq budget[deed]
  BY <1>1 DEF TypeOK
<1>4. CASE deed = "grants"
  <2>1. left \in SUBSET Owned
    BY <1>3, <1>4 DEF Budget
  <2> QED
    BY <1>2, <1>3, <1>4, <2>1 DEF Budget
<1>5. CASE deed = "places"
  <2>1. left \in SUBSET Instances
    BY <1>3, <1>5 DEF Budget
  <2> QED
    BY <1>2, <1>3, <1>5, <2>1 DEF Budget
<1>6. CASE deed = "destroys"
  <2>1. left \in SUBSET Instances
    BY <1>3, <1>6 DEF Budget
  <2> QED
    BY <1>2, <1>3, <1>6, <2>1 DEF Budget
<1> QED
  BY <1>4, <1>5, <1>6

\* What the host and the clients send are packets and messages.
LEMMA ToClientsTypes ==
  ASSUME TypeOK, NEW to, NEW reliable \in Seq(Packets), NEW unreliable \in Seq(Packets), NEW lost,
         ToClients(to, reliable, unreliable, lost)
  PROVE  down' \in [Clients -> [Deliveries -> Seq(Packets)]]
<1>1. ASSUME NEW c \in Clients
      PROVE  With(down[c], reliable, unreliable, c \notin lost) \in [Deliveries -> Seq(Packets)]
  <2>1. down[c] \in [Deliveries -> Seq(Packets)]
    BY DEF TypeOK
  <2> QED
    BY <2>1, WithIs
<1> QED
  BY <1>1 DEF ToClients, TypeOK

\* What a game sends to everyone goes down from the host, or up from a client.
LEMMA SendsEveryoneTypes ==
  ASSUME TypeOK, NEW g \in Games, NEW reliable \in Seq(Messages), NEW unreliable \in Seq(Messages),
         NEW lost, SendsEveryone(g, reliable, unreliable, lost)
  PROVE  /\ down' \in [Clients -> [Deliveries -> Seq(Packets)]]
         /\ up' \in [Clients -> [Deliveries -> Seq(Messages)]]
<1>1. CASE g = Host
  <2>1. reliable \in Seq(Packets) /\ unreliable \in Seq(Packets)
    BY SeqMonotone DEF Packets
  <2> QED
    BY <1>1, <2>1, ToClientsTypes DEF TypeOK, SendsEveryone
<1>2. CASE g # Host
  <2> DEFINE more == With(up[g], reliable, unreliable, g \notin lost)
  <2>1. g \in Clients
    BY <1>2 DEF Games
  <2>2. more \in [Deliveries -> Seq(Messages)]
    BY <2>1, WithIs DEF TypeOK
  <2>3. down' = down /\ up' = IF Online(g) THEN [up EXCEPT ![g] = more] ELSE up
    BY <1>2 DEF SendsEveryone
  <2> HIDE DEF more
  <2> QED
    BY <2>1, <2>2, <2>3 DEF TypeOK
<1> QED
  BY <1>1, <1>2

\* What a function makes of finitely many things is finite.
LEMMA ImageIsFinite ==
  ASSUME NEW f, IsFiniteSet(DOMAIN f)
  PROVE  IsFiniteSet({f[x] : x \in DOMAIN f})
<1> DEFINE T == {f[x] : x \in DOMAIN f}
           g == [x \in DOMAIN f |-> f[x]]
<1>1. g \in Surjection(DOMAIN f, T)
  BY DEF Surjection
<1> HIDE DEF T, g
<1>2. IsFiniteSet(T)
  BY <1>1, FS_Surjection
<1> QED
  BY <1>2 DEF T

\* A silent wire is a wire.
LEMMA SilentIs ==
  ASSUME NEW P
  PROVE  Silent \in [Deliveries -> Seq(P)]
BY DEF Silent, Deliveries

\* Who decides for what is a packet for a newcomer.
LEMMA DecidedIs ==
  ASSUME TypeOK
  PROVE  Decided \in Seq(Packets)
<1> DEFINE others == {o \in Owned : authority[Host][o] # hostPeer}
           packets == {AuthorityPacket(e, authority[Host][e]) : e \in others}
<1>1. IsFiniteSet(others)
  BY ReplicationAssumption, FS_Subset
<1>2. IsFiniteSet(packets)
  <2> DEFINE packet == [o \in others |-> AuthorityPacket(o, authority[Host][o])]
  <2>1. packets = {packet[o] : o \in others} /\ DOMAIN packet = others
    OBVIOUS
  <2> HIDE DEF others, packets, packet
  <2> QED
    BY <1>1, <2>1, ImageIsFinite
<1>3. packets \subseteq Packets
  BY GamesAre DEF AuthorityPacket, Packets, TypeOK
<1> HIDE DEF packets
<1>4. SetToSeq(packets) \in Seq(packets)
  BY <1>2, SetToSeqLists
<1>5. SetToSeq(packets) \in Seq(Packets)
  BY <1>3, <1>4, SeqMonotone
<1> QED
  BY <1>5 DEF Decided, packets

\* Who decides is a number after one who left gave back what it decided.
LEMMA GivesBackIs ==
  ASSUME NEW who \in [Owned -> Nat], NEW peer
  PROVE  GivesBack(who, peer) \in [Owned -> Nat]
BY DEF GivesBack, hostPeer

-----------------------------------------------------------------------------
(* The types of a step of the session *)

\* A newcomer gets a number, a welcome, and who decides for what.
LEMMA ClientConnectedTypes ==
  ASSUME TypeOK, NEW c \in Clients, clientConnected(c)
  PROVE  TypeOK'
<1>1. budget' \in Budget
  BY SpendsTypes DEF clientConnected
<1>2. PICK first : first = <<[kind |-> "Welcome", number |-> nextPeer]>> \o Decided
  OBVIOUS
<1>3. first \in Seq(Packets)
  BY <1>2, DecidedIs, ToSetConcat DEF Packets, TypeOK
<1>4. PICK wire : wire = [Silent EXCEPT !["Reliable"] = first]
  OBVIOUS
<1>5. wire \in [Deliveries -> Seq(Packets)]
  BY <1>3, <1>4, SilentIs DEF Deliveries
<1>6. events' \in [Games -> Seq(Events)]
  <2>1. PICK event : event = [kind |-> "PeerJoined", peer |-> nextPeer]
    OBVIOUS
  <2> QED
    BY <2>1, GamesAre, AppendProperties DEF TypeOK, clientConnected, Events
<1> QED
  BY <1>1, <1>2, <1>4, <1>5, <1>6, SilentIs DEF TypeOK, scenes, history, clientConnected, Polls

\* The others hear that a client left, which gives back what it decided.
LEMMA ClientLeftTypes ==
  ASSUME TypeOK, NEW c \in Clients, clientLeft(c)
  PROVE  TypeOK'
<1>1. authority' \in [Games -> [Owned -> Nat]]
  <2>1. PICK given : given = GivesBack(authority[Host], client[c])
    OBVIOUS
  <2> QED
    BY <2>1, GamesAre, GivesBackIs DEF TypeOK, clientLeft
<1>2. down' \in [Clients -> [Deliveries -> Seq(Packets)]]
  <2>1. PICK list : list = <<[kind |-> "PeerLeft", peer |-> client[c]]>>
    OBVIOUS
  <2>2. list \in Seq(Packets) /\ <<>> \in Seq(Packets)
    BY <2>1 DEF Packets, TypeOK
  <2> QED
    BY <2>1, <2>2, ToClientsTypes DEF clientLeft
<1> QED
  BY <1>1, <1>2, SilentIs DEF TypeOK, scenes, history, clientLeft, Polls

\* What a client sent becomes an event of the host.
LEMMA RelayTypes ==
  ASSUME TypeOK, NEW c \in Clients, NEW d \in Deliveries, relay(c, d)
  PROVE  TypeOK'
<1>1. Head(up[c][d]) \in Messages /\ Tail(up[c][d]) \in Seq(Messages)
  BY ToSetTail DEF relay, TypeOK
<1>2. up' \in [Clients -> [Deliveries -> Seq(Messages)]]
  <2>1. PICK rest : rest = Tail(up[c][d])
    OBVIOUS
  <2> QED
    BY <1>1, <2>1 DEF TypeOK, relay
<1>3. events' \in [Games -> Seq(Events)]
  <2>1. PICK event :
          event = [kind |-> "Replication", peer |-> client[c], message |-> Head(up[c][d]), delivery |-> d]
    OBVIOUS
  <2> QED
    BY <1>1, <2>1, GamesAre, AppendProperties DEF TypeOK, relay, Events
<1> QED
  BY <1>2, <1>3 DEF TypeOK, session, scenes, history, relay, Polls

\* The host decides for everything when nothing was given away.
LEMMA NoAuthorityIs == NoAuthority \in [Owned -> Nat]
BY DEF NoAuthority, hostPeer

\* A client handles each kind of packet.
LEMMA ReceivedTypes ==
  ASSUME TypeOK, NEW c \in Clients, NEW d \in Deliveries, received(c, d)
  PROVE  TypeOK'
<1>1. PICK packet : packet = Head(down[c][d])
  OBVIOUS
<1>2. packet \in Packets /\ Tail(down[c][d]) \in Seq(Packets)
  BY <1>1, ToSetTail DEF received, TypeOK
<1>3. down' \in [Clients -> [Deliveries -> Seq(Packets)]]
  <2>1. PICK rest : rest = Tail(down[c][d])
    OBVIOUS
  <2> QED
    BY <1>2, <2>1 DEF TypeOK, received
<1>4. /\ number' \in [Games -> Nat] /\ wasClient' \in [Clients -> BOOLEAN]
      /\ authority' \in [Games -> [Owned -> Nat]] /\ events' \in [Games -> Seq(Events)]
  <2>1. CASE packet.kind = "Welcome"
    <3>1. /\ number' = [number EXCEPT ![c] = packet.number]
          /\ authority' = [authority EXCEPT ![c] = NoAuthority]
          /\ wasClient' = [wasClient EXCEPT ![c] = TRUE] /\ events' = events
      BY <1>1, <2>1 DEF received
    <3> QED
      BY <1>2, <2>1, <3>1, NoAuthorityIs, GamesAre DEF TypeOK, Packets, Messages
  <2>2. CASE packet.kind = "Authority"
    <3>1. /\ authority' = [authority EXCEPT ![c][packet.entity] = packet.peer]
          /\ number' = number /\ wasClient' = wasClient /\ events' = events
      BY <1>1, <2>2 DEF received
    <3> QED
      BY <1>2, <2>2, <3>1, GamesAre DEF TypeOK, Packets, Messages
  <2>3. CASE packet.kind = "PeerLeft"
    <3>1. PICK given : given = GivesBack(authority[c], packet.peer)
      OBVIOUS
    <3>2. given \in [Owned -> Nat]
      BY <3>1, GamesAre, GivesBackIs DEF TypeOK
    <3> QED
      BY <1>1, <2>3, <3>1, <3>2, GamesAre DEF TypeOK, received
  <2>4. CASE packet.kind \notin {"Welcome", "Authority", "PeerLeft"}
    <3>1. PICK event : event = [kind |-> "Replication", peer |-> hostPeer, message |-> packet, delivery |-> d]
      OBVIOUS
    <3>2. /\ events' = [events EXCEPT ![c] = Append(@, event)]
          /\ number' = number /\ wasClient' = wasClient /\ authority' = authority
      BY <1>1, <2>4, <3>1 DEF received
    <3> QED
      BY <1>2, <2>4, <3>1, <3>2, GamesAre, AppendProperties DEF TypeOK, Events, hostPeer, Packets
  <2> QED
    BY <2>1, <2>2, <2>3, <2>4
<1> QED
  BY <1>3, <1>4 DEF TypeOK, scenes, history, received, Polls

\* A client that closes its session is as it was before it joined.
LEMMA ClosesTypes ==
  ASSUME TypeOK, NEW c \in Clients, Closes(c)
  PROVE  /\ number' \in [Games -> Nat] /\ linked' \in [Clients -> BOOLEAN]
         /\ authority' \in [Games -> [Owned -> Nat]] /\ budget' \in Budget
         /\ down' \in [Clients -> [Deliveries -> Seq(Packets)]]
         /\ UNCHANGED <<client, nextPeer, up, events, wasClient>>
<1>1. budget' \in Budget
  BY SpendsTypes DEF Closes
<1> QED
  BY <1>1, NoAuthorityIs, SilentIs, GamesAre DEF Closes, TypeOK

\* It does when it finds its connection gone.
LEMMA DisconnectedTypes ==
  ASSUME TypeOK, NEW c \in Clients, disconnected(c)
  PROVE  TypeOK'
<1>1. UNCHANGED <<phase, scenes, history>>
  BY DEF disconnected, Polls
<1> QED
  BY <1>1, ClosesTypes DEF disconnected, TypeOK, scenes, history

\* It does when its code leaves.
LEMMA LeaveTypes ==
  ASSUME TypeOK, NEW c \in Clients, leave(c)
  PROVE  TypeOK'
<1>1. phase' \in [Games -> {"poll", "frame"}] /\ UNCHANGED <<scenes, history>>
  BY DEF leave, TypeOK
<1> QED
  BY <1>1, ClosesTypes DEF leave, TypeOK, scenes, history

\* What is kept of an entity nothing was sent or heard of.
LEMMA UntrackedIs ==
  Untracked \in Tracked /\ \A n \in Nat : [Untracked EXCEPT !.sequence = n] \in Tracked
<1>1. Unsent \in Int /\ NoPeer \in Nat
  BY DEF Unsent, NoPeer
<1>2. Untracked \in Tracked
  BY <1>1 DEF Tracked, Untracked
<1>3. ASSUME NEW n \in Nat
      PROVE  [Untracked EXCEPT !.sequence = n] \in Tracked
  <2>1. PICK t \in Tracked : t = Untracked
    BY <1>2
  <2>2. [t EXCEPT !.sequence = n] \in Tracked
    BY DEF Tracked
  <2> QED
    BY <2>1, <2>2
<1> QED
  BY <1>2, <1>3

\* A client puts away the session that ended, and keeps the numbers it sent.
LEMMA LeftSessionTypes ==
  ASSUME TypeOK, NEW c \in Clients, leftSession(c)
  PROVE  TypeOK'
<1>1. alive' \in [Games -> SUBSET Instances]
  <2>1. PICK left : left = {i \in alive[c] : i \notin known(c) /\ \A j \in known(c) : i \notin Below(j)}
    OBVIOUS
  <2> QED
    BY <2>1, Updated, GamesAre DEF TypeOK, leftSession
<1>2. tracked' \in [Games -> [Synced -> Tracked]]
  <2>1. PICK kept : kept = [e \in Synced |-> [Untracked EXCEPT !.sequence = tracked[c][e].sequence]]
    OBVIOUS
  <2>2. kept \in [Synced -> Tracked]
    <3>1. \A e \in Synced : tracked[c][e].sequence \in Nat
      BY GamesAre DEF TypeOK, Tracked
    <3> QED
      BY <2>1, <3>1, UntrackedIs
  <2> QED
    BY <2>1, <2>2, GamesAre DEF TypeOK, leftSession
<1> QED
  BY <1>1, <1>2, GamesAre DEF TypeOK, session, wires, history, leftSession

-----------------------------------------------------------------------------
(* The types of a step of receive() *)

\* The event a game handles.
LEMMA HandlesTypes ==
  ASSUME TypeOK, NEW g \in Games, NEW kind, Handles(g, kind)
  PROVE  /\ Head(events[g]) \in Events /\ Head(events[g]).kind = kind
         /\ kind = "Replication" => Head(events[g]).message \in Messages /\ Head(events[g]).delivery \in Deliveries
         /\ events' \in [Games -> Seq(Events)] /\ phase' \in [Games -> {"poll", "frame"}]
         /\ UNCHANGED <<session, wasClient, budget>>
<1> QED
  BY ToSetTail DEF Events, Handles, TypeOK

\* The parts of a message of replication.
LEMMA MessagesAre ==
  ASSUME NEW m \in Messages
  PROVE  /\ m.kind \in {"Spawn", "Despawn"} => m.instance \in Instances
         /\ m.kind = "Values" => m.entity \in Synced /\ m.sequence \in Nat /\ m.value \in Nat /\ m.by \in Nat
BY DEF Messages

\* The host passes on messages, as they came.
LEMMA PassOnTypes ==
  ASSUME TypeOK, NEW g \in Games, NEW event, event.message \in Messages, NEW lost, passOn(g, event, lost)
  PROVE  down' \in [Clients -> [Deliveries -> Seq(Packets)]] /\ up' = up
<1>1. CASE g = Host
  <2> DEFINE Of(delivery) == IF event.delivery = delivery THEN <<event.message>> ELSE <<>>
             to == {c \in Clients : client[c] # event.peer}
  <2>1. event.message \in Packets
    BY DEF Packets
  <2>2. PICK reliable, unreliable : reliable = Of("Reliable") /\ unreliable = Of("Unreliable")
    OBVIOUS
  <2>3. reliable \in Seq(Packets) /\ unreliable \in Seq(Packets)
    BY <2>1, <2>2
  <2>4. ToClients(to, reliable, unreliable, lost) /\ up' = up
    BY <1>1, <2>2 DEF passOn
  <2> HIDE DEF to, Of
  <2> QED
    BY <2>3, <2>4, ToClientsTypes
<1>2. CASE g # Host
  BY <1>2 DEF passOn, wires, TypeOK
<1> QED
  BY <1>1, <1>2

\* An instance appears where a game hears of it.
LEMMA ReceiveSpawnTypes ==
  ASSUME TypeOK, NEW g \in Games, receiveSpawn(g)
  PROVE  TypeOK'
<1> DEFINE event == Head(events[g])
           i == event.message.instance
           taken == mayDecide(g, event, SpawnerOf[i]) /\ Exists(g, SpawnerOf[i]) /\ i \notin known(g)
<1>1. Handles(g, "Replication") /\ event.message.kind = "Spawn" /\ tracked' = tracked
  BY DEF receiveSpawn
<1>2. /\ event.message \in Messages
      /\ events' \in [Games -> Seq(Events)] /\ phase' \in [Games -> {"poll", "frame"}]
      /\ UNCHANGED <<session, wasClient, budget>>
  BY <1>1, HandlesTypes
<1>3. i \in Instances
  BY <1>1, <1>2, MessagesAre
<1>4. untold' \in SUBSET Instances
  <2>1. untold' = untold \cup {i} \/ untold' = untold
    BY DEF receiveSpawn
  <2> HIDE DEF i
  <2> QED
    BY <1>3, <2>1 DEF TypeOK
<1>5. strays' \in [Clients -> SUBSET Instances]
  <2>1. PICK more : more = strays[g] \cup {i}
    OBVIOUS
  <2>2. strays' = strays \/ strays' = [strays EXCEPT ![g] = more]
    BY <2>1 DEF receiveSpawn
  <2>3. strays \in [Clients -> SUBSET Instances] /\ (g \in Clients => more \in SUBSET Instances)
    BY <1>3, <2>1 DEF TypeOK
  <2> QED
    BY <2>2, <2>3, Updated
<1>6. /\ alive' \in [Games -> SUBSET Instances] /\ spawned' \in [Games -> Seq(Instances)]
      /\ value' \in [Games -> [Synced -> Nat]]
      /\ down' \in [Clients -> [Deliveries -> Seq(Packets)]] /\ up' = up
  <2>1. CASE taken
    <3>1. PICK more, longer, shown :
            /\ more = alive[g] \cup {i} /\ longer = Append(spawned[g], i)
            /\ shown = [e \in Synced |-> IF Inside[e] = i THEN 0 ELSE value[g][e]]
      OBVIOUS
    <3>2. /\ alive' = [alive EXCEPT ![g] = more] /\ spawned' = [spawned EXCEPT ![g] = longer]
          /\ value' = [value EXCEPT ![g] = shown] /\ passOn(g, event, {})
      BY <2>1, <3>1 DEF receiveSpawn
    <3>3. /\ alive[g] \in SUBSET Instances /\ spawned[g] \in Seq(Instances) /\ value[g] \in [Synced -> Nat]
          /\ alive \in [Games -> SUBSET Instances] /\ spawned \in [Games -> Seq(Instances)]
          /\ value \in [Games -> [Synced -> Nat]]
      BY DEF TypeOK
    <3>4. more \in SUBSET Instances /\ longer \in Seq(Instances) /\ shown \in [Synced -> Nat]
      <4> HIDE DEF i
      <4> QED
        BY <1>3, <3>1, <3>3, AppendProperties
    <3> QED
      BY <1>2, <3>2, <3>3, <3>4, Updated, PassOnTypes
  <2>2. CASE ~taken
    BY <2>2 DEF TypeOK, wires, receiveSpawn
  <2> QED
    BY <2>1, <2>2
<1> QED
  BY <1>1, <1>2, <1>4, <1>5, <1>6 DEF TypeOK, session

\* A game that forgets an instance forgets no other.
LEMMA ForgetsTypes ==
  ASSUME TypeOK, NEW g \in Games, NEW i, Forgets(g, i)
  PROVE  /\ spawned' \in [Games -> Seq(Instances)] /\ tracked' \in [Games -> [Synced -> Tracked]]
         /\ \A h \in Games \ {g} : spawned'[h] = spawned[h]
         /\ ToSet(spawned'[g]) = ToSet(spawned[g]) \ {i}
<1>1. PICK shorter, kept :
        /\ shorter = Only(spawned[g], Instances \ {i})
        /\ kept = [e \in Synced |-> IF Inside[e] = i THEN Untracked ELSE tracked[g][e]]
  OBVIOUS
<1> QED
  BY <1>1, Updated, OnlyIs, ToSetOfSeq, UntrackedIs DEF Forgets, TypeOK

\* An instance goes, with what is below it.
LEMMA ReceiveDespawnTypes ==
  ASSUME TypeOK, NEW g \in Games, receiveDespawn(g)
  PROVE  TypeOK'
<1> DEFINE event == Head(events[g])
           i == event.message.instance
           may == mayDecide(g, event, SpawnerOf[i])
<1>1. Handles(g, "Replication") /\ event.message.kind = "Despawn" /\ UNCHANGED <<value, strays>>
  BY DEF receiveDespawn
<1>2. /\ event.message \in Messages
      /\ events' \in [Games -> Seq(Events)] /\ phase' \in [Games -> {"poll", "frame"}]
      /\ UNCHANGED <<session, wasClient, budget>>
  BY <1>1, HandlesTypes
<1>3. i \in Instances
  BY <1>1, <1>2, MessagesAre
<1>4. untold' \in SUBSET Instances
  <2>1. untold' = untold \cup {i} \/ untold' = untold
    BY DEF receiveDespawn
  <2> HIDE DEF i
  <2> QED
    BY <1>3, <2>1 DEF TypeOK
<1>5. /\ alive' \in [Games -> SUBSET Instances] /\ spawned' \in [Games -> Seq(Instances)]
      /\ tracked' \in [Games -> [Synced -> Tracked]]
      /\ down' \in [Clients -> [Deliveries -> Seq(Packets)]] /\ up' = up
  <2>1. CASE may
    <3>1. PICK fewer : fewer = alive[g] \ ({i} \cup Below(i))
      OBVIOUS
    <3>2. alive' = [alive EXCEPT ![g] = fewer] /\ Forgets(g, i) /\ passOn(g, event, {})
      BY <2>1, <3>1 DEF receiveDespawn
    <3> QED
      BY <1>2, <3>1, <3>2, ForgetsTypes, PassOnTypes, Updated DEF TypeOK
  <2>2. CASE ~may
    BY <2>2 DEF TypeOK, wires, receiveDespawn
  <2> QED
    BY <2>1, <2>2
<1> QED
  BY <1>1, <1>2, <1>4, <1>5 DEF TypeOK, session

\* What is kept of an entity once another decides for it.
LEMMA SinceAuthorityTypes ==
  ASSUME NEW t \in Tracked, NEW who \in Nat
  PROVE  SinceAuthority(t, who) \in Tracked
BY DEF SinceAuthority, Tracked

\* A game takes values that are newer than those it has.
LEMMA ReceiveValuesTypes ==
  ASSUME TypeOK, NEW g \in Games, NEW lost, receiveValues(g, lost)
  PROVE  TypeOK'
<1> DEFINE event == Head(events[g])
           m == event.message
           e == m.entity
           t == SinceAuthority(tracked[g][e], authority[g][e])
           newer == m.sequence > t.lastSequence
           taken == mayDecide(g, event, e) /\ ~isAuthority(g, e)
<1>1. Handles(g, "Replication") /\ m.kind = "Values" /\ UNCHANGED <<alive, spawned, history>>
  BY DEF receiveValues
<1>2. /\ m \in Messages
      /\ events' \in [Games -> Seq(Events)] /\ phase' \in [Games -> {"poll", "frame"}]
      /\ UNCHANGED <<session, wasClient, budget>>
  BY <1>1, HandlesTypes
<1>3. e \in Synced /\ m.sequence \in Nat /\ m.value \in Nat /\ m.by \in Nat
  BY <1>1, <1>2, MessagesAre
<1>4. down' \in [Clients -> [Deliveries -> Seq(Packets)]] /\ up' = up
  <2>1. CASE taken
    BY <1>2, <2>1, PassOnTypes DEF receiveValues
  <2>2. CASE ~taken
    BY <2>2 DEF TypeOK, wires, receiveValues
  <2> QED
    BY <2>1, <2>2
<1>5. tracked' \in [Games -> [Synced -> Tracked]] /\ value' \in [Games -> [Synced -> Nat]]
  <2>1. CASE taken /\ Exists(g, e)
    <3>1. PICK kept, shown :
            /\ kept = IF newer THEN [t EXCEPT !.lastSequence = m.sequence, !.took = m.by] ELSE t
            /\ shown = IF newer THEN m.value ELSE value[g][e]
      OBVIOUS
    <3>2. tracked' = [tracked EXCEPT ![g][e] = kept] /\ value' = [value EXCEPT ![g][e] = shown]
      BY <2>1, <3>1 DEF receiveValues
    <3>3. t \in Tracked
      <4> HIDE DEF e
      <4> QED
        BY <1>3, SinceAuthorityTypes, GamesAre DEF TypeOK
    <3> HIDE DEF e, t
    <3> QED
      BY <1>3, <3>1, <3>2, <3>3 DEF TypeOK, Tracked
  <2>2. CASE ~(taken /\ Exists(g, e))
    BY <2>2 DEF TypeOK, receiveValues
  <2> QED
    BY <2>1, <2>2
<1> QED
  BY <1>1, <1>2, <1>4, <1>5 DEF TypeOK, session, history

\* A message of values is a message.
LEMMA ValuesMessageIs ==
  ASSUME NEW e \in Synced, NEW n \in Nat, NEW v \in Nat, NEW by \in Nat
  PROVE  valuesMessage(e, n, v, by) \in Messages
BY DEF valuesMessage, Messages

\* So are those of an instance.
LEMMA SpawnMessageIs ==
  ASSUME NEW i \in Instances
  PROVE  spawnMessage(i) \in Messages /\ despawnMessage(i) \in Messages
BY DEF spawnMessage, despawnMessage, Messages

\* The messages of a sequence of instances.
LEMMA SpawnsAre ==
  ASSUME NEW s \in Seq(Instances)
  PROVE  /\ [n \in DOMAIN s |-> spawnMessage(s[n])] \in Seq(Messages)
         /\ [n \in DOMAIN s |-> despawnMessage(s[n])] \in Seq(Messages)
<1>1. Len(s) \in Nat /\ DOMAIN s = 1 .. Len(s) /\ \A n \in 1 .. Len(s) : s[n] \in Instances
  BY LenProperties, ElementOfSeq
<1>2. PICK spawns, despawns :
        /\ spawns = [n \in DOMAIN s |-> spawnMessage(s[n])]
        /\ despawns = [n \in DOMAIN s |-> despawnMessage(s[n])]
  OBVIOUS
<1>3. spawns \in [1 .. Len(s) -> Messages] /\ despawns \in [1 .. Len(s) -> Messages]
  BY <1>1, <1>2, SpawnMessageIs
<1> QED
  BY <1>1, <1>2, <1>3, FunctionIsSeq

\* The messages of a set of entities.
LEMMA ToldInSeq ==
  ASSUME NEW es \in SUBSET Synced, NEW f, DOMAIN f = es, \A e \in es : f[e] \in Messages
  PROVE  SetToSeq({f[e] : e \in es}) \in Seq(Messages)
<1> DEFINE all == {f[e] : e \in es}
<1>1. IsFiniteSet(es)
  <2>1. es \in SUBSET Owned
    BY GamesAre
  <2> QED
    BY <2>1, ReplicationAssumption, FS_Subset
<1>2. IsFiniteSet(all)
  <2> HIDE DEF all
  <2>1. IsFiniteSet({f[x] : x \in DOMAIN f})
    BY <1>1, ImageIsFinite
  <2> QED
    BY <2>1 DEF all
<1>3. all \subseteq Messages
  OBVIOUS
<1> HIDE DEF all
<1>4. SetToSeq(all) \in Seq(Messages)
  BY <1>2, <1>3, SetToSeqLists, SeqMonotone
<1> QED
  BY <1>4 DEF all

\* A newcomer is told of the instances, and of the values.
LEMMA WelcomeTypes ==
  ASSUME TypeOK, welcome
  PROVE  TypeOK'
<1> DEFINE peer == Head(events[Host]).peer
           Told(e) == LET t == tracked'[Host][e]
                      IN IF isAuthority(Host, e)
                         THEN valuesMessage(e, t.sequence, value[Host][e], hostPeer)
                         ELSE valuesMessage(e, IF t.lastSequence = 0 THEN 1 ELSE t.lastSequence,
                                            value[Host][e], t.took)
           there == Only(spawned[Host], alive[Host])
           spawns == [n \in DOMAIN there |-> spawnMessage(there[n])]
           news == spawns \o SetToSeq({Told(e) : e \in ExistingSynced(Host)})
           to == {c \in Clients : client[c] = peer}
<1>1. tracked' \in [Games -> [Synced -> Tracked]]
  <2>1. PICK kept : kept = [e \in Synced |->
          IF Exists(Host, e) /\ isAuthority(Host, e) /\ tracked[Host][e].sequence = 0
          THEN [tracked[Host][e] EXCEPT !.sequence = 1] ELSE tracked[Host][e]]
    OBVIOUS
  <2>2. tracked[Host] \in [Synced -> Tracked] /\ tracked \in [Games -> [Synced -> Tracked]]
    BY GamesAre DEF TypeOK
  <2>3. kept \in [Synced -> Tracked]
    BY <2>1, <2>2 DEF Tracked
  <2> QED
    BY <2>1, <2>2, <2>3, Updated DEF welcome
<1>2. ToClients(to, news, <<>>, {}) /\ UNCHANGED <<up, value, alive, spawned, history>>
  BY DEF welcome
<1>3. spawns \in Seq(Messages)
  <2>1. there \in Seq(Instances)
    BY OnlyIs, GamesAre DEF TypeOK
  <2> HIDE DEF there
  <2> QED
    BY <2>1, SpawnsAre
<1>4. SetToSeq({Told(e) : e \in ExistingSynced(Host)}) \in Seq(Messages)
  <2> DEFINE es == ExistingSynced(Host)
             f == [e \in es |-> Told(e)]
  <2>1. es \in SUBSET Synced
    BY DEF ExistingSynced
  <2>2. ASSUME NEW e \in es
        PROVE  Told(e) \in Messages
    <3>1. PICK t \in Tracked : t = tracked'[Host][e]
      BY <1>1, <2>1, GamesAre
    <3>2. value[Host][e] \in Nat
      BY <2>1, GamesAre DEF TypeOK
    <3> QED
      BY <2>1, <3>1, <3>2, ValuesMessageIs DEF hostPeer, Tracked
  <2> HIDE DEF es, Told
  <2>3. DOMAIN f = es /\ \A e \in es : f[e] \in Messages
    BY <2>2
  <2>4. {f[e] : e \in es} = {Told(e) : e \in es}
    OBVIOUS
  <2> HIDE DEF f
  <2> QED
    BY <2>1, <2>3, <2>4, ToldInSeq DEF es
<1>5. news \in Seq(Packets) /\ <<>> \in Seq(Packets)
  <2> HIDE DEF spawns, Told
  <2>1. news \in Seq(Messages)
    BY <1>3, <1>4, ToSetConcat
  <2> HIDE DEF news
  <2> QED
    BY <2>1, SeqMonotone DEF Packets
<1>6. down' \in [Clients -> [Deliveries -> Seq(Packets)]]
  <2> HIDE DEF news, to
  <2> QED
    BY <1>2, <1>5, ToClientsTypes
<1> QED
  BY <1>1, <1>2, <1>6, HandlesTypes, GamesAre DEF TypeOK, session, history, welcome

-----------------------------------------------------------------------------
(* The types of a step of the code of the game, and of send() *)

\* What the code of a game does is done in its frame.
LEMMA DeedTypes ==
  ASSUME TypeOK, NEW g \in Games, Deed(g)
  PROVE  phase' \in [Games -> {"poll", "frame"}] /\ UNCHANGED <<events, wasClient>>
BY DEF Deed, TypeOK

\* A game writes a value it decides.
LEMMA WriteTypes ==
  ASSUME TypeOK, NEW g \in Games, NEW e \in Synced, write(g, e)
  PROVE  TypeOK'
<1>1. budget["writes"] \in Nat \ {0} /\ budget' \in Budget
  BY SpendsTypes DEF write
<1>2. value' \in [Games -> [Synced -> Nat]]
  <2>1. PICK written \in Nat : written = budget["writes"] + 1
    BY <1>1
  <2>2. value' = [value EXCEPT ![g][e] = written]
    BY <2>1 DEF write
  <2> QED
    BY <2>2 DEF TypeOK
<1>3. UNCHANGED <<session, wires, tracked, alive, spawned, history>> /\ Deed(g)
  BY DEF write
<1> QED
  BY <1>1, <1>2, <1>3, DeedTypes DEF TypeOK, session, wires, history

\* It places an instance under a spawner it decides for.
LEMMA PlaceTypes ==
  ASSUME TypeOK, NEW g \in Games, NEW i \in Instances, place(g, i)
  PROVE  TypeOK'
<1>1. budget' \in Budget
  BY UsesTypes DEF place
<1>2. PICK more, shown : /\ more = alive[g] \cup {i}
                         /\ shown = [e \in Synced |-> IF Inside[e] = i THEN 1 ELSE value[g][e]]
  OBVIOUS
<1>3. alive' = [alive EXCEPT ![g] = more] /\ value' = [value EXCEPT ![g] = shown]
  BY <1>2 DEF place
<1>4. alive \in [Games -> SUBSET Instances] /\ value \in [Games -> [Synced -> Nat]]
  BY DEF TypeOK
<1>5. more \in SUBSET Instances /\ shown \in [Synced -> Nat]
  BY <1>2, <1>4
<1>6. alive' \in [Games -> SUBSET Instances] /\ value' \in [Games -> [Synced -> Nat]]
  BY <1>3, <1>4, <1>5, Updated
<1>7. UNCHANGED <<session, wires, tracked, spawned, history>> /\ Deed(g)
  BY DEF place
<1> QED
  BY <1>1, <1>6, <1>7, DeedTypes DEF TypeOK, session, wires, history

\* It destroys one, with what is below it.
LEMMA DestroyTypes ==
  ASSUME TypeOK, NEW g \in Games, NEW i \in Instances, destroy(g, i)
  PROVE  TypeOK'
<1>1. budget' \in Budget
  BY UsesTypes DEF destroy
<1>2. alive' \in [Games -> SUBSET Instances]
  <2>1. PICK fewer : fewer = alive[g] \ ({i} \cup Below(i))
    OBVIOUS
  <2>2. alive' = [alive EXCEPT ![g] = fewer]
    BY <2>1 DEF destroy
  <2>3. alive \in [Games -> SUBSET Instances] /\ fewer \in SUBSET Instances
    BY <2>1 DEF TypeOK
  <2> QED
    BY <2>2, <2>3, Updated
<1>3. UNCHANGED <<session, wires, value, tracked, spawned, history>> /\ Deed(g)
  BY DEF destroy
<1> QED
  BY <1>1, <1>2, <1>3, DeedTypes DEF TypeOK, session, wires, history

\* The host gives an entity to a player.
LEMMA SetAuthorityTypes ==
  ASSUME TypeOK, NEW e \in Owned, NEW peer \in Nat, setAuthority(e, peer)
  PROVE  TypeOK'
<1>1. down' \in [Clients -> [Deliveries -> Seq(Packets)]]
  <2>1. PICK list : list = <<AuthorityPacket(e, peer)>>
    OBVIOUS
  <2>2. list \in Seq(Packets) /\ <<>> \in Seq(Packets)
    BY <2>1 DEF AuthorityPacket, Packets
  <2> QED
    BY <2>1, <2>2, ToClientsTypes DEF setAuthority
<1> QED
  BY <1>1, DeedTypes, GamesAre, UsesTypes DEF TypeOK, scenes, setAuthority

\* The instances sendSpawns tells of: those that appeared, where the game decides.
LEMMA NewIs ==
  ASSUME TypeOK, NEW g \in Games
  PROVE  /\ New(g) \in Seq(Instances)
         /\ ToSet(New(g)) = {i \in alive[g] \ known(g) : isAuthority(g, SpawnerOf[i])}
<1> DEFINE new(nested) == {i \in alive[g] \ known(g) : /\ isAuthority(g, SpawnerOf[i])
                                                       /\ (Inside[SpawnerOf[i]] # Root) = nested}
<1>1. PICK outer, inner : outer = new(FALSE) /\ inner = new(TRUE)
  OBVIOUS
<1>2. outer \cup inner = {i \in alive[g] \ known(g) : isAuthority(g, SpawnerOf[i])}
  BY <1>1
<1>3. New(g) = SetToSeq(outer) \o SetToSeq(inner)
  BY <1>1 DEF New
<1>4. outer \in SUBSET Instances /\ inner \in SUBSET Instances
  BY <1>1 DEF TypeOK
<1> HIDE DEF new
<1>5. /\ SetToSeq(outer) \in Seq(Instances) /\ ToSet(SetToSeq(outer)) = outer
      /\ SetToSeq(inner) \in Seq(Instances) /\ ToSet(SetToSeq(inner)) = inner
  BY <1>4, SetToSeqLists, SeqMonotone, ReplicationAssumption, FS_Subset
<1> QED
  BY <1>2, <1>3, <1>5, ToSetConcat

\* The instances it tells to be gone: those it knew that are no more, where the game decides.
LEMMA GoneIs ==
  ASSUME TypeOK, NEW g \in Games
  PROVE  /\ Gone(g) \in Seq(Instances)
         /\ ToSet(Gone(g)) = {i \in known(g) \ alive[g] : isAuthority(g, SpawnerOf[i])}
<1>1. PICK dead : dead = {i \in Instances \ alive[g] : isAuthority(g, SpawnerOf[i])}
  OBVIOUS
<1>2. Gone(g) = Reverse(Only(spawned[g], dead))
  BY <1>1 DEF Gone
<1>3. spawned[g] \in Seq(Instances)
  BY DEF TypeOK
<1>4. Only(spawned[g], dead) \in Seq(Instances) /\ ToSet(Only(spawned[g], dead)) = known(g) \cap dead
  BY <1>3, OnlyIs DEF known
<1>5. Gone(g) \in Seq(Instances) /\ ToSet(Gone(g)) = known(g) \cap dead
  BY <1>2, <1>4, ReverseIs
<1>6. known(g) \subseteq Instances
  BY <1>3, ToSetOfSeq DEF known
<1> QED
  BY <1>1, <1>5, <1>6

\* What a game keeps of the instances once it sent.
LEMMA SendKnows ==
  ASSUME TypeOK, NEW g \in Games, NEW due, NEW lost, send(g, due, lost)
  PROVE  /\ spawned' \in [Games -> Seq(Instances)]
         /\ \A h \in Games \ {g} : known(h)' = known(h)
         /\ known(g)' = (known(g) \cup ToSet(New(g))) \ ToSet(Gone(g))
<1>1. PICK list : list = Only(spawned[g] \o New(g), Instances \ ToSet(Gone(g)))
  OBVIOUS
<1>2. spawned' = [spawned EXCEPT ![g] = list]
  BY <1>1 DEF send
<1>3. spawned \in [Games -> Seq(Instances)] /\ spawned[g] \in Seq(Instances)
  BY DEF TypeOK
<1>4. /\ spawned[g] \o New(g) \in Seq(Instances)
      /\ ToSet(spawned[g] \o New(g)) = known(g) \cup ToSet(New(g))
  BY <1>3, NewIs, ToSetConcat DEF known
<1>5. /\ list \in Seq(Instances)
      /\ ToSet(list) = (known(g) \cup ToSet(New(g))) \cap (Instances \ ToSet(Gone(g)))
  BY <1>1, <1>4, OnlyIs
<1>6. spawned' \in [Games -> Seq(Instances)]
  BY <1>2, <1>3, <1>5, Updated
<1>7. \A h \in Games \ {g} : spawned'[h] = spawned[h]
  BY <1>2, <1>3
<1>8. spawned'[g] = list
  BY <1>2, <1>3
<1> QED
  BY <1>4, <1>5, <1>6, <1>7, <1>8, ToSetOfSeq DEF known

\* What is kept of an entity whose values are sent.
LEMMA SendingIs ==
  ASSUME NEW t \in Tracked, NEW values \in Int, NEW settles \in BOOLEAN
  PROVE  Sending(t, values, settles) \in Tracked
<1>1. PICK n \in Nat : n = t.sequence + 1
  BY DEF Tracked
<1>2. Sending(t, values, settles) = [t EXCEPT !.sequence = n, !.sent = values, !.settled = settles]
  BY <1>1 DEF Sending
<1>3. [t EXCEPT !.sequence = n, !.sent = values, !.settled = settles] \in Tracked
  BY DEF Tracked
<1> QED
  BY <1>2, <1>3

\* A game sends what is new, what is gone and what changed.
LEMMA SendTypes ==
  ASSUME TypeOK, NEW g \in Games, NEW due \in SUBSET Synced, NEW lost, send(g, due, lost)
  PROVE  TypeOK'
<1> DEFINE new == New(g)
           gone == Gone(g)
           sent == Sends(g, due)
           fresh == {e \in sent : Changed(g, e)}
           valueMessage(e) == valuesMessage(e, tracked[g][e].sequence + 1, value[g][e], number[g])
           Values(es) == SetToSeq({valueMessage(e) : e \in es})
           spawns == [n \in DOMAIN new |-> spawnMessage(new[n])]
           despawns == [n \in DOMAIN gone |-> despawnMessage(gone[n])]
           reliable == spawns \o despawns \o Values(sent \ fresh)
           unreliable == Values(fresh)
<1>1. SendsEveryone(g, reliable, unreliable, lost)
  BY DEF send
<1>2. tracked' = [tracked EXCEPT ![g] = [e \in Synced |->
         CASE e \in sent -> Sending(tracked[g][e], value[g][e], Settles(g, e))
           [] Inside[e] \in ToSet(gone) -> Untracked
           [] OTHER -> tracked[g][e]]]
  BY DEF send
<1>3. spawned' \in [Games -> Seq(Instances)]
  BY SendKnows
<1>4. spawns \in Seq(Messages) /\ despawns \in Seq(Messages)
  <2>1. new \in Seq(Instances) /\ gone \in Seq(Instances)
    BY NewIs, GoneIs
  <2> HIDE DEF new, gone
  <2> QED
    BY <2>1, SpawnsAre
<1>5. ASSUME NEW es \in SUBSET Synced
      PROVE  Values(es) \in Seq(Messages)
  <2> DEFINE f == [e \in es |-> valueMessage(e)]
  <2>1. ASSUME NEW e \in es
        PROVE  valueMessage(e) \in Messages
    BY ValuesMessageIs DEF TypeOK, Tracked
  <2> HIDE DEF valueMessage
  <2>2. DOMAIN f = es /\ \A e \in es : f[e] \in Messages
    BY <2>1
  <2>3. {f[e] : e \in es} = {valueMessage(e) : e \in es}
    OBVIOUS
  <2> HIDE DEF f
  <2> QED
    BY <2>2, <2>3, ToldInSeq
<1>6. reliable \in Seq(Messages) /\ unreliable \in Seq(Messages)
  <2>1. fresh \in SUBSET Synced /\ sent \ fresh \in SUBSET Synced
    BY DEF Sends
  <2> HIDE DEF fresh, sent, spawns, despawns
  <2> HIDE DEF Values
  <2> QED
    BY <1>4, <1>5, <2>1, ToSetConcat
<1>7. /\ down' \in [Clients -> [Deliveries -> Seq(Packets)]]
      /\ up' \in [Clients -> [Deliveries -> Seq(Messages)]]
  <2> HIDE DEF reliable, unreliable
  <2> QED
    BY <1>1, <1>6, SendsEveryoneTypes
<1>8. tracked' \in [Games -> [Synced -> Tracked]]
  <2> DEFINE after(e) == Sending(tracked[g][e], value[g][e], Settles(g, e))
             kept == [e \in Synced |-> CASE e \in sent -> after(e)
                                         [] Inside[e] \in ToSet(gone) -> Untracked
                                         [] OTHER -> tracked[g][e]]
  <2>1. ASSUME NEW e \in Synced
        PROVE  after(e) \in Tracked
    <3>1. PICK t \in Tracked : t = tracked[g][e]
      BY DEF TypeOK
    <3>2. PICK settles \in BOOLEAN : settles = Settles(g, e)
      BY DEF Settles
    <3> QED
      BY <3>1, <3>2, SendingIs DEF TypeOK
  <2>2. tracked[g] \in [Synced -> Tracked] /\ tracked \in [Games -> [Synced -> Tracked]]
    BY DEF TypeOK
  <2> HIDE DEF after, sent, gone
  <2>3. kept \in [Synced -> Tracked]
    BY <2>1, <2>2, UntrackedIs
  <2>4. tracked' = [tracked EXCEPT ![g] = kept]
    BY <1>2 DEF after
  <2> HIDE DEF kept
  <2> QED
    BY <2>2, <2>3, <2>4, Updated
<1> QED
  BY <1>3, <1>7, <1>8 DEF TypeOK, session, history, send

-----------------------------------------------------------------------------
(* The invariant *)

\* What appeared in a frame is known once the frame sent, and until then the game decides for where
\* it was placed; a client remembers the session it is in until it put it away.
Remembered(c) ==
  /\ Online(c) => wasClient[c]
  /\ phase[c] = "poll" => alive[c] \subseteq known(c)
  /\ phase[c] = "frame" => \A i \in alive[c] \ known(c) : isAuthority(c, SpawnerOf[i])
  /\ ~Online(c) /\ ~wasClient[c] => alive[c] \subseteq strays[c]

Inv == TypeOK /\ \A c \in Clients : Remembered(c)

\* Scenes are empty at first, and nobody is in the session.
LEMMA InitInv == Init => Inv
<1> SUFFICES ASSUME Init PROVE Inv
  OBVIOUS
<1>1. TypeOK
  <2>1. /\ number \in [Games -> Nat] /\ client \in [Clients -> Nat] /\ nextPeer \in Nat
        /\ linked \in [Clients -> BOOLEAN] /\ wasClient \in [Clients -> BOOLEAN]
        /\ phase \in [Games -> {"poll", "frame"}] /\ events \in [Games -> Seq(Events)]
        /\ untold \in SUBSET Instances
    BY DEF Init, hostPeer
  <2>2. authority \in [Games -> [Owned -> Nat]]
    BY NoAuthorityIs DEF Init
  <2>3. /\ down \in [Clients -> [Deliveries -> Seq(Packets)]]
        /\ up \in [Clients -> [Deliveries -> Seq(Messages)]]
    BY SilentIs DEF Init
  <2>4. value \in [Games -> [Synced -> Nat]]
    BY DEF Init
  <2>5. tracked \in [Games -> [Synced -> Tracked]]
    BY UntrackedIs DEF Init
  <2>6. alive \in [Games -> SUBSET Instances] /\ strays \in [Clients -> SUBSET Instances]
    BY DEF Init
  <2>7. spawned \in [Games -> Seq(Instances)]
    BY DEF Init
  <2>8. budget \in Budget
    BY ReplicationAssumption DEF Init
  <2> QED
    BY <2>1, <2>2, <2>3, <2>4, <2>5, <2>6, <2>7, <2>8 DEF TypeOK
<1>2. ASSUME NEW c \in Clients PROVE Remembered(c)
  BY GamesAre DEF Init, Remembered, Online
<1> QED
  BY <1>1, <1>2 DEF Inv

\* Who a client is, decides for and remembers is what its session and its receive() make of it.
Alike(c) ==
  /\ number'[c] = number[c] /\ authority'[c] = authority[c] /\ wasClient'[c] = wasClient[c]
  /\ phase'[c] = phase[c] /\ alive'[c] = alive[c] /\ spawned'[c] = spawned[c] /\ strays'[c] = strays[c]

\* What a step leaves of a client leaves what is said of it.
LEMMA AlikeRemembered ==
  ASSUME NEW c \in Clients, Remembered(c), Alike(c)
  PROVE  Remembered(c)'
BY DEF Remembered, Alike, Online, known, isAuthority

\* A step of the session: the scene of a client stays, and it is in the first part of its frame when
\* who decides changes.
LEMMA SessionRemembered ==
  ASSUME TypeOK, NEW c \in Clients, Remembered(c), NEW d \in Clients,
         \/ clientConnected(d) \/ clientLeft(d) \/ disconnected(d)
         \/ \E delivery \in Deliveries : relay(d, delivery) \/ received(d, delivery)
  PROVE  Remembered(c)'
<1>1. UNCHANGED <<phase, scenes, history>>
  BY DEF clientConnected, clientLeft, disconnected, relay, received, Polls
<1>2. CASE clientConnected(d) \/ clientLeft(d) \/ \E delivery \in Deliveries : relay(d, delivery)
  <2>1. number' = number /\ wasClient' = wasClient
    BY <1>2 DEF clientConnected, clientLeft, relay, session
  <2>2. authority'[c] = authority[c]
    BY <1>2, GamesAre DEF clientConnected, clientLeft, relay, session, TypeOK
  <2> QED
    BY <1>1, <2>1, <2>2, AlikeRemembered DEF Alike, scenes, history
<1>3. CASE disconnected(d)
  <2>1. /\ phase[d] = "poll" /\ Online(d) /\ wasClient' = wasClient
        /\ number' = [number EXCEPT ![d] = 0] /\ authority' = [authority EXCEPT ![d] = NoAuthority]
    BY <1>3 DEF disconnected, Polls, Closes
  <2>2. CASE c = d
    BY <1>1, <2>1, <2>2, GamesAre DEF Remembered, Online, known, scenes, history, TypeOK
  <2>3. CASE c # d
    BY <1>1, <2>1, <2>3, AlikeRemembered, GamesAre DEF Alike, scenes, history, TypeOK
  <2> QED
    BY <2>2, <2>3
<1>4. ASSUME NEW delivery \in Deliveries, received(d, delivery)
      PROVE  Remembered(c)'
  <2>1. phase[d] = "poll"
    BY <1>4 DEF received, Polls
  <2>2. PICK packet : packet = Head(down[d][delivery])
    OBVIOUS
  <2>3. CASE c # d
    BY <1>1, <1>4, <2>3, AlikeRemembered, GamesAre DEF Alike, scenes, history, received, TypeOK
  <2>4. CASE c = d
    <3>1. strays' = strays
      BY <1>1 DEF history
    <3> QED
      BY <1>1, <1>4, <2>1, <2>2, <2>4, <3>1 DEF Remembered, Online, TypeOK, received, known, scenes
  <2> QED
    BY <2>3, <2>4
<1> QED
  BY <1>2, <1>3, <1>4

\* The session that is put away had made known all there is: nothing stays.
LEMMA LeftSessionRemembered ==
  ASSUME TypeOK, NEW c \in Clients, Remembered(c), NEW d \in Clients, leftSession(d)
  PROVE  Remembered(c)'
<1>1. UNCHANGED <<session, history>> /\ phase[d] = "poll" /\ ~Online(d)
  BY DEF leftSession, Left
<1>2. CASE c # d
  <2>1. /\ wasClient'[c] = wasClient[c] /\ phase'[c] = phase[c] /\ alive'[c] = alive[c]
        /\ spawned'[c] = spawned[c]
    BY <1>2 DEF leftSession, TypeOK
  <2> QED
    BY <1>1, <2>1, AlikeRemembered DEF Alike, session, history
<1>3. CASE c = d
  <2>1. PICK left : left = {i \in alive[c] : i \notin known(c) /\ \A j \in known(c) : i \notin Below(j)}
    OBVIOUS
  <2> QED
    BY <1>1, <1>3, <2>1, GamesAre DEF Remembered, TypeOK, leftSession, Online, session
<1> QED
  BY <1>2, <1>3

\* A client that leaves decides for everything, so that its send() will know what it placed.
LEMMA LeaveRemembered ==
  ASSUME TypeOK, NEW c \in Clients, Remembered(c), NEW d \in Clients, leave(d)
  PROVE  Remembered(c)'
<1>1. UNCHANGED <<scenes, history, wasClient>> /\ Online(d)
  BY DEF leave, Closes
<1>2. /\ number' = [number EXCEPT ![d] = 0] /\ authority' = [authority EXCEPT ![d] = NoAuthority]
      /\ phase' = [phase EXCEPT ![d] = "frame"]
  BY DEF leave, Closes
<1>3. CASE c # d
  BY <1>1, <1>2, <1>3, AlikeRemembered, GamesAre DEF Alike, scenes, history, TypeOK
<1>4. CASE c = d
  BY <1>1, <1>2, <1>4, GamesAre DEF Remembered, Online, isAuthority, TypeOK
<1> QED
  BY <1>3, <1>4

\* An instance that appears is known at once, and a stray when the session is over.
LEMMA ReceiveSpawnRemembered ==
  ASSUME TypeOK, NEW c \in Clients, Remembered(c), NEW g \in Games, receiveSpawn(g)
  PROVE  Remembered(c)'
<1> DEFINE event == Head(events[g])
           i == event.message.instance
           taken == mayDecide(g, event, SpawnerOf[i]) /\ Exists(g, SpawnerOf[i]) /\ i \notin known(g)
<1>1. Handles(g, "Replication") /\ event.message.kind = "Spawn"
  BY DEF receiveSpawn
<1>2. UNCHANGED <<session, wasClient>> /\ phase' = [phase EXCEPT ![g] = "frame"]
  BY <1>1 DEF Handles
<1>3. i \in Instances
  BY <1>1, HandlesTypes, MessagesAre
<1>4. PICK more, longer, told :
        more = alive[g] \cup {i} /\ longer = Append(spawned[g], i) /\ told = strays[g] \cup {i}
  OBVIOUS
<1>5. \/ alive' = [alive EXCEPT ![g] = more] /\ spawned' = [spawned EXCEPT ![g] = longer]
      \/ alive' = alive /\ spawned' = spawned
  BY <1>4 DEF receiveSpawn
<1>6. strays' = IF Online(g) THEN strays ELSE [strays EXCEPT ![g] = told]
  BY <1>4 DEF receiveSpawn
<1>7. CASE c # g
  BY <1>2, <1>5, <1>6, <1>7, AlikeRemembered, GamesAre DEF Alike, session, TypeOK
<1>8. CASE c = g
  <2>1. \/ alive'[c] = alive[c] \cup {i} /\ known(c)' = known(c) \cup {i}
        \/ alive'[c] = alive[c] /\ known(c)' = known(c)
    <3>1. ToSet(longer) = ToSet(spawned[c]) \cup {i}
      <4> HIDE DEF i
      <4> QED
        BY <1>3, <1>4, <1>8, ToSetAppend DEF TypeOK
    <3>2. CASE alive' = [alive EXCEPT ![g] = more] /\ spawned' = [spawned EXCEPT ![g] = longer]
      BY <1>4, <1>8, <3>1, <3>2 DEF known, TypeOK
    <3>3. CASE alive' = alive /\ spawned' = spawned
      BY <3>3 DEF known
    <3> QED
      BY <1>5, <3>2, <3>3
  <2> HIDE DEF i
  <2> QED
    BY <1>2, <1>4, <1>6, <1>8, <2>1 DEF Remembered, isAuthority, Online, TypeOK, session
<1> QED
  BY <1>7, <1>8

\* Fewer instances, one it may forget, leave what is said of a client as it is.
LEMMA FewerRemembered ==
  ASSUME TypeOK, NEW c \in Clients, Remembered(c), NEW gone,
         number'[c] = number[c], authority'[c] = authority[c], wasClient'[c] = wasClient[c],
         phase'[c] = "frame", strays'[c] = strays[c], alive'[c] \subseteq alive[c] \ gone,
         known(c) \ gone \subseteq known(c)'
  PROVE  Remembered(c)'
<1>1. \A j \in alive[c] \ known(c) : isAuthority(c, SpawnerOf[j])
  BY GamesAre DEF Remembered, TypeOK
<1>2. \A j : isAuthority(c, SpawnerOf[j])' <=> isAuthority(c, SpawnerOf[j])
  BY DEF isAuthority, Online
<1>3. Online(c)' <=> Online(c)
  BY DEF Online
<1> QED
  BY <1>1, <1>2, <1>3 DEF Remembered

\* What a game forgets is in its scene no more.
LEMMA ReceiveDespawnRemembered ==
  ASSUME TypeOK, NEW c \in Clients, Remembered(c), NEW g \in Games, receiveDespawn(g)
  PROVE  Remembered(c)'
<1> DEFINE event == Head(events[g])
           i == event.message.instance
           may == mayDecide(g, event, SpawnerOf[i])
<1>1. UNCHANGED <<session, wasClient, strays>> /\ phase' = [phase EXCEPT ![g] = "frame"]
  BY DEF receiveDespawn, Handles
<1>2. PICK fewer : fewer = alive[g] \ ({i} \cup Below(i))
  OBVIOUS
<1>3. \/ alive' = [alive EXCEPT ![g] = fewer] /\ Forgets(g, i)
      \/ alive' = alive /\ spawned' = spawned
  BY <1>2 DEF receiveDespawn
<1> HIDE DEF i
<1>4. CASE c # g
  BY <1>1, <1>3, <1>4, AlikeRemembered, GamesAre, ForgetsTypes DEF Alike, session, TypeOK
<1>5. CASE c = g
  <2>1. \/ alive'[c] \subseteq alive[c] \ {i} /\ known(c) \ {i} \subseteq known(c)'
        \/ alive' = alive /\ spawned' = spawned
    <3>1. CASE alive' = [alive EXCEPT ![g] = fewer] /\ Forgets(g, i)
      BY <1>2, <1>5, <3>1, ForgetsTypes DEF known, TypeOK
    <3> QED
      BY <1>3, <3>1
  <2>2. PICK gone : gone \in {{i}, {}} /\ alive'[c] \subseteq alive[c] \ gone /\ known(c) \ gone \subseteq known(c)'
    <3>1. CASE alive'[c] \subseteq alive[c] \ {i} /\ known(c) \ {i} \subseteq known(c)'
      BY <3>1
    <3>2. CASE alive' = alive /\ spawned' = spawned
      BY <3>2 DEF known
    <3> QED
      BY <2>1, <3>1, <3>2
  <2> QED
    BY <1>1, <1>5, <2>2, FewerRemembered DEF session, TypeOK
<1> QED
  BY <1>4, <1>5

\* Values, and what the host does of its own, leave the scenes of the clients.
LEMMA ScenesStay ==
  ASSUME TypeOK, NEW c \in Clients, Remembered(c), NEW g \in Games,
         number' = number, authority'[c] = authority[c], wasClient' = wasClient, alive' = alive,
         spawned' = spawned, strays' = strays, phase' = [phase EXCEPT ![g] = "frame"]
  PROVE  Remembered(c)'
<1>1. CASE c # g
  <2>1. phase'[c] = phase[c]
    BY <1>1
  <2> QED
    BY <2>1, AlikeRemembered DEF Alike
<1>2. CASE c = g
  <2>1. phase'[c] = "frame"
    BY <1>2 DEF TypeOK
  <2>2. alive'[c] \subseteq alive[c] \ {} /\ known(c) \ {} \subseteq known(c)'
    BY DEF known
  <2> QED
    BY <2>1, <2>2, FewerRemembered
<1> QED
  BY <1>1, <1>2

\* A game places in its frame, under what it decides for.
LEMMA PlaceRemembered ==
  ASSUME TypeOK, NEW c \in Clients, Remembered(c), NEW g \in Games, NEW i \in Instances, place(g, i)
  PROVE  Remembered(c)'
<1>1. UNCHANGED <<session, wasClient, spawned, history>> /\ phase' = [phase EXCEPT ![g] = "frame"]
  BY DEF place, Deed
<1>2. Online(g) /\ isAuthority(g, SpawnerOf[i])
  BY DEF place, Deed
<1>3. PICK more : more = alive[g] \cup {i}
  OBVIOUS
<1>4. alive' = [alive EXCEPT ![g] = more]
  BY <1>3 DEF place
<1>5. CASE c # g
  BY <1>1, <1>4, <1>5, AlikeRemembered, GamesAre DEF Alike, session, history, TypeOK
<1>6. CASE c = g
  BY <1>1, <1>2, <1>3, <1>4, <1>6, GamesAre DEF Remembered, Online, session, known, isAuthority, TypeOK
<1> QED
  BY <1>5, <1>6

\* What it destroys it may know still.
LEMMA DestroyRemembered ==
  ASSUME TypeOK, NEW c \in Clients, Remembered(c), NEW g \in Games, NEW i \in Instances, destroy(g, i)
  PROVE  Remembered(c)'
<1>1. UNCHANGED <<session, wasClient, spawned, history>> /\ phase' = [phase EXCEPT ![g] = "frame"]
  BY DEF destroy, Deed
<1>2. PICK fewer : fewer = alive[g] \ ({i} \cup Below(i))
  OBVIOUS
<1>3. alive' = [alive EXCEPT ![g] = fewer]
  BY <1>2 DEF destroy
<1>4. CASE c # g
  <2>1. alive'[c] = alive[c] /\ phase'[c] = phase[c]
    BY <1>1, <1>3, <1>4, GamesAre DEF TypeOK
  <2> QED
    BY <1>1, <2>1, AlikeRemembered DEF Alike, session, history
<1>5. CASE c = g
  <2>1. alive'[c] \subseteq alive[c] \ {} /\ phase'[c] = "frame" /\ known(c) \ {} \subseteq known(c)'
    BY <1>1, <1>2, <1>3, <1>5 DEF TypeOK, known
  <2> QED
    BY <1>1, <2>1, FewerRemembered DEF session, history
<1> QED
  BY <1>4, <1>5

\* send() makes known whatever appeared, and forgets only what is gone.
LEMMA SendRemembered ==
  ASSUME TypeOK, NEW c \in Clients, Remembered(c), NEW g \in Games, NEW due, NEW lost, send(g, due, lost)
  PROVE  Remembered(c)'
<1>1. UNCHANGED <<session, wasClient, alive, history>> /\ phase' = [phase EXCEPT ![g] = "poll"]
  BY DEF send
<1>2. CASE c # g
  BY <1>1, <1>2, GamesAre, SendKnows DEF Remembered, history, Online, isAuthority, session
<1>3. CASE c = g
  <2>1. known(c)' = (known(c) \cup ToSet(New(c))) \ ToSet(Gone(c)) /\ phase'[c] = "poll"
    BY <1>1, <1>3, SendKnows DEF TypeOK
  <2> QED
    BY <1>1, <1>3, <2>1, NewIs, GoneIs, GamesAre DEF Remembered, history, Online, session, TypeOK
<1> QED
  BY <1>2, <1>3

\* Every step keeps the invariant: one case for each action.
LEMMA NextInv ==
  ASSUME Inv, [Next]_vars
  PROVE  Inv'
<1> USE DEF Inv
<1>1. ASSUME NEW c \in Clients,
             clientConnected(c) \/ clientLeft(c) \/ disconnected(c) \/ \E d \in Deliveries : relay(c, d) \/ received(c, d)
      PROVE  Inv'
  <2>1. TypeOK'
    BY <1>1, ClientConnectedTypes, ClientLeftTypes, DisconnectedTypes, RelayTypes, ReceivedTypes
  <2> QED
    BY <1>1, <2>1, SessionRemembered
<1>2. ASSUME NEW c \in Clients, leftSession(c)
      PROVE  Inv'
  BY <1>2, LeftSessionTypes, LeftSessionRemembered
<1>3. ASSUME NEW c \in Clients, leave(c)
      PROVE  Inv'
  BY <1>3, LeaveTypes, LeaveRemembered
<1>4. ASSUME NEW g \in Games, receiveSpawn(g)
      PROVE  Inv'
  BY <1>4, ReceiveSpawnTypes, ReceiveSpawnRemembered
<1>5. ASSUME NEW g \in Games, receiveDespawn(g)
      PROVE  Inv'
  BY <1>5, ReceiveDespawnTypes, ReceiveDespawnRemembered
<1>6. ASSUME NEW g \in Games, NEW lost, receiveValues(g, lost)
      PROVE  Inv'
  <2>1. ASSUME NEW c \in Clients PROVE Remembered(c)'
    BY <1>6, ScenesStay DEF session, history, receiveValues, Handles
  <2> QED
    BY <1>6, <2>1, ReceiveValuesTypes
<1>7. ASSUME NEW g \in Games, NEW due \in SUBSET Synced, NEW lost, send(g, due, lost)
      PROVE  Inv'
  BY <1>7, SendTypes, SendRemembered
<1>8. ASSUME NEW g \in Games, NEW e \in Synced, write(g, e)
      PROVE  Inv'
  <2>1. ASSUME NEW c \in Clients PROVE Remembered(c)'
    BY <1>8, ScenesStay DEF session, history, write, Deed
  <2> QED
    BY <1>8, <2>1, WriteTypes
<1>9. ASSUME NEW g \in Games, NEW i \in Instances, place(g, i) \/ destroy(g, i)
      PROVE  Inv'
  BY <1>9, PlaceTypes, DestroyTypes, PlaceRemembered, DestroyRemembered
<1>10. CASE welcome
  <2>1. ASSUME NEW c \in Clients PROVE Remembered(c)'
    BY <1>10, ScenesStay, GamesAre DEF session, history, welcome, Handles
  <2> QED
    BY <1>10, <2>1, WelcomeTypes
<1>11. ASSUME NEW e \in Owned, NEW peer \in {hostPeer} \cup {client[c] : c \in Peers}, setAuthority(e, peer)
       PROVE  Inv'
  <2>1. ASSUME NEW c \in Clients PROVE Remembered(c)'
    BY <1>11, ScenesStay, GamesAre DEF setAuthority, Deed, scenes, TypeOK
  <2> QED
    BY <1>11, <2>1, SetAuthorityTypes DEF Peers, TypeOK, hostPeer
<1>12. CASE UNCHANGED vars
  <2>1. ASSUME NEW c \in Clients PROVE Remembered(c)'
    BY <1>12, AlikeRemembered DEF Alike, vars, session, scenes, history
  <2> QED
    BY <1>12, <2>1 DEF vars, session, wires, scenes, history, TypeOK
<1> QED
  BY <1>1, <1>2, <1>3, <1>4, <1>5, <1>6, <1>7, <1>8, <1>9, <1>10, <1>11, <1>12 DEF Next

\* The invariant holds of every behaviour.
THEOREM Invariance == Spec => []Inv
<1>1. Inv /\ [Next]_vars => Inv'
  BY NextInv
<1> QED
  BY InitInv, <1>1, PTL DEF Spec

\* Every variable has its type, and every packet and event is one the code builds.
THEOREM TypeCorrect == Spec => []TypeOK
<1>1. Inv => TypeOK
  BY DEF Inv
<1> QED
  BY Invariance, <1>1, PTL

\* What appeared in the scene of a client during a session is gone with it (leftSession): a frame
\* sends whatever appeared in it, or the game could not have placed it.
THEOREM SessionsLeaveNothing == Spec => []LeavesNothingBehind
<1>1. Inv => LeavesNothingBehind
  BY DEF Inv, Remembered, LeavesNothingBehind
<1> QED
  BY Invariance, <1>1, PTL

-----------------------------------------------------------------------------
(* The order of what a sequence holds *)

-----------------------------------------------------------------------------
(* What the games agree on, by the kinds of step a session takes. *)

\* What is over an instance is over what is in it.
LEMMA OverIs ==
  ASSUME NEW i \in Instances
  PROVE  /\ i \in Over(i) /\ Over(i) \subseteq Instances
         /\ \A j \in Over(i) : j \in Over(j) /\ Over(j) \subseteq Over(i) /\ (j # i => Over(j) = {j})
<1>1. Root \notin Instances /\ SpawnerOf \in [Instances -> Spawners] /\ Inside \in [Owned -> Instances \cup {Root}]
      /\ \A s \in Spawners : Inside[s] # Root => Inside[SpawnerOf[Inside[s]]] = Root
  BY ReplicationAssumption
<1>2. SpawnerOf[i] \in Spawners
  BY <1>1
<1>3. ASSUME Above(i) \in Instances
      PROVE  Above(Above(i)) = Root
  BY <1>1, <1>2, <1>3 DEF Above
<1> QED
  BY <1>1, <1>3 DEF Over

\* What a step leaves as it is.
SameScenes(i) ==
  \A j \in Over(i) :
    /\ Free(j)' <=> Free(j)
    /\ \A g \in Games : (In(g, j)' <=> In(g, j)) /\ (Knows(g, j)' <=> Knows(g, j))
SameNews(i) == \A c \in Clients : News(c, i)' = News(c, i)
SameReports(i) == \A c \in Clients : Reports(c, i)' = Reports(c, i)
StillAtIt(i) ==
  \A g \in Games, j \in Over(i) :
    /\ Going(g, j) => Going(g, j)'
    /\ Placing(g, j) /\ In(g, j) /\ ~Knows(g, j) => Placing(g, j)'
SameMembers(i) ==
  \A c \in Clients :
    /\ Online(c)' => Online(c) \/ Reports(c, i) = <<>>
    /\ c \in Reached' /\ ~Newcomer(c)' => c \in Reached
    /\ Newcomer(c) => Newcomer(c)'
    /\ Newcomer(c)' => Newcomer(c) \/ News(c, i) = <<>>

\* The games agree after a step that says nothing of i, and changes nothing of it.
LEMMA CalmAgreed ==
  ASSUME NEW i \in Instances, Agreed(i), SameScenes(i), SameNews(i), SameReports(i), StillAtIt(i), SameMembers(i),
         HeardOnce(i)', HostOrder(i)'
  PROVE  Agreed(i)'
<1>1. \A c \in Clients, j \in Over(i) :
        /\ Hears(i, c, j)' <=> Hears(i, c, j)
        /\ HearsGone(i, c, j)' <=> HearsGone(i, c, j)
        /\ Tells(i, c, j)' <=> Tells(i, c, j)
        /\ TellsGone(i, c, j)' <=> TellsGone(i, c, j)
  BY DEF SameNews, SameReports, Hears, HearsGone, Tells, TellsGone
<1>2. \A c \in Clients, j \in Over(i) :
        /\ Reports(c, i) = <<>> => ~Tells(i, c, j) /\ ~TellsGone(i, c, j)
        /\ News(c, i) = <<>> => ~Hears(i, c, j)
  BY DEF Hears, Tells, TellsGone, ToSet
<1>3. \A j \in Over(i) : Silence(i, j)' <=> Silence(i, j)
  BY <1>1 DEF Silence
<1>4. Unplaced(i)'
  BY <1>3, OverIs DEF Agreed, Unplaced, SameScenes
<1>5. Placed(i)'
  BY <1>3, OverIs DEF Agreed, Placed, SameScenes, Alone, StillAtIt
<1>6. \A c \in Clients, j \in Over(i) : Leaving(i, c, j) => Leaving(i, c, j)'
  BY <1>1, OverIs, GamesAre DEF StillAtIt, Leaving
<1>7. \A j \in Over(i) : Dead(i, j)' <=> Dead(i, j)
  BY <1>1, GamesAre DEF Dead, SameScenes
<1>8. Reported(i)'
  BY <1>2, <1>1, <1>6, <1>7, OverIs, GamesAre DEF Agreed, Reported, SameScenes, Alone, SameReports, SameMembers
<1>9. Nested(i)'
  BY OverIs DEF Agreed, Nested, SameScenes
<1>10. GoneIsDead(i)' /\ GoneIsLast(i)'
  BY <1>1, <1>7 DEF Agreed, GoneIsDead, GoneIsLast, SameNews
<1>11. OuterFirst(i)'
  BY <1>1, OverIs, GamesAre DEF Agreed, OuterFirst, SameScenes, SameNews, SameMembers
<1>12. Missing(i)'
  BY <1>1, <1>6, <1>7, OverIs, GamesAre DEF Agreed, Missing, SameScenes
<1>13. Retracted(i)'
  BY <1>2, <1>1, GamesAre DEF Agreed, Retracted, SameScenes, SameMembers
<1>14. ClientsFollow(i)'
  BY <1>1, <1>6, GamesAre DEF Agreed, ClientsFollow, SameScenes, SameMembers
<1>15. HostFollows(i)'
  BY <1>2, <1>1, OverIs, GamesAre DEF Agreed, HostFollows, SameScenes, StillAtIt, SameMembers
<1> QED
  BY <1>4, <1>5, <1>8, <1>9, <1>10, <1>11, <1>12, <1>13, <1>14, <1>15 DEF Agreed

\* What is known of what is on its way to and from a client.
LEMMA WordsAre ==
  ASSUME NEW i
  PROVE  \A c \in Clients, j \in Over(i) :
           /\ Reports(c, i) = <<>> => ~Tells(i, c, j) /\ ~TellsGone(i, c, j)
           /\ News(c, i) = <<>> => ~Hears(i, c, j) /\ ~HearsGone(i, c, j)
           /\ c \notin Reached => News(c, i) = <<>>
BY DEF Hears, HearsGone, Tells, TellsGone, ToSet, News

\* A client that is gone, or that the host learned is gone, is no longer agreed with.
Departs(c, i) ==
  /\ ~Online(c)' /\ c \notin Reached'
  /\ Reports(c, i)' = Reports(c, i) \/ Reports(c, i)' = <<>>
  /\ \A d \in Clients \ {c} :
       /\ News(d, i)' = News(d, i) /\ Reports(d, i)' = Reports(d, i)
       /\ Online(d)' <=> Online(d)
       /\ Newcomer(d)' <=> Newcomer(d)
       /\ d \in Reached' => d \in Reached
  /\ \A j \in Over(i) :
       /\ Free(j)' <=> Free(j)
       /\ \A g \in Games \ {c} :
            /\ In(g, j)' <=> In(g, j)
            /\ Knows(g, j)' <=> Knows(g, j)
            /\ Going(g, j) => Going(g, j)'
            /\ Placing(g, j) /\ In(g, j) /\ ~Knows(g, j) => Placing(g, j)'

\* The games agree after a client left, with what it had yet to hear and to tell.
LEMMA DepartAgreed ==
  ASSUME NEW i \in Instances, NEW c \in Clients, Agreed(i), Departs(c, i), HeardOnce(i)', HostOrder(i)'
  PROVE  Agreed(i)'
<1>0. \A j \in Over(i) :
        /\ ~In(c, j)' /\ ~Knows(c, j)' /\ ~Hears(i, c, j)' /\ ~HearsGone(i, c, j)'
        /\ Tells(i, c, j)' => Tells(i, c, j)
        /\ TellsGone(i, c, j)' => TellsGone(i, c, j)
  <2>1. News(c, i)' = <<>>
    BY DEF Departs, News
  <2> QED
    BY <2>1 DEF Departs, In, Knows, Hears, HearsGone, Tells, TellsGone, ToSet
<1>1. \A d \in Clients, j \in Over(i) : d # c =>
        /\ Hears(i, d, j)' <=> Hears(i, d, j)
        /\ HearsGone(i, d, j)' <=> HearsGone(i, d, j)
        /\ Tells(i, d, j)' <=> Tells(i, d, j)
        /\ TellsGone(i, d, j)' <=> TellsGone(i, d, j)
  BY DEF Departs, Hears, HearsGone, Tells, TellsGone
<1>2. \A j \in Over(i) : Silence(i, j) => Silence(i, j)'
  BY <1>0, <1>1 DEF Silence
<1>3. \A j \in Over(i), g \in Games : Alone(g, j) => Alone(g, j)'
  BY <1>0 DEF Alone, Departs
<1>4. Unplaced(i)'
  BY <1>0, <1>2, OverIs DEF Agreed, Unplaced, Departs
<1>5. Placed(i)'
  BY <1>0, <1>2, <1>3, OverIs DEF Agreed, Placed, Departs
<1>6. \A d \in Clients, j \in Over(i) : d # c /\ Leaving(i, d, j) => Leaving(i, d, j)'
  BY <1>1, OverIs, GamesAre DEF Departs, Leaving
<1>7. \A j \in Over(i) : Dead(i, j) => Dead(i, j)'
  BY <1>0, <1>1, GamesAre DEF Dead, Departs
<1>8. Reported(i)'
  <2> SUFFICES ASSUME NEW k \in Over(i), NEW d \in Clients, Tells(i, d, k)'
               PROVE  /\ \A j \in Over(i) : k \in Over(j) =>
                           /\ Alone(d, j)'
                           /\ Never(Reports(d, i)', {spawnMessage(j), despawnMessage(j)}, spawnMessage(k))
                           /\ \A e \in Clients : /\ ~Hears(i, e, j)' /\ ~HearsGone(i, e, j)'
                                                 /\ e # d => ~Tells(i, e, j)' /\ ~TellsGone(i, e, j)'
                      /\ Online(d)' => \/ In(d, k)' \/ Leaving(i, d, k)'
                                       \/ \E l \in Over(k) \ {k} : Dead(i, l)'
    BY DEF Reported
  <2>1. Tells(i, d, k) /\ Reports(d, i)' = Reports(d, i)
    BY <1>0, <1>1 DEF Departs, Tells, ToSet
  <2>2. Online(d)' => \/ In(d, k)' \/ Leaving(i, d, k)'
                      \/ \E l \in Over(k) \ {k} : Dead(i, l)'
    BY <1>6, <1>7, <2>1, OverIs, GamesAre DEF Agreed, Reported, Departs
  <2> QED
    BY <1>0, <1>1, <1>3, <2>1, <2>2, GamesAre DEF Agreed, Reported
<1>9. Nested(i)'
  BY <1>0, OverIs DEF Agreed, Nested, Departs
<1>10. GoneIsDead(i)'
  BY <1>0, <1>1, <1>7 DEF Agreed, GoneIsDead
<1>11. GoneIsLast(i)'
  <2>1. \A d \in Clients : News(d, i)' = News(d, i) \/ News(d, i)' = <<>>
    BY DEF Departs, News
  <2> QED
    BY <2>1 DEF Agreed, GoneIsLast, Never
<1>12. OuterFirst(i)'
  BY <1>0, <1>1, OverIs, GamesAre DEF Agreed, OuterFirst, Departs
<1>13. Missing(i)'
  BY <1>0, <1>1, <1>6, <1>7, OverIs, GamesAre DEF Agreed, Missing, Departs
<1>14. Retracted(i)'
  BY <1>0, <1>1, GamesAre DEF Agreed, Retracted, Departs
<1>15. ClientsFollow(i)'
  BY <1>0, <1>1, <1>6, GamesAre DEF Agreed, ClientsFollow, Departs
<1>16. HostFollows(i)'
  BY <1>0, <1>1, OverIs, GamesAre DEF Agreed, HostFollows, Departs
<1> QED
  BY <1>4, <1>5, <1>8, <1>9, <1>10, <1>11, <1>12, <1>13, <1>14, <1>15, <1>16 DEF Agreed

\* A game places j0, that it decides for, in what it has.
Places(g, j0, i) ==
  /\ Online(g) /\ Free(j0) /\ ~Free(j0)'
  /\ \A k \in Over(j0) \ {j0} : In(g, k)
  /\ Placing(g, j0)'
  /\ \A c \in Clients :
       /\ News(c, i)' = News(c, i) /\ Reports(c, i)' = Reports(c, i)
       /\ Online(c)' <=> Online(c)
       /\ Newcomer(c)' <=> Newcomer(c)
       /\ c \in Reached' <=> c \in Reached
  /\ \A j \in Over(i) :
       /\ j # j0 => (Free(j)' <=> Free(j))
       /\ \A h \in Games :
            /\ In(h, j)' <=> In(h, j) \/ (h = g /\ j = j0)
            /\ Knows(h, j)' <=> Knows(h, j)
            /\ Going(h, j) /\ j # j0 => Going(h, j)'
            /\ Placing(h, j) => Placing(h, j)'

\* The games agree after a game placed j0, which it will tell of.
LEMMA PlaceAgreed ==
  ASSUME NEW i \in Instances, NEW g \in Games, NEW j0 \in Over(i), Agreed(i), Places(g, j0, i),
         HeardOnce(i)', HostOrder(i)'
  PROVE  Agreed(i)'
<1>1. \A c \in Clients, j \in Over(i) :
        /\ Hears(i, c, j)' <=> Hears(i, c, j)
        /\ HearsGone(i, c, j)' <=> HearsGone(i, c, j)
        /\ Tells(i, c, j)' <=> Tells(i, c, j)
        /\ TellsGone(i, c, j)' <=> TellsGone(i, c, j)
  BY DEF Places, Hears, HearsGone, Tells, TellsGone
<1>2. \A j \in Over(i) : Silence(i, j)' <=> Silence(i, j)
  BY <1>1 DEF Silence
<1>3. \A j \in Over(i) : j0 \in Over(j) =>
        Silence(i, j) /\ \A h \in Games : ~In(h, j) /\ ~Knows(h, j)
  BY DEF Agreed, Unplaced, Places
<1>4. \A j \in Over(i), h \in Games : Alone(h, j) /\ (j # j0 \/ h = g) => Alone(h, j)'
  BY DEF Alone, Places
<1>5. Unplaced(i)'
  BY <1>2, <1>3, OverIs DEF Agreed, Unplaced, Places
<1>6. Placed(i)'
  <2> SUFFICES ASSUME NEW j \in Over(i), NEW h \in Games, NEW k \in Over(j), In(h, k)', ~Knows(h, k)'
               PROVE  Placing(h, k)' /\ Alone(h, j)' /\ Silence(i, j)'
    BY DEF Placed
  <2>1. k \in Over(i) /\ j \in Over(j)
    BY OverIs
  <2>2. CASE h = g /\ k = j0
    BY <1>2, <1>3, <1>4, <2>2 DEF Places, Alone
  <2>3. CASE ~(h = g /\ k = j0)
    <3>1. In(h, k) /\ ~Knows(h, k)
      BY <2>1, <2>3 DEF Places
    <3>2. ASSUME j = j0, h # g PROVE FALSE
      BY <1>3, <2>1, <3>1, <3>2, OverIs DEF Alone, Places, Agreed, Placed
    <3> QED
      BY <1>2, <1>4, <2>1, <3>1, <3>2 DEF Places, Agreed, Placed
  <2> QED
    BY <2>2, <2>3
<1>7. \A k \in Over(i), h \in Games : Going(h, k) => k # j0
  BY <1>3, OverIs DEF Going
<1>8. \A c \in Clients, j \in Over(i) : Leaving(i, c, j) => Leaving(i, c, j)'
  BY <1>1, <1>7, OverIs, GamesAre DEF Places, Leaving
<1>9. \A j \in Over(i) : Dead(i, j) => j # j0 /\ Dead(i, j)'
  BY <1>1, GamesAre DEF Dead, Places
<1>10. Reported(i)'
  <2> SUFFICES ASSUME NEW k \in Over(i), NEW d \in Clients, Tells(i, d, k)'
               PROVE  /\ \A j \in Over(i) : k \in Over(j) =>
                           /\ Alone(d, j)'
                           /\ Never(Reports(d, i)', {spawnMessage(j), despawnMessage(j)}, spawnMessage(k))
                           /\ \A e \in Clients : /\ ~Hears(i, e, j)' /\ ~HearsGone(i, e, j)'
                                                 /\ e # d => ~Tells(i, e, j)' /\ ~TellsGone(i, e, j)'
                      /\ Online(d)' => \/ In(d, k)' \/ Leaving(i, d, k)'
                                       \/ \E l \in Over(k) \ {k} : Dead(i, l)'
    BY DEF Reported
  <2>1. Tells(i, d, k) /\ Reports(d, i)' = Reports(d, i) /\ k # j0
    BY <1>1, <1>3, OverIs DEF Places, Silence
  <2>2. ASSUME k \in Over(j0) PROVE d = g
    BY <2>1, <2>2, GamesAre, OverIs DEF Alone, Places, Agreed, Reported
  <2>3. Online(d)' => \/ In(d, k)' \/ Leaving(i, d, k)'
                      \/ \E l \in Over(k) \ {k} : Dead(i, l)'
    BY <1>8, <1>9, <2>1, OverIs, GamesAre DEF Agreed, Reported, Places
  <2> QED
    BY <1>1, <1>4, <2>1, <2>2, <2>3, GamesAre DEF Agreed, Reported
<1>11. Nested(i)'
  BY <1>3, OverIs DEF Agreed, Nested, Places
<1>12. GoneIsDead(i)' /\ GoneIsLast(i)'
  BY <1>1, <1>9 DEF Agreed, GoneIsDead, GoneIsLast, Places
<1>13. OuterFirst(i)'
  BY <1>1, <1>3, OverIs, GamesAre DEF Agreed, OuterFirst, Places, Silence
<1>14. Missing(i)'
  BY <1>1, <1>3, <1>8, <1>9, OverIs, GamesAre DEF Agreed, Missing, Places
<1>15. Retracted(i)'
  BY <1>1, <1>3, OverIs, GamesAre DEF Agreed, Retracted, Places, Silence
<1>16. ClientsFollow(i)'
  BY <1>1, <1>3, <1>8, OverIs, GamesAre DEF Agreed, ClientsFollow, Places
<1>17. HostFollows(i)'
  <2> SUFFICES ASSUME NEW j \in Over(i), NEW c \in Clients,
                      In(c, j)' \/ (Hears(i, c, j)' /\ \A k \in Over(j) \ {j} : Newcomer(c)' \/ In(c, k)' \/ Hears(i, c, k)')
               PROVE  \/ In(Host, j)' \/ (In(c, j)' /\ ~Knows(c, j)') \/ Tells(i, c, j)'
                      \/ \E k \in Over(j) : HearsGone(i, c, k)' \/ Going(Host, k)'
    BY DEF HostFollows
  <2>1. CASE j0 \in Over(j)
    BY <1>1, <1>3, <2>1, GamesAre DEF Places, Silence
  <2>2. CASE j0 \notin Over(j)
    BY <1>1, <1>7, <2>2, OverIs, GamesAre DEF Agreed, HostFollows, Places
  <2> QED
    BY <2>1, <2>2
<1> QED
  BY <1>5, <1>6, <1>10, <1>11, <1>12, <1>13, <1>14, <1>15, <1>16, <1>17 DEF Agreed

\* A game destroys j0, that it decides for, with what is in it; it does not hear of them any more.
Destroys(g, j0, i) ==
  /\ Online(g)
  /\ Knows(g, j0) => Going(g, j0)'
  /\ \A c \in Clients :
       /\ News(c, i)' = News(c, i) /\ Reports(c, i)' = Reports(c, i)
       /\ Online(c)' <=> Online(c)
       /\ Newcomer(c)' <=> Newcomer(c)
       /\ c \in Reached' <=> c \in Reached
  /\ \A j \in Over(i) :
       /\ Free(j)' <=> Free(j)
       /\ g \in Clients /\ Knows(g, j) => ~Hears(i, g, j)
       /\ \A h \in Games :
            /\ In(h, j)' <=> In(h, j) /\ ~(h = g /\ j0 \in Over(j))
            /\ Knows(h, j)' <=> Knows(h, j)
            /\ Going(h, j) => Going(h, j)'
            /\ Placing(h, j) => Placing(h, j)'

\* The games agree after a game destroyed j0, and what is in it, which it will tell of.
LEMMA DestroyAgreed ==
  ASSUME NEW i \in Instances, NEW g \in Games, NEW j0 \in Over(i), Agreed(i), Destroys(g, j0, i),
         HeardOnce(i)', HostOrder(i)'
  PROVE  Agreed(i)'
<1>1. \A c \in Clients, j \in Over(i) :
        /\ Hears(i, c, j)' <=> Hears(i, c, j)
        /\ HearsGone(i, c, j)' <=> HearsGone(i, c, j)
        /\ Tells(i, c, j)' <=> Tells(i, c, j)
        /\ TellsGone(i, c, j)' <=> TellsGone(i, c, j)
  BY DEF Destroys, Hears, HearsGone, Tells, TellsGone
<1>2. \A j \in Over(i) : Silence(i, j)' <=> Silence(i, j)
  BY <1>1 DEF Silence
\* What is destroyed is on its way out, or nobody else heard of it.
<1>3. \A j \in Over(i) : j0 \in Over(j) /\ In(g, j) =>
        Going(g, j0)' \/ (Alone(g, j) /\ Alone(g, j0) /\ Silence(i, j) /\ Silence(i, j0))
  <2> SUFFICES ASSUME NEW j \in Over(i), j0 \in Over(j), In(g, j), ~Knows(g, j0)
               PROVE  Alone(g, j) /\ Alone(g, j0) /\ Silence(i, j) /\ Silence(i, j0)
    BY DEF Destroys
  <2> QED
    BY OverIs DEF Agreed, Placed, Nested
<1>4. \A j \in Over(i), h \in Games : Alone(h, j) => Alone(h, j)'
  BY DEF Alone, Destroys
<1>5. Unplaced(i)'
  BY <1>2, OverIs DEF Agreed, Unplaced, Destroys
<1>6. Placed(i)'
  BY <1>2, <1>4, OverIs DEF Agreed, Placed, Destroys
<1>7. \A c \in Clients, j \in Over(i) : Leaving(i, c, j) => Leaving(i, c, j)'
  BY <1>1, OverIs, GamesAre DEF Destroys, Leaving
<1>8. \A j \in Over(i) : Dead(i, j) => Dead(i, j)'
  BY <1>1, GamesAre DEF Dead, Destroys
<1>9. Reported(i)'
  <2> SUFFICES ASSUME NEW k \in Over(i), NEW d \in Clients, Tells(i, d, k)'
               PROVE  /\ \A j \in Over(i) : k \in Over(j) =>
                           /\ Alone(d, j)'
                           /\ Never(Reports(d, i)', {spawnMessage(j), despawnMessage(j)}, spawnMessage(k))
                           /\ \A e \in Clients : /\ ~Hears(i, e, j)' /\ ~HearsGone(i, e, j)'
                                                 /\ e # d => ~Tells(i, e, j)' /\ ~TellsGone(i, e, j)'
                      /\ Online(d)' => \/ In(d, k)' \/ Leaving(i, d, k)'
                                       \/ \E l \in Over(k) \ {k} : Dead(i, l)'
    BY DEF Reported
  <2>1. Tells(i, d, k) /\ Reports(d, i)' = Reports(d, i)
    BY <1>1 DEF Destroys
  <2>2. Online(d)' => \/ In(d, k)' \/ Leaving(i, d, k)'
                      \/ \E l \in Over(k) \ {k} : Dead(i, l)'
    <3>1. CASE In(d, k) /\ d = g /\ j0 \in Over(k)
      BY <1>3, <2>1, <3>1 DEF Leaving, Silence
    <3>2. CASE ~(In(d, k) /\ d = g /\ j0 \in Over(k))
      BY <1>7, <1>8, <2>1, <3>2, OverIs, GamesAre DEF Agreed, Reported, Destroys
    <3> QED
      BY <3>1, <3>2
  <2> QED
    BY <1>1, <1>4, <2>1, <2>2, GamesAre DEF Agreed, Reported
<1>10. Nested(i)'
  BY OverIs DEF Agreed, Nested, Destroys
<1>11. GoneIsDead(i)' /\ GoneIsLast(i)'
  BY <1>1, <1>8 DEF Agreed, GoneIsDead, GoneIsLast, Destroys
<1>12. OuterFirst(i)'
  BY <1>1, OverIs, GamesAre DEF Agreed, OuterFirst, Destroys
<1>13. Missing(i)'
  <2> SUFFICES ASSUME NEW j \in Over(i), NEW c \in Clients, Knows(c, j)', ~In(c, j)'
               PROVE  ~Hears(i, c, j)' /\ (Leaving(i, c, j)' \/ \E k \in Over(j) : Dead(i, k)')
    BY DEF Missing
  <2>1. Knows(c, j)
    BY GamesAre DEF Destroys
  <2>2. CASE c = g /\ j0 \in Over(j) /\ In(g, j)
    BY <1>1, <2>1, <2>2 DEF Leaving, Destroys, Agreed, Nested
  <2>3. CASE ~(c = g /\ j0 \in Over(j) /\ In(g, j))
    <3>1. ~In(c, j)
      BY <2>3, GamesAre DEF Destroys
    <3> QED
      BY <1>1, <1>7, <1>8, <2>1, <3>1, OverIs, GamesAre DEF Agreed, Missing
  <2> QED
    BY <2>2, <2>3
<1>14. Retracted(i)'
  BY <1>1, GamesAre DEF Agreed, Retracted, Destroys
<1>15. ClientsFollow(i)'
  <2> SUFFICES ASSUME NEW j \in Over(i), NEW c \in Clients, c \in Reached', ~Newcomer(c)', In(Host, j)', Knows(Host, j)'
               PROVE  Hears(i, c, j)' \/ In(c, j)' \/ Leaving(i, c, j)'
    BY DEF ClientsFollow
  <2>1. c \in Reached /\ ~Newcomer(c) /\ In(Host, j) /\ Knows(Host, j) /\ c \in Games /\ c # Host
    BY GamesAre DEF Destroys
  <2>2. CASE c = g /\ j0 \in Over(j) /\ In(g, j)
    BY <1>3, <2>1, <2>2, GamesAre DEF Leaving, Alone
  <2>3. CASE ~(c = g /\ j0 \in Over(j) /\ In(g, j))
    BY <1>1, <1>7, <2>1, <2>3 DEF Agreed, ClientsFollow, Destroys
  <2> QED
    BY <2>2, <2>3
<1>16. HostFollows(i)'
  <2> SUFFICES ASSUME NEW j \in Over(i), NEW c \in Clients,
                      In(c, j)' \/ (Hears(i, c, j)' /\ \A k \in Over(j) \ {j} : Newcomer(c)' \/ In(c, k)' \/ Hears(i, c, k)')
               PROVE  \/ In(Host, j)' \/ (In(c, j)' /\ ~Knows(c, j)') \/ Tells(i, c, j)'
                      \/ \E k \in Over(j) : HearsGone(i, c, k)' \/ Going(Host, k)'
    BY DEF HostFollows
  <2>1. c \in Games /\ c # Host /\ Over(j) \subseteq Over(i)
    BY OverIs, GamesAre
  <2>2. In(c, j) \/ (Hears(i, c, j) /\ \A k \in Over(j) \ {j} : Newcomer(c) \/ In(c, k) \/ Hears(i, c, k))
    BY <1>1, <2>1 DEF Destroys
  <2>3. CASE g = Host /\ j0 \in Over(j) /\ In(g, j)
    BY <1>3, <2>1, <2>2, <2>3 DEF Alone, Silence
  <2>4. CASE ~(g = Host /\ j0 \in Over(j) /\ In(g, j))
    <3>1. CASE In(c, j) /\ ~Knows(c, j) /\ ~In(c, j)'
      BY <1>1, <2>1, <3>1, OverIs DEF Silence, Agreed, Placed
    <3> QED
      BY <1>1, <2>1, <2>2, <2>4, <3>1, GamesAre DEF Destroys, Agreed, HostFollows
  <2> QED
    BY <2>3, <2>4
<1> QED
  BY <1>5, <1>6, <1>9, <1>10, <1>11, <1>12, <1>13, <1>14, <1>15, <1>16 DEF Agreed

\* Words that come after others.
LEMMA WordsAfter ==
  ASSUME NEW i \in Instances, NEW s \in Seq(About(i)), NEW t \in Seq(About(i)), NEW all, all = s \o t
  PROVE  /\ ToSet(all) = ToSet(s) \cup ToSet(t)
         /\ \A A, b : Never(s, A, b) /\ Never(t, A, b) /\ (b \notin ToSet(t) \/ ToSet(s) \cap A = {}) => Never(all, A, b)
         /\ \A a, b : After(s, a, b) \/ After(t, a, b) \/ (a \in ToSet(s) /\ b \in ToSet(t)) => After(all, a, b)
<1>1. ToSet(all) = ToSet(s) \cup ToSet(t)
  BY ToSetConcat
<1>2. ASSUME NEW A, NEW b, Never(s, A, b), Never(t, A, b), b \notin ToSet(t) \/ ToSet(s) \cap A = {}
      PROVE  Never(all, A, b)
  BY <1>2, NeverConcat
<1>3. ASSUME NEW a, NEW b, After(s, a, b) \/ After(t, a, b) \/ (a \in ToSet(s) /\ b \in ToSet(t))
      PROVE  After(all, a, b)
  BY <1>3, AfterConcat
<1> QED
  BY <1>1, <1>2, <1>3

\* What a game lets the others know of in send().
Retires(g, j) == Knows(g, j) /\ ~In(g, j) /\ isAuthority(g, SpawnerOf[j])
Utters(g, X, i) ==
  /\ X \in Seq(About(i))
  /\ \A j \in Over(i) :
       /\ spawnMessage(j) \in ToSet(X) <=> In(g, j) /\ ~Knows(g, j)
       /\ despawnMessage(j) \in ToSet(X) <=> Retires(g, j)
       /\ \A k \in Over(i) : Never(X, {despawnMessage(k)}, spawnMessage(j))
       /\ \A k \in Over(j) : Never(X, {spawnMessage(j), despawnMessage(j)}, spawnMessage(k))
       /\ \A k \in Over(j) \ {j} :
            {spawnMessage(j), spawnMessage(k)} \subseteq ToSet(X) => After(X, spawnMessage(k), spawnMessage(j))

\* A game of the session told of what is new and of what is gone.
Sent(g, X, i) ==
  /\ Online(g) /\ Utters(g, X, i)
  /\ \A c \in Clients :
       /\ News(c, i) \in Seq(About(i)) /\ Reports(c, i) \in Seq(About(i))
       /\ News(c, i)' = IF g = Host /\ c \in Reached THEN News(c, i) \o X ELSE News(c, i)
       /\ Reports(c, i)' = IF g = c THEN Reports(c, i) \o X ELSE Reports(c, i)
       /\ Online(c)' <=> Online(c)
       /\ Online(c) => c \in Reached
       /\ Newcomer(c)' <=> Newcomer(c)
       /\ c \in Reached' <=> c \in Reached
  /\ \A j \in Over(i) :
       /\ Free(j)' <=> Free(j)
       /\ Knows(g, j)' <=> In(g, j) \/ (Knows(g, j) /\ ~Retires(g, j))
       /\ \A h \in Games :
            /\ In(h, j)' <=> In(h, j)
            /\ h # g => /\ Knows(h, j)' <=> Knows(h, j)
                        /\ Going(h, j) => Going(h, j)'
                        /\ Placing(h, j) => Placing(h, j)'

\* The games agree after the host told its clients of what it placed and destroyed.
LEMMA HostSendAgreed ==
  ASSUME NEW i \in Instances, NEW X, Agreed(i), Sent(Host, X, i), HostOrder(i)',
         \A j \in Over(i), c \in Clients :
           HearsEarly(c, j) /\ spawnMessage(j) \notin ToSet(X) => HearsEarly(c, j)'
  PROVE  Agreed(i)'
<1>1. \A c \in Clients, j \in Over(i) :
        /\ Hears(i, c, j)' <=> Hears(i, c, j) \/ (c \in Reached /\ In(Host, j) /\ ~Knows(Host, j))
        /\ HearsGone(i, c, j)' <=> HearsGone(i, c, j) \/ (c \in Reached /\ Retires(Host, j))
        /\ Tells(i, c, j)' <=> Tells(i, c, j)
        /\ TellsGone(i, c, j)' <=> TellsGone(i, c, j)
  <2> SUFFICES ASSUME NEW c \in Clients, NEW j \in Over(i)
               PROVE  /\ Hears(i, c, j)' <=> Hears(i, c, j) \/ (c \in Reached /\ In(Host, j) /\ ~Knows(Host, j))
                      /\ HearsGone(i, c, j)' <=> HearsGone(i, c, j) \/ (c \in Reached /\ Retires(Host, j))
                      /\ Tells(i, c, j)' <=> Tells(i, c, j)
                      /\ TellsGone(i, c, j)' <=> TellsGone(i, c, j)
    OBVIOUS
  <2>1. ToSet(News(c, i)') = ToSet(News(c, i)) \cup (IF c \in Reached THEN ToSet(X) ELSE {})
    <3>1. CASE c \in Reached
      <4>1. PICK s, all : s = News(c, i) /\ all = News(c, i)'
        OBVIOUS
      <4>2. s \in Seq(About(i)) /\ X \in Seq(About(i)) /\ all = s \o X
        BY <3>1, <4>1 DEF Sent, Utters
      <4> QED
        BY <3>1, <4>1, <4>2, ToSetConcat
    <3>2. CASE c \notin Reached
      BY <3>2 DEF Sent
    <3> QED
      BY <3>1, <3>2
  <2> QED
    BY <2>1, GamesAre DEF Hears, HearsGone, Tells, TellsGone, Sent, Utters
<1>2. \A j \in Over(i), k \in Over(i) :
        k \in Over(j) /\ In(Host, k) /\ ~Knows(Host, k) => Alone(Host, j) /\ Silence(i, j)
  BY GamesAre DEF Agreed, Placed
<1>3. \A j \in Over(i), h \in Games : Alone(h, j) => Alone(h, j)'
  BY DEF Alone, Sent, Retires
<1>4. \A j \in Over(i), h \in Games : h # Host /\ Alone(h, j) => ~In(Host, j) /\ ~Knows(Host, j)
  BY GamesAre DEF Alone
<1>5. \A j \in Over(i) : ~In(Host, j) /\ ~Knows(Host, j) /\ Silence(i, j) => Silence(i, j)'
  BY <1>1 DEF Silence, Retires
<1>6. Unplaced(i)'
  BY <1>5, OverIs, GamesAre DEF Agreed, Unplaced, Sent
<1>7. Placed(i)'
  <2> SUFFICES ASSUME NEW j \in Over(i), NEW h \in Games, NEW k \in Over(j), In(h, k)', ~Knows(h, k)'
               PROVE  Placing(h, k)' /\ Alone(h, j)' /\ Silence(i, j)'
    BY DEF Placed
  <2> QED
    BY <1>3, <1>4, <1>5, OverIs DEF Sent, Agreed, Placed
<1>8. \A c \in Clients, j \in Over(i) : Leaving(i, c, j) => Leaving(i, c, j)'
  BY <1>1, OverIs, GamesAre DEF Sent, Leaving
<1>9. \A j \in Over(i) : Dead(i, j) => Dead(i, j)'
  BY <1>1, GamesAre DEF Dead, Sent
<1>10. Reported(i)'
  <2> SUFFICES ASSUME NEW k \in Over(i), NEW d \in Clients, Tells(i, d, k)'
               PROVE  /\ \A j \in Over(i) : k \in Over(j) =>
                           /\ Alone(d, j)'
                           /\ Never(Reports(d, i)', {spawnMessage(j), despawnMessage(j)}, spawnMessage(k))
                           /\ \A e \in Clients : /\ ~Hears(i, e, j)' /\ ~HearsGone(i, e, j)'
                                                 /\ e # d => ~Tells(i, e, j)' /\ ~TellsGone(i, e, j)'
                      /\ Online(d)' => \/ In(d, k)' \/ Leaving(i, d, k)'
                                       \/ \E l \in Over(k) \ {k} : Dead(i, l)'
    BY DEF Reported
  <2>1. Tells(i, d, k) /\ Reports(d, i)' = Reports(d, i) /\ d \in Games /\ d # Host
    BY <1>1, GamesAre DEF Sent
  <2>2. ASSUME NEW j \in Over(i), k \in Over(j)
        PROVE  /\ Alone(d, j)'
               /\ Never(Reports(d, i)', {spawnMessage(j), despawnMessage(j)}, spawnMessage(k))
               /\ \A e \in Clients : /\ ~Hears(i, e, j)' /\ ~HearsGone(i, e, j)'
                                     /\ e # d => ~Tells(i, e, j)' /\ ~TellsGone(i, e, j)'
    <3>1. /\ Alone(d, j)
          /\ Never(Reports(d, i), {spawnMessage(j), despawnMessage(j)}, spawnMessage(k))
          /\ \A e \in Clients : /\ ~Hears(i, e, j) /\ ~HearsGone(i, e, j)
                                /\ e # d => ~Tells(i, e, j) /\ ~TellsGone(i, e, j)
      BY <2>1, <2>2 DEF Agreed, Reported
    <3> QED
      BY <1>1, <1>3, <1>4, <2>1, <3>1 DEF Retires
  <2> QED
    BY <1>8, <1>9, <2>1, <2>2, OverIs DEF Agreed, Reported, Sent
<1>11. Nested(i)'
  BY OverIs, GamesAre DEF Nested, Sent, Agreed
<1>12. GoneIsDead(i)'
  <2> SUFFICES ASSUME NEW j \in Over(i), NEW c \in Clients, HearsGone(i, c, j)'
               PROVE  Dead(i, j)'
    BY DEF GoneIsDead
  <2>1. CASE HearsGone(i, c, j)
    BY <1>9, <2>1 DEF Agreed, GoneIsDead
  <2>2. CASE Retires(Host, j)
    <3>1. Knows(Host, j) /\ ~In(Host, j) /\ ~Free(j)
      BY <2>2, OverIs, GamesAre DEF Retires, Agreed, Unplaced
    <3>2. \A d \in Clients : ~Alone(d, j)
      BY <3>1, GamesAre DEF Alone
    <3> QED
      BY <1>9, <3>1, <3>2, OverIs, GamesAre DEF Dead, Agreed, Placed, Reported
  <2> QED
    BY <1>1, <2>1, <2>2
<1>13. GoneIsLast(i)'
  <2> SUFFICES ASSUME NEW j \in Over(i), NEW c \in Clients, NEW k \in Over(j)
               PROVE  Never(News(c, i)', {despawnMessage(k)}, spawnMessage(j))
    BY DEF GoneIsLast
  <2>1. k \in Over(i) /\ Never(News(c, i), {despawnMessage(k)}, spawnMessage(j))
    BY OverIs DEF Agreed, GoneIsLast
  <2>2. CASE c \in Reached
    <3>1. PICK s : s = News(c, i)
      OBVIOUS
    <3>2. spawnMessage(j) \notin ToSet(X) \/ ToSet(s) \cap {despawnMessage(k)} = {}
      <4> SUFFICES ASSUME spawnMessage(j) \in ToSet(X), HearsGone(i, c, k) PROVE FALSE
        BY <3>1 DEF HearsGone
      <4> QED
        BY <2>1, GamesAre DEF Agreed, Nested, GoneIsDead, Dead, Sent, Utters
    <3> QED
      BY <2>1, <2>2, <3>1, <3>2, WordsAfter DEF Sent, Utters
  <2>3. CASE c \notin Reached
    BY <2>1, <2>3 DEF Sent
  <2> QED
    BY <2>2, <2>3
<1>14. OuterFirst(i)'
  <2> SUFFICES ASSUME NEW j \in Over(i), NEW c \in Clients, NEW k \in Over(j) \ {j},
                      ~Newcomer(c)', In(Host, j)', Hears(i, c, j)'
               PROVE  \/ Knows(c, k)' \/ TellsGone(i, c, k)'
                      \/ After(News(c, i)', spawnMessage(k), spawnMessage(j))
    BY DEF OuterFirst
  <2>1. k \in Over(i) /\ ~Newcomer(c) /\ In(Host, j) /\ In(Host, k) /\ c \in Games /\ c # Host
    BY OverIs, GamesAre DEF Agreed, Nested, Sent
  <2>2. SUFFICES ASSUME ~Knows(c, k), ~TellsGone(i, c, k)
                 PROVE  After(News(c, i)', spawnMessage(k), spawnMessage(j))
    BY <1>1, <2>1 DEF Sent
  <2>3. c \in Reached
    BY <1>1, WordsAre
  <2>4. PICK s : s = News(c, i)
    OBVIOUS
  <2>5. s \in Seq(About(i)) /\ X \in Seq(About(i)) /\ News(c, i)' = s \o X
    BY <2>3, <2>4 DEF Sent, Utters
  <2>6. CASE Hears(i, c, j)
    BY <2>1, <2>2, <2>4, <2>5, <2>6, WordsAfter DEF Agreed, OuterFirst
  <2>7. CASE ~Hears(i, c, j)
    <3>1. In(Host, j) /\ ~Knows(Host, j) /\ spawnMessage(j) \in ToSet(X)
      BY <1>1, <2>7 DEF Sent, Utters
    <3>2. CASE Knows(Host, k)
      <4>1. Hears(i, c, k)
        BY <2>1, <2>2, <2>3, <3>2, OverIs, GamesAre DEF Agreed, ClientsFollow, Leaving, Going, Placed, Alone
      <4> QED
        BY <2>4, <2>5, <3>1, <4>1, WordsAfter DEF Hears
    <3>3. CASE ~Knows(Host, k)
      <4>1. After(X, spawnMessage(k), spawnMessage(j))
        BY <2>1, <3>1, <3>3 DEF Sent, Utters
      <4> QED
        BY <2>5, <4>1, WordsAfter
    <3> QED
      BY <3>2, <3>3
  <2> QED
    BY <2>6, <2>7
<1>15. Missing(i)'
  <2> SUFFICES ASSUME NEW j \in Over(i), NEW c \in Clients, Knows(c, j)', ~In(c, j)'
               PROVE  ~Hears(i, c, j)' /\ (Leaving(i, c, j)' \/ \E k \in Over(j) : Dead(i, k)')
    BY DEF Missing
  <2> QED
    BY <1>1, <1>2, <1>8, <1>9, OverIs, GamesAre DEF Agreed, Missing, Sent, Alone
<1>16. Retracted(i)'
  <2> SUFFICES ASSUME NEW j \in Over(i), NEW c \in Clients, Online(c)', TellsGone(i, c, j)'
               PROVE  ~In(c, j)' /\ ~Knows(c, j)' /\ ~Hears(i, c, j)'
    BY DEF Retracted
  <2> QED
    BY <1>1, <1>2, GamesAre, OverIs DEF Sent, Agreed, Retracted, Silence
<1>17. HeardOnce(i)'
  <2> SUFFICES ASSUME NEW j \in Over(i), NEW c \in Clients, c \in Reached'
               PROVE  HearsOnce(i, c, j)' \/ HearsEarly(c, j)'
    BY DEF HeardOnce
  <2>1. c \in Reached /\ c \in Games /\ c # Host
    BY GamesAre DEF Sent
  <2>2. PICK s : s = News(c, i)
    OBVIOUS
  <2>3. s \in Seq(About(i)) /\ X \in Seq(About(i)) /\ News(c, i)' = s \o X
    BY <2>1, <2>2 DEF Sent, Utters
  <2>4. CASE In(Host, j) /\ ~Knows(Host, j)
    <3>1. ~Knows(c, j)' /\ spawnMessage(j) \notin ToSet(s)
      BY <1>2, <2>1, <2>2, <2>4, OverIs DEF Alone, Silence, Sent, Hears
    <3>2. Never(s, {spawnMessage(j)}, spawnMessage(j))
      BY <2>3, <3>1, NeverNone
    <3>3. Never(X, {spawnMessage(j)}, spawnMessage(j))
      BY OverIs DEF Never, Sent, Utters
    <3>4. Never(News(c, i)', {spawnMessage(j)}, spawnMessage(j))
      <4>1. PICK all : all = News(c, i)'
        OBVIOUS
      <4>2. all = s \o X /\ s \in Seq(About(i)) /\ X \in Seq(About(i)) /\ ToSet(s) \cap {spawnMessage(j)} = {}
        BY <2>3, <3>1, <4>1
      <4> QED
        BY <3>2, <3>3, <4>1, <4>2, NeverConcat
    <3> QED
      BY <3>1, <3>4 DEF HearsOnce
  <2>5. CASE ~(In(Host, j) /\ ~Knows(Host, j))
    <3>1. spawnMessage(j) \notin ToSet(X)
      BY <2>5 DEF Sent, Utters
    <3>2. ASSUME HearsOnce(i, c, j) PROVE HearsOnce(i, c, j)'
      <4>1. Never(s, {spawnMessage(j)}, spawnMessage(j))
        BY <2>2, <3>2 DEF HearsOnce
      <4>2. Never(News(c, i)', {spawnMessage(j)}, spawnMessage(j))
        <5>1. PICK all : all = News(c, i)'
          OBVIOUS
        <5> QED
          BY <2>3, <3>1, <4>1, <5>1, NeverConcat, NeverNone
      <4> QED
        BY <1>1, <2>1, <2>5, <3>2, <4>2 DEF HearsOnce, Sent
    <3> QED
      BY <2>1, <3>1, <3>2 DEF Agreed, HeardOnce
  <2> QED
    BY <2>4, <2>5
<1>18. ClientsFollow(i)'
  <2> SUFFICES ASSUME NEW j \in Over(i), NEW c \in Clients, c \in Reached', ~Newcomer(c)', In(Host, j)', Knows(Host, j)'
               PROVE  Hears(i, c, j)' \/ In(c, j)' \/ Leaving(i, c, j)'
    BY DEF ClientsFollow
  <2> QED
    BY <1>1, <1>8, GamesAre DEF Sent, Agreed, ClientsFollow
<1>19. HostFollows(i)'
  <2> SUFFICES ASSUME NEW j \in Over(i), NEW c \in Clients,
                      In(c, j)' \/ (Hears(i, c, j)' /\ \A k \in Over(j) \ {j} : Newcomer(c)' \/ In(c, k)' \/ Hears(i, c, k)')
               PROVE  \/ In(Host, j)' \/ (In(c, j)' /\ ~Knows(c, j)') \/ Tells(i, c, j)'
                      \/ \E k \in Over(j) : HearsGone(i, c, k)' \/ Going(Host, k)'
    BY DEF HostFollows
  <2>1. c \in Games /\ c # Host /\ Over(j) \subseteq Over(i) /\ j \in Over(j) /\ Host \in Games
    BY OverIs, GamesAre
  <2>2. SUFFICES ASSUME ~In(Host, j)
                 PROVE  \/ (In(c, j)' /\ ~Knows(c, j)') \/ Tells(i, c, j)'
                        \/ \E k \in Over(j) : HearsGone(i, c, k)'
    BY <2>1 DEF Sent
  <2>3. ASSUME NEW k \in Over(j) \ {j}, In(Host, k), ~Knows(Host, k), Hears(i, c, j) \/ In(c, j) PROVE FALSE
    BY <1>2, <2>1, <2>3 DEF Alone, Silence
  <2>4. In(c, j) \/ (Hears(i, c, j) /\ \A k \in Over(j) \ {j} : Newcomer(c) \/ In(c, k) \/ Hears(i, c, k))
    <3>1. ASSUME NEW k \in Over(j) \ {j}, Hears(i, c, j), Newcomer(c)' \/ In(c, k)' \/ Hears(i, c, k)'
          PROVE  Newcomer(c) \/ In(c, k) \/ Hears(i, c, k)
      BY <1>1, <2>1, <2>3, <3>1 DEF Sent
    <3> QED
      BY <1>1, <2>1, <2>2, <3>1 DEF Sent
  <2> QED
    BY <1>1, <2>1, <2>2, <2>4, WordsAre DEF Sent, Agreed, HostFollows, Going, Retires, In
<1> QED
  BY <1>6, <1>7, <1>10, <1>11, <1>12, <1>13, <1>14, <1>15, <1>16, <1>17, <1>18, <1>19 DEF Agreed

\* The games agree after a client told the host of what it placed and destroyed.
LEMMA ClientSendAgreed ==
  ASSUME NEW i \in Instances, NEW c \in Clients, NEW X, Agreed(i), Sent(c, X, i), HostOrder(i)',
         \A j \in Over(i), d \in Clients : HearsEarly(d, j) => HearsEarly(d, j)'
  PROVE  Agreed(i)'
<1>0. c \in Games /\ c # Host
  BY GamesAre
<1>1. \A d \in Clients, j \in Over(i) :
        /\ Hears(i, d, j)' <=> Hears(i, d, j)
        /\ HearsGone(i, d, j)' <=> HearsGone(i, d, j)
        /\ Tells(i, d, j)' <=> Tells(i, d, j) \/ (d = c /\ In(c, j) /\ ~Knows(c, j))
        /\ TellsGone(i, d, j)' <=> TellsGone(i, d, j) \/ (d = c /\ Retires(c, j))
  <2> SUFFICES ASSUME NEW d \in Clients, NEW j \in Over(i)
               PROVE  /\ Hears(i, d, j)' <=> Hears(i, d, j)
                      /\ HearsGone(i, d, j)' <=> HearsGone(i, d, j)
                      /\ Tells(i, d, j)' <=> Tells(i, d, j) \/ (d = c /\ In(c, j) /\ ~Knows(c, j))
                      /\ TellsGone(i, d, j)' <=> TellsGone(i, d, j) \/ (d = c /\ Retires(c, j))
    OBVIOUS
  <2>1. ToSet(Reports(d, i)') = ToSet(Reports(d, i)) \cup (IF d = c THEN ToSet(X) ELSE {})
    <3>1. CASE d = c
      <4>1. PICK s, all : s = Reports(c, i) /\ all = Reports(c, i)'
        OBVIOUS
      <4> QED
        BY <3>1, <4>1, ToSetConcat DEF Sent, Utters
    <3>2. CASE d # c
      BY <3>2 DEF Sent
    <3> QED
      BY <3>1, <3>2
  <2> QED
    BY <1>0, <2>1 DEF Hears, HearsGone, Tells, TellsGone, Sent, Utters
<1>2. \A j \in Over(i), k \in Over(i) :
        k \in Over(j) /\ In(c, k) /\ ~Knows(c, k) => Alone(c, j) /\ Silence(i, j)
  BY <1>0 DEF Agreed, Placed
<1>3. \A j \in Over(i), h \in Games : Alone(h, j) => Alone(h, j)'
  BY DEF Alone, Sent, Retires
<1>4. \A j \in Over(i), h \in Games : h # c /\ Alone(h, j) => ~In(c, j) /\ ~Knows(c, j)
  BY <1>0 DEF Alone
<1>5. \A j \in Over(i) : ~In(c, j) /\ ~Knows(c, j) /\ Silence(i, j) => Silence(i, j)'
  BY <1>1 DEF Silence, Retires
<1>6. Unplaced(i)'
  BY <1>0, <1>5, OverIs DEF Agreed, Unplaced, Sent
<1>7. Placed(i)'
  <2> SUFFICES ASSUME NEW j \in Over(i), NEW h \in Games, NEW k \in Over(j), In(h, k)', ~Knows(h, k)'
               PROVE  Placing(h, k)' /\ Alone(h, j)' /\ Silence(i, j)'
    BY DEF Placed
  <2> QED
    BY <1>3, <1>4, <1>5, OverIs DEF Sent, Agreed, Placed
<1>8. \A d \in Clients, j \in Over(i) : Leaving(i, d, j) => Leaving(i, d, j)'
  <2> SUFFICES ASSUME NEW d \in Clients, NEW j \in Over(i), NEW k \in Over(j), Going(d, k) \/ TellsGone(i, d, k)
               PROVE  Going(d, k)' \/ TellsGone(i, d, k)'
    BY DEF Leaving
  <2> QED
    BY <1>1, OverIs, GamesAre DEF Sent, Going, Retires
<1>9. \A j \in Over(i) : Dead(i, j) => Dead(i, j)'
  BY <1>0, <1>1, GamesAre DEF Dead, Sent
<1>10. Reported(i)'
  <2> SUFFICES ASSUME NEW k \in Over(i), NEW d \in Clients, Tells(i, d, k)'
               PROVE  /\ \A j \in Over(i) : k \in Over(j) =>
                           /\ Alone(d, j)'
                           /\ Never(Reports(d, i)', {spawnMessage(j), despawnMessage(j)}, spawnMessage(k))
                           /\ \A e \in Clients : /\ ~Hears(i, e, j)' /\ ~HearsGone(i, e, j)'
                                                 /\ e # d => ~Tells(i, e, j)' /\ ~TellsGone(i, e, j)'
                      /\ Online(d)' => \/ In(d, k)' \/ Leaving(i, d, k)'
                                       \/ \E l \in Over(k) \ {k} : Dead(i, l)'
    BY DEF Reported
  <2>0. d \in Games
    BY GamesAre
  <2>1. CASE d = c /\ In(c, k) /\ ~Knows(c, k)
    <3>1. ASSUME NEW j \in Over(i), k \in Over(j)
          PROVE  /\ Alone(d, j)'
                 /\ Never(Reports(d, i)', {spawnMessage(j), despawnMessage(j)}, spawnMessage(k))
                 /\ \A e \in Clients : /\ ~Hears(i, e, j)' /\ ~HearsGone(i, e, j)'
                                       /\ e # d => ~Tells(i, e, j)' /\ ~TellsGone(i, e, j)'
      <4>1. Alone(c, j) /\ Silence(i, j)
        BY <1>2, <2>1, <3>1
      <4>2. \A e \in Clients : /\ ~Hears(i, e, j)' /\ ~HearsGone(i, e, j)'
                               /\ e # d => ~Tells(i, e, j)' /\ ~TellsGone(i, e, j)'
        BY <1>1, <2>1, <4>1 DEF Silence
      <4>3. PICK s, all : s = Reports(c, i) /\ all = Reports(c, i)'
        OBVIOUS
      <4>4. ToSet(s) \cap {spawnMessage(j), despawnMessage(j)} = {}
        BY <4>1, <4>3 DEF Silence, Tells, TellsGone
      <4>5. Never(all, {spawnMessage(j), despawnMessage(j)}, spawnMessage(k))
        BY <3>1, <4>3, <4>4, NeverConcat, NeverNone DEF Sent, Utters
      <4> QED
        BY <1>0, <1>3, <2>1, <4>1, <4>2, <4>3, <4>5
    <3> QED
      BY <1>0, <2>1, <3>1 DEF Sent
  <2>2. CASE ~(d = c /\ In(c, k) /\ ~Knows(c, k))
    <3>1. Tells(i, d, k)
      BY <1>1, <2>2
    <3>2. ASSUME NEW j \in Over(i), k \in Over(j)
          PROVE  /\ Alone(d, j)'
                 /\ Never(Reports(d, i)', {spawnMessage(j), despawnMessage(j)}, spawnMessage(k))
                 /\ \A e \in Clients : /\ ~Hears(i, e, j)' /\ ~HearsGone(i, e, j)'
                                       /\ e # d => ~Tells(i, e, j)' /\ ~TellsGone(i, e, j)'
      <4>1. /\ Alone(d, j)
            /\ Never(Reports(d, i), {spawnMessage(j), despawnMessage(j)}, spawnMessage(k))
            /\ \A e \in Clients : /\ ~Hears(i, e, j) /\ ~HearsGone(i, e, j)
                                  /\ e # d => ~Tells(i, e, j) /\ ~TellsGone(i, e, j)
        BY <3>1, <3>2 DEF Agreed, Reported
      <4>2. Never(Reports(d, i)', {spawnMessage(j), despawnMessage(j)}, spawnMessage(k))
        <5>1. CASE d = c
          <6>1. PICK s, all : s = Reports(c, i) /\ all = Reports(c, i)'
            OBVIOUS
          <6> QED
            BY <2>2, <4>1, <5>1, <6>1, NeverConcat, NeverNone DEF Sent, Utters
        <5>2. CASE d # c
          BY <4>1, <5>2 DEF Sent
        <5> QED
          BY <5>1, <5>2
      <4> QED
        BY <1>1, <1>3, <1>4, <2>0, <4>1, <4>2 DEF Retires
    <3> QED
      BY <1>8, <1>9, <2>0, <3>1, <3>2, OverIs DEF Agreed, Reported, Sent
  <2> QED
    BY <2>1, <2>2
<1>11. Nested(i)'
  BY OverIs, GamesAre DEF Nested, Sent, Agreed
<1>12. GoneIsDead(i)' /\ GoneIsLast(i)'
  BY <1>0, <1>1, <1>9 DEF Agreed, GoneIsDead, GoneIsLast, Sent
<1>13. OuterFirst(i)'
  <2> SUFFICES ASSUME NEW j \in Over(i), NEW d \in Clients, NEW k \in Over(j) \ {j},
                      ~Newcomer(d)', In(Host, j)', Hears(i, d, j)'
               PROVE  \/ Knows(d, k)' \/ TellsGone(i, d, k)'
                      \/ After(News(d, i)', spawnMessage(k), spawnMessage(j))
    BY DEF OuterFirst
  <2> QED
    BY <1>0, <1>1, OverIs, GamesAre DEF Sent, Agreed, OuterFirst
<1>14. Missing(i)'
  <2> SUFFICES ASSUME NEW j \in Over(i), NEW d \in Clients, Knows(d, j)', ~In(d, j)'
               PROVE  ~Hears(i, d, j)' /\ (Leaving(i, d, j)' \/ \E k \in Over(j) : Dead(i, k)')
    BY DEF Missing
  <2> QED
    BY <1>1, <1>8, <1>9, OverIs, GamesAre DEF Agreed, Missing, Sent
<1>15. Retracted(i)'
  <2> SUFFICES ASSUME NEW j \in Over(i), NEW d \in Clients, Online(d)', TellsGone(i, d, j)'
               PROVE  ~In(d, j)' /\ ~Knows(d, j)' /\ ~Hears(i, d, j)'
    BY DEF Retracted
  <2>0. d \in Games /\ Online(d)
    BY GamesAre DEF Sent
  <2>1. CASE TellsGone(i, d, j)
    BY <1>1, <2>0, <2>1 DEF Sent, Agreed, Retracted
  <2>2. CASE d = c /\ Retires(c, j)
    BY <1>1, <2>0, <2>2 DEF Sent, Retires, Agreed, Missing
  <2> QED
    BY <1>1, <2>1, <2>2
<1>16. HeardOnce(i)'
  <2> SUFFICES ASSUME NEW j \in Over(i), NEW d \in Clients, d \in Reached', HearsOnce(i, d, j)
               PROVE  HearsOnce(i, d, j)'
    BY DEF Agreed, HeardOnce, Sent
  <2>1. News(d, i)' = News(d, i) /\ d \in Games
    BY <1>0, GamesAre DEF Sent
  <2>2. Hears(i, d, j) => ~Knows(d, j)'
    <3>1. SUFFICES ASSUME Hears(i, d, j), Knows(d, j)' PROVE FALSE
      OBVIOUS
    <3> QED
      BY <1>2, <2>1, <3>1, OverIs DEF Silence, HearsOnce, Sent
  <2> QED
    BY <1>1, <2>1, <2>2 DEF HearsOnce
<1>17. ClientsFollow(i)'
  BY <1>0, <1>1, <1>8, GamesAre DEF Agreed, ClientsFollow, Sent
<1>18. HostFollows(i)'
  <2> SUFFICES ASSUME NEW j \in Over(i), NEW d \in Clients,
                      In(d, j)' \/ (Hears(i, d, j)' /\ \A k \in Over(j) \ {j} : Newcomer(d)' \/ In(d, k)' \/ Hears(i, d, k)')
               PROVE  \/ In(Host, j)' \/ (In(d, j)' /\ ~Knows(d, j)') \/ Tells(i, d, j)'
                      \/ \E k \in Over(j) : HearsGone(i, d, k)' \/ Going(Host, k)'
    BY DEF HostFollows
  <2> QED
    BY <1>0, <1>1, OverIs, GamesAre DEF Sent, Agreed, HostFollows
<1> QED
  BY <1>6, <1>7, <1>10, <1>11, <1>12, <1>13, <1>14, <1>15, <1>16, <1>17, <1>18 DEF Agreed

\* A client of the session handled what it heard first.
Listens(c, w, i) ==
  /\ Online(c) /\ c \in Reached /\ News(c, i) \in Seq(About(i)) /\ News(c, i) # <<>> /\ Head(News(c, i)) = w
  /\ \A d \in Clients :
       /\ News(d, i)' = IF d = c THEN Tail(News(c, i)) ELSE News(d, i)
       /\ Reports(d, i)' = Reports(d, i)
       /\ Online(d)' <=> Online(d)
       /\ Newcomer(d)' <=> Newcomer(d)
       /\ d \in Reached' <=> d \in Reached
  /\ \A j \in Over(i) :
       /\ Free(j)' <=> Free(j)
       /\ ~Placing(c, j)
       /\ \A d \in Clients : HearsEarly(d, j) => HearsEarly(d, j)'
       /\ \A h \in Games \ {c} :
            /\ In(h, j)' <=> In(h, j)
            /\ Knows(h, j)' <=> Knows(h, j)
            /\ Going(h, j) => Going(h, j)'
            /\ Placing(h, j) => Placing(h, j)'

\* What a client has yet to hear once it listened, and what it had.
LEMMA ListensHears ==
  ASSUME NEW i \in Instances, NEW c \in Clients, NEW w, Listens(c, w, i)
  PROVE  /\ w \in About(i)
         /\ \A d \in Clients, j \in Over(i) :
              /\ Hears(i, d, j) <=> Hears(i, d, j)' \/ (d = c /\ w = spawnMessage(j))
              /\ HearsGone(i, d, j) <=> HearsGone(i, d, j)' \/ (d = c /\ w = despawnMessage(j))
              /\ Tells(i, d, j)' <=> Tells(i, d, j)
              /\ TellsGone(i, d, j)' <=> TellsGone(i, d, j)
         /\ \A d \in Clients : \A A, b : Never(News(d, i), A, b) =>
              /\ Never(News(d, i)', A, b)
              /\ d = c /\ w \in A => b \notin ToSet(News(c, i)')
         /\ \A d \in Clients : \A a, b : After(News(d, i), a, b) =>
              After(News(d, i)', a, b) \/ (d = c /\ w = a)
         /\ \A a, b : After(News(c, i)', a, b) => a \in ToSet(News(c, i)') /\ b \in ToSet(News(c, i)')
<1>1. PICK s, t : s = News(c, i) /\ t = News(c, i)'
  OBVIOUS
<1>2. s \in Seq(About(i)) /\ s # <<>> /\ t = Tail(s) /\ w = Head(s)
  BY <1>1 DEF Listens
<1>3. w \in About(i) /\ ToSet(s) = {w} \cup ToSet(t)
  BY <1>2, ToSetTail
<1>4. ASSUME NEW A, NEW b, Never(s, A, b)
      PROVE  Never(t, A, b) /\ (w \in A => b \notin ToSet(t))
  BY <1>2, <1>4, NeverTail
<1>5. ASSUME NEW a, NEW b, After(s, a, b)
      PROVE  After(t, a, b) \/ w = a
  BY <1>2, <1>5, AfterTail
<1>6. ASSUME NEW a, NEW b, After(t, a, b)
      PROVE  a \in ToSet(t) /\ b \in ToSet(t)
  BY <1>2, <1>6, AfterHas, ToSetTail
<1> QED
  BY <1>1, <1>3, <1>4, <1>5, <1>6 DEF Hears, HearsGone, Tells, TellsGone, Listens

\* What it hears that appeared it takes when it has what that is in, and does not know it.
Welcomed(c, j0) == ~Knows(c, j0) /\ \A k \in Over(j0) \ {j0} : In(c, k)
HeardSpawn(c, j0, i) ==
  /\ Listens(c, spawnMessage(j0), i)
  /\ \A j \in Over(i) :
       /\ In(c, j)' <=> In(c, j) \/ (j = j0 /\ Welcomed(c, j0))
       /\ Knows(c, j)' <=> Knows(c, j) \/ (j = j0 /\ Welcomed(c, j0))
       /\ Going(c, j) => Going(c, j)'

\* The games agree after a client listened that j0 appeared.
LEMMA HeardSpawnAgreed ==
  ASSUME NEW i \in Instances, NEW c \in Clients, NEW j0 \in Over(i), Agreed(i), HeardSpawn(c, j0, i), HostOrder(i)'
  PROVE  Agreed(i)'
<1>0. c \in Games /\ c # Host
  BY GamesAre
<1>1. Listens(c, spawnMessage(j0), i)
  BY DEF HeardSpawn
<1>2. \A j \in Over(i) : spawnMessage(j0) # despawnMessage(j) /\ (spawnMessage(j0) = spawnMessage(j) => j = j0)
  BY DEF spawnMessage, despawnMessage
<1>3. \A d \in Clients, j \in Over(i) :
        /\ Hears(i, d, j) <=> Hears(i, d, j)' \/ (d = c /\ j = j0)
        /\ HearsGone(i, d, j)' <=> HearsGone(i, d, j)
        /\ Tells(i, d, j)' <=> Tells(i, d, j)
        /\ TellsGone(i, d, j)' <=> TellsGone(i, d, j)
  BY <1>1, <1>2, ListensHears
<1>4. \A d \in Clients : \A A, b : Never(News(d, i), A, b) => Never(News(d, i)', A, b)
  BY <1>1, ListensHears
<1>5. \A j \in Over(i) : Silence(i, j) => Silence(i, j)' /\ j # j0
  BY <1>3 DEF Silence
<1>6. \A j \in Over(i), h \in Games : Alone(h, j) /\ j # j0 => Alone(h, j)'
  BY DEF Alone, HeardSpawn, Listens
<1>7. \A j \in Over(i) : In(c, j) => Knows(c, j)
  BY <1>0, <1>1, OverIs DEF Agreed, Placed, Listens
<1>8. Unplaced(i)'
  BY <1>5, OverIs, GamesAre DEF Agreed, Unplaced, HeardSpawn, Listens
<1>9. Placed(i)'
  <2> SUFFICES ASSUME NEW j \in Over(i), NEW h \in Games, NEW k \in Over(j), In(h, k)', ~Knows(h, k)'
               PROVE  Placing(h, k)' /\ Alone(h, j)' /\ Silence(i, j)'
    BY DEF Placed
  <2> QED
    BY <1>5, <1>6, <1>7, OverIs DEF HeardSpawn, Listens, Agreed, Placed
<1>10. \A d \in Clients, j \in Over(i) : Leaving(i, d, j) => Leaving(i, d, j)'
  BY <1>3, OverIs, GamesAre DEF HeardSpawn, Listens, Leaving
<1>11. \A j \in Over(i) : Dead(i, j) => Dead(i, j)'
  BY <1>0, <1>3, GamesAre DEF Dead, HeardSpawn, Listens
<1>12. Reported(i)'
  <2> SUFFICES ASSUME NEW k \in Over(i), NEW d \in Clients, Tells(i, d, k)'
               PROVE  /\ \A j \in Over(i) : k \in Over(j) =>
                           /\ Alone(d, j)'
                           /\ Never(Reports(d, i)', {spawnMessage(j), despawnMessage(j)}, spawnMessage(k))
                           /\ \A e \in Clients : /\ ~Hears(i, e, j)' /\ ~HearsGone(i, e, j)'
                                                 /\ e # d => ~Tells(i, e, j)' /\ ~TellsGone(i, e, j)'
                      /\ Online(d)' => \/ In(d, k)' \/ Leaving(i, d, k)'
                                       \/ \E l \in Over(k) \ {k} : Dead(i, l)'
    BY DEF Reported
  <2>1. Tells(i, d, k) /\ Reports(d, i)' = Reports(d, i) /\ d \in Games
    BY <1>1, <1>3, GamesAre DEF Listens
  <2>2. Online(d)' => \/ In(d, k)' \/ Leaving(i, d, k)'
                      \/ \E l \in Over(k) \ {k} : Dead(i, l)'
    BY <1>10, <1>11, <2>1, OverIs DEF Agreed, Reported, HeardSpawn, Listens
  <2>3. ASSUME NEW j \in Over(i), k \in Over(j)
        PROVE  /\ Alone(d, j)'
               /\ Never(Reports(d, i)', {spawnMessage(j), despawnMessage(j)}, spawnMessage(k))
               /\ \A e \in Clients : /\ ~Hears(i, e, j)' /\ ~HearsGone(i, e, j)'
                                     /\ e # d => ~Tells(i, e, j)' /\ ~TellsGone(i, e, j)'
    <3>1. /\ Alone(d, j)
          /\ Never(Reports(d, i), {spawnMessage(j), despawnMessage(j)}, spawnMessage(k))
          /\ \A e \in Clients : /\ ~Hears(i, e, j) /\ ~HearsGone(i, e, j)
                                /\ e # d => ~Tells(i, e, j) /\ ~TellsGone(i, e, j)
      BY <2>1, <2>3 DEF Agreed, Reported
    <3> QED
      BY <1>3, <1>6, <2>1, <3>1
  <2> QED
    BY <2>2, <2>3
<1>13. Nested(i)'
  <2>1. \A j \in Over(i), g \in Games : In(g, j) => \A k \in Over(j) : In(g, k) /\ (Knows(g, j) => Knows(g, k))
    BY DEF Agreed, Nested
  <2> SUFFICES ASSUME NEW j \in Over(i), NEW g \in Games, In(g, j)', NEW k \in Over(j)
               PROVE  In(g, k)' /\ (Knows(g, j)' => Knows(g, k)')
    BY DEF Nested
  <2>2. k \in Over(i)
    BY OverIs
  <2>3. CASE g # c
    BY <2>1, <2>2, <2>3 DEF HeardSpawn, Listens
  <2>4. CASE g = c
    BY <1>0, <1>7, <2>1, <2>2, <2>4 DEF HeardSpawn, Welcomed
  <2> QED
    BY <2>3, <2>4
<1>14. GoneIsDead(i)' /\ GoneIsLast(i)'
  BY <1>3, <1>4, <1>11 DEF Agreed, GoneIsDead, GoneIsLast
<1>15. OuterFirst(i)'
  <2> SUFFICES ASSUME NEW j \in Over(i), NEW d \in Clients, NEW k \in Over(j) \ {j},
                      ~Newcomer(d)', In(Host, j)', Hears(i, d, j)'
               PROVE  \/ Knows(d, k)' \/ TellsGone(i, d, k)'
                      \/ After(News(d, i)', spawnMessage(k), spawnMessage(j))
    BY DEF OuterFirst
  <2>1. k \in Over(i) /\ ~Newcomer(d) /\ In(Host, j) /\ Hears(i, d, j) /\ d \in Games /\ Over(k) = {k}
    BY <1>0, <1>1, <1>3, OverIs, GamesAre DEF Listens
  <2>2. CASE Knows(d, k)
    BY <2>1, <2>2 DEF HeardSpawn, Listens
  <2>3. CASE TellsGone(i, d, k)
    BY <1>3, <2>1, <2>3
  <2>4. CASE After(News(d, i), spawnMessage(k), spawnMessage(j))
    BY <1>1, <1>2, <2>1, <2>4, ListensHears DEF HeardSpawn, Welcomed
  <2> QED
    BY <2>1, <2>2, <2>3, <2>4 DEF Agreed, OuterFirst
<1>16. Missing(i)'
  <2> SUFFICES ASSUME NEW j \in Over(i), NEW d \in Clients, Knows(d, j)', ~In(d, j)'
               PROVE  ~Hears(i, d, j)' /\ (Leaving(i, d, j)' \/ \E k \in Over(j) : Dead(i, k)')
    BY DEF Missing
  <2> QED
    BY <1>3, <1>10, <1>11, OverIs, GamesAre DEF Agreed, Missing, HeardSpawn, Listens
<1>17. Retracted(i)'
  <2> SUFFICES ASSUME NEW j \in Over(i), NEW d \in Clients, Online(d)', TellsGone(i, d, j)'
               PROVE  ~In(d, j)' /\ ~Knows(d, j)' /\ ~Hears(i, d, j)'
    BY DEF Retracted
  <2> QED
    BY <1>1, <1>3, GamesAre DEF HeardSpawn, Listens, Agreed, Retracted
<1>18. HeardOnce(i)'
  <2> SUFFICES ASSUME NEW j \in Over(i), NEW d \in Clients, d \in Reached', HearsOnce(i, d, j)
               PROVE  HearsOnce(i, d, j)'
    BY <1>1 DEF Agreed, HeardOnce, Listens
  <2>1. d = c /\ j = j0 => ~Hears(i, d, j)'
    <3>1. SUFFICES ASSUME d = c, j = j0 PROVE spawnMessage(j) \notin ToSet(News(c, i)')
      BY DEF Hears
    <3> QED
      BY <1>1, <3>1, ListensHears DEF HearsOnce
  <2> QED
    BY <1>3, <1>4, <2>1, GamesAre DEF HearsOnce, HeardSpawn, Listens
<1>19. ClientsFollow(i)'
  <2> SUFFICES ASSUME NEW j \in Over(i), NEW d \in Clients, d \in Reached', ~Newcomer(d)', In(Host, j)', Knows(Host, j)'
               PROVE  Hears(i, d, j)' \/ In(d, j)' \/ Leaving(i, d, j)'
    BY DEF ClientsFollow
  <2>1. d \in Reached /\ ~Newcomer(d) /\ In(Host, j) /\ Knows(Host, j) /\ d \in Games
    BY <1>0, <1>1, GamesAre DEF Listens
  <2>2. CASE d = c /\ j = j0
    <3>1. Hears(i, c, j0)
      BY <1>3
    <3>2. CASE Knows(c, j0)
      BY <2>2, <3>1, <3>2 DEF HeardSpawn, Agreed, Missing
    <3>3. ASSUME NEW k \in Over(j0) \ {j0}, ~In(c, k)
          PROVE  Hears(i, d, j)' \/ Leaving(i, d, j)'
      <4>1. k \in Over(i) /\ In(Host, k) /\ Over(k) = {k}
        BY <2>1, <2>2, OverIs, GamesAre DEF Agreed, Nested
      <4>2. CASE Knows(c, k)
        BY <1>10, <2>2, <3>3, <4>1, <4>2 DEF Leaving, Dead, Agreed, Missing
      <4>3. CASE TellsGone(i, c, k)
        BY <1>3, <2>2, <4>1, <4>3 DEF Leaving
      <4>4. CASE After(News(c, i), spawnMessage(k), spawnMessage(j0))
        BY <1>1, <1>2, <2>2, <4>1, <4>4, ListensHears DEF Hears
      <4> QED
        BY <2>1, <2>2, <3>1, <4>2, <4>3, <4>4 DEF Agreed, OuterFirst
    <3>4. CASE Welcomed(c, j0)
      BY <2>2, <3>4 DEF HeardSpawn
    <3> QED
      BY <3>2, <3>3, <3>4 DEF Welcomed
  <2>3. CASE ~(d = c /\ j = j0)
    BY <1>3, <1>10, <2>1, <2>3 DEF HeardSpawn, Listens, Agreed, ClientsFollow
  <2> QED
    BY <2>2, <2>3
<1>20. HostFollows(i)'
  <2> SUFFICES ASSUME NEW j \in Over(i), NEW d \in Clients,
                      In(d, j)' \/ (Hears(i, d, j)' /\ \A k \in Over(j) \ {j} : Newcomer(d)' \/ In(d, k)' \/ Hears(i, d, k)')
               PROVE  \/ In(Host, j)' \/ (In(d, j)' /\ ~Knows(d, j)') \/ Tells(i, d, j)'
                      \/ \E k \in Over(j) : HearsGone(i, d, k)' \/ Going(Host, k)'
    BY DEF HostFollows
  <2>1. d \in Games /\ Over(j) \subseteq Over(i) /\ Host \in Games
    BY OverIs, GamesAre
  <2>2. In(d, j) \/ (Hears(i, d, j) /\ \A k \in Over(j) \ {j} : Newcomer(d) \/ In(d, k) \/ Hears(i, d, k))
    <3>1. \A k \in Over(j) : In(d, k)' => In(d, k) \/ (d = c /\ k = j0 /\ Welcomed(c, j0))
      BY <2>1 DEF HeardSpawn, Listens
    <3>2. Hears(i, c, j0)
      BY <1>3
    <3>3. CASE In(d, j)'
      <4>1. CASE In(d, j)
        BY <4>1
      <4>2. CASE d = c /\ j = j0 /\ Welcomed(c, j0)
        BY <3>2, <4>2 DEF Welcomed
      <4> QED
        BY <3>1, <3>3, <4>1, <4>2, OverIs
    <3>4. CASE Hears(i, d, j)' /\ \A k \in Over(j) \ {j} : Newcomer(d)' \/ In(d, k)' \/ Hears(i, d, k)'
      <4>1. ASSUME NEW k \in Over(j) \ {j}
            PROVE  Newcomer(d) \/ In(d, k) \/ Hears(i, d, k)
        BY <1>1, <1>3, <2>1, <3>1, <3>2, <3>4 DEF Listens
      <4> QED
        BY <1>3, <3>4, <4>1
    <3> QED
      BY <3>3, <3>4
  <2> QED
    BY <1>0, <1>3, <1>7, <2>1, <2>2 DEF HeardSpawn, Listens, Agreed, HostFollows
<1> QED
  BY <1>8, <1>9, <1>12, <1>13, <1>14, <1>15, <1>16, <1>17, <1>18, <1>19, <1>20 DEF Agreed

\* What it hears is gone goes, with what is in it, and is forgotten.
HeardGone(c, j0, i) ==
  /\ Listens(c, despawnMessage(j0), i)
  /\ \A j \in Over(i) :
       /\ In(c, j)' <=> In(c, j) /\ j0 \notin Over(j)
       /\ Knows(c, j)' <=> Knows(c, j) /\ j # j0
       /\ Going(c, j) /\ j # j0 => Going(c, j)'

\* The games agree after a client listened that j0 is gone.
LEMMA HeardGoneAgreed ==
  ASSUME NEW i \in Instances, NEW c \in Clients, NEW j0 \in Over(i), Agreed(i), HeardGone(c, j0, i), HostOrder(i)'
  PROVE  Agreed(i)'
<1>0. c \in Games /\ c # Host
  BY GamesAre
<1>1. Listens(c, despawnMessage(j0), i)
  BY DEF HeardGone
<1>2. \A j \in Over(i) : spawnMessage(j) # despawnMessage(j0) /\ (despawnMessage(j0) = despawnMessage(j) => j = j0)
  BY DEF spawnMessage, despawnMessage
<1>3. \A d \in Clients, j \in Over(i) :
        /\ Hears(i, d, j)' <=> Hears(i, d, j)
        /\ HearsGone(i, d, j) <=> HearsGone(i, d, j)' \/ (d = c /\ j = j0)
        /\ Tells(i, d, j)' <=> Tells(i, d, j)
        /\ TellsGone(i, d, j)' <=> TellsGone(i, d, j)
  BY <1>1, <1>2, ListensHears
<1>4. \A d \in Clients : \A A, b : Never(News(d, i), A, b) => Never(News(d, i)', A, b)
  BY <1>1, ListensHears
<1>5. \A j \in Over(i) : Silence(i, j) => Silence(i, j)'
  BY <1>3 DEF Silence
<1>6. \A j \in Over(i), h \in Games : Alone(h, j) => Alone(h, j)'
  BY DEF Alone, HeardGone, Listens
<1>7. \A j \in Over(i) : In(c, j) => Knows(c, j)
  BY <1>0, <1>1, OverIs DEF Agreed, Placed, Listens
<1>8. Unplaced(i)'
  BY <1>5, OverIs, GamesAre DEF Agreed, Unplaced, HeardGone, Listens
<1>9. Placed(i)'
  <2> SUFFICES ASSUME NEW j \in Over(i), NEW h \in Games, NEW k \in Over(j), In(h, k)', ~Knows(h, k)'
               PROVE  Placing(h, k)' /\ Alone(h, j)' /\ Silence(i, j)'
    BY DEF Placed
  <2> QED
    BY <1>5, <1>6, <1>7, OverIs DEF HeardGone, Listens, Agreed, Placed
<1>10. \A j \in Over(i) : Dead(i, j) => Dead(i, j)'
  BY <1>0, <1>3, <1>7, GamesAre, OverIs DEF Dead, HeardGone, Listens
<1>11. Dead(i, j0) /\ Dead(i, j0)'
  BY <1>3, <1>10 DEF Agreed, GoneIsDead
<1>12. \A d \in Clients, j \in Over(i) : Leaving(i, d, j) => Leaving(i, d, j)' \/ (d = c /\ j0 \in Over(j))
  <2> SUFFICES ASSUME NEW d \in Clients, NEW j \in Over(i), NEW k \in Over(j), Going(d, k) \/ TellsGone(i, d, k),
                      ~(d = c /\ k = j0)
               PROVE  Going(d, k)' \/ TellsGone(i, d, k)'
    BY DEF Leaving
  <2> QED
    BY <1>3, OverIs, GamesAre DEF HeardGone, Listens
<1>13. \A j \in Over(i) : In(Host, j) => j0 \notin Over(j)
  BY <1>11, GamesAre DEF Agreed, Nested, Dead
<1>14. Reported(i)'
  <2> SUFFICES ASSUME NEW k \in Over(i), NEW d \in Clients, Tells(i, d, k)'
               PROVE  /\ \A j \in Over(i) : k \in Over(j) =>
                           /\ Alone(d, j)'
                           /\ Never(Reports(d, i)', {spawnMessage(j), despawnMessage(j)}, spawnMessage(k))
                           /\ \A e \in Clients : /\ ~Hears(i, e, j)' /\ ~HearsGone(i, e, j)'
                                                 /\ e # d => ~Tells(i, e, j)' /\ ~TellsGone(i, e, j)'
                      /\ Online(d)' => \/ In(d, k)' \/ Leaving(i, d, k)'
                                       \/ \E l \in Over(k) \ {k} : Dead(i, l)'
    BY DEF Reported
  <2>1. Tells(i, d, k) /\ Reports(d, i)' = Reports(d, i) /\ d \in Games /\ k # j0
    BY <1>1, <1>3, <1>11, GamesAre DEF Listens, Dead
  <2>2. Online(d)' => \/ In(d, k)' \/ Leaving(i, d, k)'
                      \/ \E l \in Over(k) \ {k} : Dead(i, l)'
    <3>1. CASE d = c /\ j0 \in Over(k)
      BY <1>11, <2>1, <3>1
    <3>2. CASE ~(d = c /\ j0 \in Over(k))
      BY <1>12, <1>10, <2>1, <3>2, OverIs DEF Agreed, Reported, HeardGone, Listens
    <3> QED
      BY <3>1, <3>2
  <2>3. ASSUME NEW j \in Over(i), k \in Over(j)
        PROVE  /\ Alone(d, j)'
               /\ Never(Reports(d, i)', {spawnMessage(j), despawnMessage(j)}, spawnMessage(k))
               /\ \A e \in Clients : /\ ~Hears(i, e, j)' /\ ~HearsGone(i, e, j)'
                                     /\ e # d => ~Tells(i, e, j)' /\ ~TellsGone(i, e, j)'
    <3>1. /\ Alone(d, j)
          /\ Never(Reports(d, i), {spawnMessage(j), despawnMessage(j)}, spawnMessage(k))
          /\ \A e \in Clients : /\ ~Hears(i, e, j) /\ ~HearsGone(i, e, j)
                                /\ e # d => ~Tells(i, e, j) /\ ~TellsGone(i, e, j)
      BY <2>1, <2>3 DEF Agreed, Reported
    <3> QED
      BY <1>3, <1>6, <2>1, <3>1
  <2> QED
    BY <2>2, <2>3
<1>15. Nested(i)'
  <2>1. \A j \in Over(i), g \in Games : In(g, j) => \A k \in Over(j) : In(g, k) /\ (Knows(g, j) => Knows(g, k))
    BY DEF Agreed, Nested
  <2> SUFFICES ASSUME NEW j \in Over(i), NEW g \in Games, In(g, j)', NEW k \in Over(j)
               PROVE  In(g, k)' /\ (Knows(g, j)' => Knows(g, k)')
    BY DEF Nested
  <2>2. k \in Over(i) /\ k \in Over(k) /\ Over(k) \subseteq Over(j)
    BY OverIs
  <2>3. CASE g # c
    BY <2>1, <2>2, <2>3 DEF HeardGone, Listens
  <2>4. CASE g = c
    BY <1>0, <2>1, <2>2, <2>4 DEF HeardGone
  <2> QED
    BY <2>3, <2>4
<1>16. GoneIsDead(i)' /\ GoneIsLast(i)'
  BY <1>3, <1>4, <1>10 DEF Agreed, GoneIsDead, GoneIsLast
\* What it will not have any more it does not hear of again.
<1>17. \A j \in Over(i) : j0 \in Over(j) => ~Hears(i, c, j)
  <2> SUFFICES ASSUME NEW j \in Over(i), j0 \in Over(j) PROVE ~Hears(i, c, j)
    OBVIOUS
  <2>1. Never(News(c, i), {despawnMessage(j0)}, spawnMessage(j))
    BY DEF Agreed, GoneIsLast
  <2> QED
    BY <1>1, <1>3, <2>1, ListensHears DEF Hears
<1>18. OuterFirst(i)'
  <2> SUFFICES ASSUME NEW j \in Over(i), NEW d \in Clients, NEW k \in Over(j) \ {j},
                      ~Newcomer(d)', In(Host, j)', Hears(i, d, j)'
               PROVE  \/ Knows(d, k)' \/ TellsGone(i, d, k)'
                      \/ After(News(d, i)', spawnMessage(k), spawnMessage(j))
    BY DEF OuterFirst
  <2>1. k \in Over(i) /\ ~Newcomer(d) /\ In(Host, j) /\ Hears(i, d, j) /\ d \in Games
    BY <1>0, <1>1, <1>3, OverIs, GamesAre DEF Listens
  <2> QED
    BY <1>1, <1>2, <1>3, <1>13, <2>1, ListensHears DEF HeardGone, Listens, Agreed, OuterFirst
<1>19. Missing(i)'
  <2> SUFFICES ASSUME NEW j \in Over(i), NEW d \in Clients, Knows(d, j)', ~In(d, j)'
               PROVE  ~Hears(i, d, j)' /\ (Leaving(i, d, j)' \/ \E k \in Over(j) : Dead(i, k)')
    BY DEF Missing
  <2>1. CASE d = c /\ j0 \in Over(j)
    BY <1>3, <1>11, <1>17, <2>1
  <2>2. CASE ~(d = c /\ j0 \in Over(j))
    BY <1>3, <1>12, <1>10, <2>2, OverIs, GamesAre DEF Agreed, Missing, HeardGone, Listens
  <2> QED
    BY <2>1, <2>2
<1>20. Retracted(i)'
  <2> SUFFICES ASSUME NEW j \in Over(i), NEW d \in Clients, Online(d)', TellsGone(i, d, j)'
               PROVE  ~In(d, j)' /\ ~Knows(d, j)' /\ ~Hears(i, d, j)'
    BY DEF Retracted
  <2> QED
    BY <1>1, <1>3, GamesAre DEF HeardGone, Listens, Agreed, Retracted
<1>21. HeardOnce(i)'
  <2> SUFFICES ASSUME NEW j \in Over(i), NEW d \in Clients, d \in Reached', HearsOnce(i, d, j)
               PROVE  HearsOnce(i, d, j)'
    BY <1>1 DEF Agreed, HeardOnce, Listens
  <2> QED
    BY <1>3, <1>4, GamesAre DEF HearsOnce, HeardGone, Listens
<1>22. ClientsFollow(i)'
  <2> SUFFICES ASSUME NEW j \in Over(i), NEW d \in Clients, d \in Reached', ~Newcomer(d)', In(Host, j)', Knows(Host, j)'
               PROVE  Hears(i, d, j)' \/ In(d, j)' \/ Leaving(i, d, j)'
    BY DEF ClientsFollow
  <2> QED
    BY <1>0, <1>1, <1>3, <1>12, <1>13, GamesAre DEF HeardGone, Listens, Agreed, ClientsFollow
<1>23. HostFollows(i)'
  <2> SUFFICES ASSUME NEW j \in Over(i), NEW d \in Clients,
                      In(d, j)' \/ (Hears(i, d, j)' /\ \A k \in Over(j) \ {j} : Newcomer(d)' \/ In(d, k)' \/ Hears(i, d, k)')
               PROVE  \/ In(Host, j)' \/ (In(d, j)' /\ ~Knows(d, j)') \/ Tells(i, d, j)'
                      \/ \E k \in Over(j) : HearsGone(i, d, k)' \/ Going(Host, k)'
    BY DEF HostFollows
  <2>1. d \in Games /\ Over(j) \subseteq Over(i) /\ Host \in Games
    BY OverIs, GamesAre
  <2>2. In(d, j) \/ (Hears(i, d, j) /\ \A k \in Over(j) \ {j} : Newcomer(d) \/ In(d, k) \/ Hears(i, d, k))
    BY <1>1, <1>3, <2>1, OverIs DEF HeardGone, Listens
  <2> QED
    BY <1>0, <1>3, <1>7, <1>17, <2>1, <2>2 DEF HeardGone, Listens, Agreed, HostFollows
<1> QED
  BY <1>8, <1>9, <1>14, <1>15, <1>16, <1>18, <1>19, <1>20, <1>21, <1>22, <1>23 DEF Agreed

\* The host took the first report of c, and passed it on to the other clients.
Attends(c, w, i) ==
  /\ Online(Host) /\ (c \in Reached => Online(c) /\ ~Newcomer(c))
  /\ Reports(c, i) \in Seq(About(i)) /\ Reports(c, i) # <<>> /\ Head(Reports(c, i)) = w
  /\ \A d \in Clients :
       /\ News(d, i) \in Seq(About(i))
       /\ News(d, i)' = IF d \in Reached \ {c} THEN News(d, i) \o <<w>> ELSE News(d, i)
       /\ Reports(d, i)' = IF d = c THEN Tail(Reports(c, i)) ELSE Reports(d, i)
       /\ Online(d)' <=> Online(d)
       /\ Online(d) => d \in Reached
       /\ Newcomer(d)' <=> Newcomer(d)
       /\ d \in Reached' <=> d \in Reached
  /\ \A j \in Over(i) :
       /\ Free(j)' <=> Free(j)
       /\ ~Placing(Host, j)
       /\ Going(Host, j) => Going(Host, j)' \/ w = despawnMessage(j)
       /\ \A d \in Clients : HearsEarly(d, j) /\ w # spawnMessage(j) => HearsEarly(d, j)'
       /\ \A h \in Games \ {Host} :
            /\ In(h, j)' <=> In(h, j)
            /\ Knows(h, j)' <=> Knows(h, j)
            /\ Going(h, j) => Going(h, j)'
            /\ Placing(h, j) => Placing(h, j)'

\* What there is yet to hear once the host attended to a client, and what there was.
LEMMA AttendsHears ==
  ASSUME NEW i \in Instances, NEW c \in Clients, NEW w, Attends(c, w, i)
  PROVE  /\ w \in About(i)
         /\ \A d \in Clients, j \in Over(i) :
              /\ Hears(i, d, j)' <=> Hears(i, d, j) \/ (d \in Reached \ {c} /\ w = spawnMessage(j))
              /\ HearsGone(i, d, j)' <=> HearsGone(i, d, j) \/ (d \in Reached \ {c} /\ w = despawnMessage(j))
              /\ Tells(i, d, j) <=> Tells(i, d, j)' \/ (d = c /\ w = spawnMessage(j))
              /\ TellsGone(i, d, j) <=> TellsGone(i, d, j)' \/ (d = c /\ w = despawnMessage(j))
         /\ \A d \in Clients : \A A, b : Never(Reports(d, i), A, b) =>
              /\ Never(Reports(d, i)', A, b)
              /\ d = c /\ w \in A => b \notin ToSet(Reports(c, i)')
         /\ \A d \in Clients : \A A, b :
              Never(News(d, i), A, b) /\ (w # b \/ ToSet(News(d, i)) \cap A = {}) => Never(News(d, i)', A, b)
         /\ \A d \in Clients : \A a, b :
              After(News(d, i), a, b) \/ (d \in Reached \ {c} /\ a \in ToSet(News(d, i)) /\ b = w)
                => After(News(d, i)', a, b)
<1>1. PICK s, t : s = Reports(c, i) /\ t = Reports(c, i)'
  OBVIOUS
<1>2. s \in Seq(About(i)) /\ s # <<>> /\ t = Tail(s) /\ w = Head(s)
  BY <1>1 DEF Attends
<1>3. w \in About(i) /\ ToSet(s) = {w} \cup ToSet(t)
  BY <1>2, ToSetTail
<1>4. ASSUME NEW A, NEW b, Never(s, A, b)
      PROVE  Never(t, A, b) /\ (w \in A => b \notin ToSet(t))
  BY <1>2, <1>4, NeverTail
<1>5. PICK one : one = <<w>>
  OBVIOUS
<1>6. one \in Seq(About(i)) /\ ToSet(one) = {w} /\ \A A, b : Never(one, A, b)
  BY <1>3, <1>5 DEF ToSet, Never
<1>7. ASSUME NEW d \in Clients, d \in Reached \ {c}
      PROVE  /\ ToSet(News(d, i)') = ToSet(News(d, i)) \cup {w}
             /\ \A A, b : Never(News(d, i), A, b) /\ (w # b \/ ToSet(News(d, i)) \cap A = {}) => Never(News(d, i)', A, b)
             /\ \A a, b : After(News(d, i), a, b) \/ (a \in ToSet(News(d, i)) /\ b = w) => After(News(d, i)', a, b)
  <2>1. PICK u, all : u = News(d, i) /\ all = News(d, i)'
    OBVIOUS
  <2>2. u \in Seq(About(i)) /\ all = u \o one
    BY <1>5, <1>7, <2>1 DEF Attends
  <2>3. ASSUME NEW A, NEW b, Never(u, A, b), w # b \/ ToSet(u) \cap A = {}
        PROVE  Never(all, A, b)
    BY <1>6, <2>2, <2>3, NeverConcat
  <2>4. ASSUME NEW a, NEW b, After(u, a, b) \/ (a \in ToSet(u) /\ b = w)
        PROVE  After(all, a, b)
    BY <1>6, <2>2, <2>4, AfterConcat
  <2> QED
    BY <1>6, <2>1, <2>2, <2>3, <2>4, ToSetConcat
<1>8. \A d \in Clients : d \notin Reached \ {c} => News(d, i)' = News(d, i)
  BY DEF Attends
<1>9. \A d \in Clients : d # c => Reports(d, i)' = Reports(d, i)
  BY DEF Attends
<1>10. \A d \in Clients, j \in Over(i) :
         /\ Hears(i, d, j)' <=> Hears(i, d, j) \/ (d \in Reached \ {c} /\ w = spawnMessage(j))
         /\ HearsGone(i, d, j)' <=> HearsGone(i, d, j) \/ (d \in Reached \ {c} /\ w = despawnMessage(j))
  BY <1>7, <1>8 DEF Hears, HearsGone
<1>11. \A d \in Clients, j \in Over(i) :
         /\ Tells(i, d, j) <=> Tells(i, d, j)' \/ (d = c /\ w = spawnMessage(j))
         /\ TellsGone(i, d, j) <=> TellsGone(i, d, j)' \/ (d = c /\ w = despawnMessage(j))
  BY <1>1, <1>3, <1>9 DEF Tells, TellsGone
<1>12. \A d \in Clients : \A A, b : Never(Reports(d, i), A, b) =>
         /\ Never(Reports(d, i)', A, b)
         /\ d = c /\ w \in A => b \notin ToSet(Reports(c, i)')
  BY <1>1, <1>4, <1>9
<1>13. ASSUME NEW d \in Clients, NEW A, NEW b, Never(News(d, i), A, b), w # b \/ ToSet(News(d, i)) \cap A = {}
       PROVE  Never(News(d, i)', A, b)
  BY <1>7, <1>8, <1>13
<1>14. ASSUME NEW d \in Clients, NEW a, NEW b,
              After(News(d, i), a, b) \/ (d \in Reached \ {c} /\ a \in ToSet(News(d, i)) /\ b = w)
       PROVE  After(News(d, i)', a, b)
  BY <1>7, <1>8, <1>14
<1> QED
  BY <1>3, <1>10, <1>11, <1>12, <1>13, <1>14

\* The host took an instance it heard of, in what it has.
AttendsSpawn(c, j0, i) ==
  /\ Attends(c, spawnMessage(j0), i)
  /\ \A k \in Over(j0) \ {j0} : In(Host, k)
  /\ \A j \in Over(i) :
       /\ In(Host, j)' <=> In(Host, j) \/ j = j0
       /\ Knows(Host, j)' <=> Knows(Host, j) \/ j = j0

\* The games agree after the host attended to a client that placed j0, and passed it on.
LEMMA AttendsSpawnAgreed ==
  ASSUME NEW i \in Instances, NEW c \in Clients, NEW j0 \in Over(i), Agreed(i), AttendsSpawn(c, j0, i), HostOrder(i)'
  PROVE  Agreed(i)'
<1>0. c \in Games /\ c # Host /\ Host \in Games
  BY GamesAre
<1>1. Attends(c, spawnMessage(j0), i)
  BY DEF AttendsSpawn
<1>2. \A j \in Over(i) : spawnMessage(j0) # despawnMessage(j) /\ (spawnMessage(j0) = spawnMessage(j) => j = j0)
  BY DEF spawnMessage, despawnMessage
<1>3. \A d \in Clients, j \in Over(i) :
        /\ Hears(i, d, j)' <=> Hears(i, d, j) \/ (d \in Reached \ {c} /\ j = j0)
        /\ HearsGone(i, d, j)' <=> HearsGone(i, d, j)
        /\ Tells(i, d, j) <=> Tells(i, d, j)' \/ (d = c /\ j = j0)
        /\ TellsGone(i, d, j)' <=> TellsGone(i, d, j)
  BY <1>1, <1>2, AttendsHears
<1>4. Tells(i, c, j0) /\ j0 \in Over(j0)
  BY <1>3, OverIs
\* What it hears of was only with c.
<1>5. \A j \in Over(i) : j0 \in Over(j) =>
        /\ Alone(c, j)
        /\ \A d \in Clients : /\ ~Hears(i, d, j) /\ ~HearsGone(i, d, j)
                              /\ d # c => ~Tells(i, d, j) /\ ~TellsGone(i, d, j)
  BY <1>4 DEF Agreed, Reported
<1>6. \A d \in Clients : ~Tells(i, d, j0)'
  <2>1. Never(Reports(c, i), {spawnMessage(j0), despawnMessage(j0)}, spawnMessage(j0))
    BY <1>4 DEF Agreed, Reported
  <2> QED
    BY <1>1, <1>3, <1>4, <1>5, <2>1, AttendsHears DEF Tells
<1>7. \A j \in Over(i) : In(Host, j) => Knows(Host, j)
  BY <1>0, <1>1, OverIs DEF Agreed, Placed, Attends
<1>8. \A j \in Over(i) : Silence(i, j) => Silence(i, j)' /\ j # j0
  BY <1>3, <1>4 DEF Silence
<1>9. \A j \in Over(i), h \in Games : Alone(h, j) /\ j # j0 => Alone(h, j)'
  BY <1>0 DEF Alone, AttendsSpawn, Attends
<1>10. \A j \in Over(i) : Dead(i, j) => Dead(i, j)' /\ j # j0
  BY <1>0, <1>3, <1>4, GamesAre DEF Dead, AttendsSpawn, Attends
<1>11. \A d \in Clients, j \in Over(i) : Leaving(i, d, j) => Leaving(i, d, j)'
  BY <1>3, OverIs, GamesAre DEF Attends, AttendsSpawn, Leaving
<1>12. Unplaced(i)'
  BY <1>4, <1>8, OverIs, GamesAre DEF Agreed, Unplaced, AttendsSpawn, Attends, Silence
<1>13. Placed(i)'
  <2> SUFFICES ASSUME NEW j \in Over(i), NEW h \in Games, NEW k \in Over(j), In(h, k)', ~Knows(h, k)'
               PROVE  Placing(h, k)' /\ Alone(h, j)' /\ Silence(i, j)'
    BY DEF Placed
  <2> QED
    BY <1>7, <1>8, <1>9, OverIs DEF AttendsSpawn, Attends, Agreed, Placed
<1>14. Reported(i)'
  <2> SUFFICES ASSUME NEW k \in Over(i), NEW d \in Clients, Tells(i, d, k)'
               PROVE  /\ \A j \in Over(i) : k \in Over(j) =>
                           /\ Alone(d, j)'
                           /\ Never(Reports(d, i)', {spawnMessage(j), despawnMessage(j)}, spawnMessage(k))
                           /\ \A e \in Clients : /\ ~Hears(i, e, j)' /\ ~HearsGone(i, e, j)'
                                                 /\ e # d => ~Tells(i, e, j)' /\ ~TellsGone(i, e, j)'
                      /\ Online(d)' => \/ In(d, k)' \/ Leaving(i, d, k)'
                                       \/ \E l \in Over(k) \ {k} : Dead(i, l)'
    BY DEF Reported
  <2>1. Tells(i, d, k) /\ d \in Games /\ d # Host /\ k # j0
    BY <1>3, <1>6, GamesAre
  <2>2. ASSUME NEW j \in Over(i), k \in Over(j)
        PROVE  /\ Alone(d, j)'
               /\ Never(Reports(d, i)', {spawnMessage(j), despawnMessage(j)}, spawnMessage(k))
               /\ \A e \in Clients : /\ ~Hears(i, e, j)' /\ ~HearsGone(i, e, j)'
                                     /\ e # d => ~Tells(i, e, j)' /\ ~TellsGone(i, e, j)'
    <3>1. /\ Alone(d, j)
          /\ Never(Reports(d, i), {spawnMessage(j), despawnMessage(j)}, spawnMessage(k))
          /\ \A e \in Clients : /\ ~Hears(i, e, j) /\ ~HearsGone(i, e, j)
                                /\ e # d => ~Tells(i, e, j) /\ ~TellsGone(i, e, j)
      BY <2>1, <2>2 DEF Agreed, Reported
    <3>2. j # j0
      BY <1>0, <2>1, <2>2, OverIs DEF AttendsSpawn, Agreed, Reported, Alone
    <3>3. Never(Reports(d, i)', {spawnMessage(j), despawnMessage(j)}, spawnMessage(k))
      BY <1>1, <3>1, AttendsHears
    <3> QED
      BY <1>3, <1>9, <2>1, <3>1, <3>2, <3>3
  <2> QED
    BY <1>10, <1>11, <2>1, <2>2, OverIs DEF Agreed, Reported, AttendsSpawn, Attends
<1>15. Nested(i)'
  <2>1. \A j \in Over(i), g \in Games : In(g, j) => \A k \in Over(j) : In(g, k) /\ (Knows(g, j) => Knows(g, k))
    BY DEF Agreed, Nested
  <2> SUFFICES ASSUME NEW j \in Over(i), NEW g \in Games, In(g, j)', NEW k \in Over(j)
               PROVE  In(g, k)' /\ (Knows(g, j)' => Knows(g, k)')
    BY DEF Nested
  <2>2. k \in Over(i)
    BY OverIs
  <2>3. CASE g # Host
    BY <2>1, <2>2, <2>3 DEF AttendsSpawn, Attends
  <2>4. CASE g = Host
    BY <1>0, <1>7, <2>1, <2>2, <2>4 DEF AttendsSpawn
  <2> QED
    BY <2>3, <2>4
<1>16. GoneIsDead(i)'
  BY <1>3, <1>10 DEF Agreed, GoneIsDead
<1>17. GoneIsLast(i)'
  <2> SUFFICES ASSUME NEW j \in Over(i), NEW d \in Clients, NEW k \in Over(j)
               PROVE  Never(News(d, i)', {despawnMessage(k)}, spawnMessage(j))
    BY DEF GoneIsLast
  <2>1. k \in Over(i) /\ Never(News(d, i), {despawnMessage(k)}, spawnMessage(j))
    BY OverIs DEF Agreed, GoneIsLast
  <2>2. j = j0 => despawnMessage(k) \notin ToSet(News(d, i))
    <3>1. SUFFICES ASSUME j = j0, HearsGone(i, d, k) PROVE FALSE
      BY DEF HearsGone
    <3> QED
      BY <1>10, <2>1, <3>1 DEF Dead, AttendsSpawn, Agreed, GoneIsDead
  <2> QED
    BY <1>1, <1>2, <2>1, <2>2, AttendsHears
<1>18. OuterFirst(i)'
  <2> SUFFICES ASSUME NEW j \in Over(i), NEW d \in Clients, NEW k \in Over(j) \ {j},
                      ~Newcomer(d)', In(Host, j)', Hears(i, d, j)'
               PROVE  \/ Knows(d, k)' \/ TellsGone(i, d, k)'
                      \/ After(News(d, i)', spawnMessage(k), spawnMessage(j))
    BY DEF OuterFirst
  <2>1. k \in Over(i) /\ Over(k) = {k} /\ ~Newcomer(d) /\ d \in Games /\ d # Host
    BY <1>1, OverIs, GamesAre DEF Attends
  <2>2. SUFFICES ASSUME ~Knows(d, k), ~TellsGone(i, d, k)
                 PROVE  After(News(d, i)', spawnMessage(k), spawnMessage(j))
    BY <1>3, <2>1 DEF AttendsSpawn, Attends
  <2>3. CASE j # j0
    BY <1>1, <1>3, <2>1, <2>2, <2>3, AttendsHears DEF Agreed, OuterFirst, AttendsSpawn
  <2>4. CASE j = j0
    <3>1. d \in Reached \ {c}
      BY <1>3, <1>4, <1>5, <2>4
    <3>2. In(Host, k) /\ Knows(Host, k)
      BY <1>7, <2>1, <2>4 DEF AttendsSpawn
    <3>3. Hears(i, d, k)
      BY <1>0, <2>1, <2>2, <3>1, <3>2, OverIs DEF Agreed, ClientsFollow, Leaving, Going, Placed, Alone
    <3> QED
      BY <1>1, <2>4, <3>1, <3>3, AttendsHears DEF Hears
  <2> QED
    BY <2>3, <2>4
<1>19. Missing(i)'
  <2> SUFFICES ASSUME NEW j \in Over(i), NEW d \in Clients, Knows(d, j)', ~In(d, j)'
               PROVE  ~Hears(i, d, j)' /\ (Leaving(i, d, j)' \/ \E k \in Over(j) : Dead(i, k)')
    BY DEF Missing
  <2>1. Knows(d, j) /\ ~In(d, j) /\ d \in Games /\ d # Host
    BY GamesAre DEF AttendsSpawn, Attends
  <2>2. j = j0 => d = c
    BY <1>4, <1>5, <2>1 DEF Alone
  <2> QED
    BY <1>3, <1>10, <1>11, <2>1, <2>2, OverIs DEF Agreed, Missing
<1>20. Retracted(i)'
  <2> SUFFICES ASSUME NEW j \in Over(i), NEW d \in Clients, Online(d)', TellsGone(i, d, j)'
               PROVE  ~In(d, j)' /\ ~Knows(d, j)' /\ ~Hears(i, d, j)'
    BY DEF Retracted
  <2> QED
    BY <1>1, <1>3, <1>4, <1>5, GamesAre DEF AttendsSpawn, Attends, Agreed, Retracted
<1>21. HeardOnce(i)'
  <2> SUFFICES ASSUME NEW j \in Over(i), NEW d \in Clients, d \in Reached'
               PROVE  HearsOnce(i, d, j)' \/ HearsEarly(d, j)'
    BY DEF HeardOnce
  <2>0. d \in Reached /\ d \in Games /\ d # Host
    BY <1>1, GamesAre DEF Attends
  <2>1. CASE j = j0 /\ d # c
    <3>1. ~Hears(i, d, j0) /\ ~Knows(d, j0)
      BY <1>4, <1>5, <2>0, <2>1 DEF Alone
    <3>2. ToSet(News(d, i)) \cap {spawnMessage(j0)} = {}
      BY <3>1 DEF Hears
    <3>3. Never(News(d, i), {spawnMessage(j0)}, spawnMessage(j0))
      <4>1. PICK s : s = News(d, i)
        OBVIOUS
      <4> QED
        BY <1>1, <3>2, <4>1, NeverNone DEF Attends
    <3>4. ~Knows(d, j0)'
      BY <2>0, <3>1 DEF AttendsSpawn, Attends
    <3> QED
      BY <1>1, <2>1, <3>2, <3>3, <3>4, AttendsHears DEF HearsOnce
  <2>2. CASE j # j0 \/ d = c
    <3>1. j = j0 => ~Hears(i, d, j)
      BY <1>4, <1>5
    <3>2. HearsOnce(i, d, j) => HearsOnce(i, d, j)'
      <4> SUFFICES ASSUME HearsOnce(i, d, j) PROVE Never(News(d, i)', {spawnMessage(j)}, spawnMessage(j))
        BY <1>3, <2>0, <2>2 DEF HearsOnce, AttendsSpawn, Attends
      <4> QED
        BY <1>1, <1>2, <3>1, AttendsHears DEF Hears, HearsOnce
    <3>3. CASE j # j0
      BY <1>1, <1>2, <2>0, <3>2, <3>3 DEF Agreed, HeardOnce, Attends
    <3>4. CASE j = j0
      <4>1. PICK s : s = News(d, i)
        OBVIOUS
      <4> QED
        BY <1>1, <3>1, <3>2, <3>4, <4>1, NeverNone DEF HearsOnce, Attends, Hears
    <3> QED
      BY <3>3, <3>4
  <2> QED
    BY <2>1, <2>2
<1>22. ClientsFollow(i)'
  <2> SUFFICES ASSUME NEW j \in Over(i), NEW d \in Clients, d \in Reached', ~Newcomer(d)', In(Host, j)', Knows(Host, j)'
               PROVE  Hears(i, d, j)' \/ In(d, j)' \/ Leaving(i, d, j)'
    BY DEF ClientsFollow
  <2>1. d \in Reached /\ ~Newcomer(d) /\ d \in Games /\ d # Host
    BY <1>1, GamesAre DEF Attends
  <2>2. CASE j # j0
    BY <1>3, <1>11, <2>1, <2>2 DEF AttendsSpawn, Attends, Agreed, ClientsFollow
  <2>3. CASE j = j0 /\ d # c
    BY <1>3, <2>1, <2>3
  <2>4. CASE j = j0 /\ d = c
    BY <1>1, <1>4, <1>11, <2>1, <2>4 DEF AttendsSpawn, Attends, Agreed, Reported, Dead
  <2> QED
    BY <2>2, <2>3, <2>4
<1>23. HostFollows(i)'
  <2> SUFFICES ASSUME NEW j \in Over(i), NEW d \in Clients,
                      In(d, j)' \/ (Hears(i, d, j)' /\ \A k \in Over(j) \ {j} : Newcomer(d)' \/ In(d, k)' \/ Hears(i, d, k)')
               PROVE  \/ In(Host, j)' \/ (In(d, j)' /\ ~Knows(d, j)') \/ Tells(i, d, j)'
                      \/ \E k \in Over(j) : HearsGone(i, d, k)' \/ Going(Host, k)'
    BY DEF HostFollows
  <2>1. d \in Games /\ d # Host /\ Over(j) \subseteq Over(i) /\ Host \in Games
    BY OverIs, GamesAre
  <2>2. CASE j = j0
    BY <2>2 DEF AttendsSpawn
  <2>3. CASE j # j0
    <3>1. Hears(i, d, j)' => Hears(i, d, j) /\ j0 \notin Over(j)
      BY <1>3, <1>5, <2>3
    <3>2. In(d, j) \/ (Hears(i, d, j) /\ \A k \in Over(j) \ {j} : Newcomer(d) \/ In(d, k) \/ Hears(i, d, k))
      <4>1. CASE In(d, j)'
        BY <2>1, <4>1 DEF AttendsSpawn, Attends
      <4>2. CASE Hears(i, d, j)' /\ \A k \in Over(j) \ {j} : Newcomer(d)' \/ In(d, k)' \/ Hears(i, d, k)'
        <5>1. ASSUME NEW k \in Over(j) \ {j}
              PROVE  Newcomer(d) \/ In(d, k) \/ Hears(i, d, k)
          BY <1>1, <1>3, <2>1, <3>1, <4>2 DEF Attends
        <5> QED
          BY <3>1, <4>2, <5>1
      <4> QED
        BY <4>1, <4>2
    <3> QED
      BY <1>2, <1>3, <2>1, <2>3, <3>2 DEF AttendsSpawn, Attends, Agreed, HostFollows
  <2> QED
    BY <2>2, <2>3
<1> QED
  BY <1>12, <1>13, <1>14, <1>15, <1>16, <1>17, <1>18, <1>19, <1>20, <1>21, <1>22, <1>23 DEF Agreed

\* The host took that an instance is gone, with what is in it, and forgot it; it is not one it decides for.
AttendsGone(c, j0, i) ==
  /\ Attends(c, despawnMessage(j0), i)
  /\ ~Going(Host, j0)
  /\ \A j \in Over(i) :
       /\ Going(Host, j) => Going(Host, j)'
       /\ In(Host, j)' <=> In(Host, j) /\ j0 \notin Over(j)
       /\ Knows(Host, j)' <=> Knows(Host, j) /\ j # j0

\* The games agree after the host attended to a client that destroyed j0, and passed it on.
LEMMA AttendsGoneAgreed ==
  ASSUME NEW i \in Instances, NEW c \in Clients, NEW j0 \in Over(i), Agreed(i), AttendsGone(c, j0, i), HostOrder(i)'
  PROVE  Agreed(i)'
<1>0. c \in Games /\ c # Host /\ Host \in Games
  BY GamesAre
<1>1. Attends(c, despawnMessage(j0), i)
  BY DEF AttendsGone
<1>2. \A j \in Over(i) : despawnMessage(j0) # spawnMessage(j) /\ (despawnMessage(j0) = despawnMessage(j) => j = j0)
  BY DEF spawnMessage, despawnMessage
<1>3. \A d \in Clients, j \in Over(i) :
        /\ Hears(i, d, j)' <=> Hears(i, d, j)
        /\ HearsGone(i, d, j)' <=> HearsGone(i, d, j) \/ (d \in Reached \ {c} /\ j = j0)
        /\ Tells(i, d, j)' <=> Tells(i, d, j)
        /\ TellsGone(i, d, j) <=> TellsGone(i, d, j)' \/ (d = c /\ j = j0)
  BY <1>1, <1>2, AttendsHears
<1>4. TellsGone(i, c, j0) /\ j0 \in Over(j0)
  BY <1>3, OverIs
<1>5. \A j \in Over(i) : In(Host, j) => Knows(Host, j)
  BY <1>0, <1>1, OverIs DEF Agreed, Placed, Attends
\* Nothing is left to hear of what it, or what it is in, was told of.
<1>6. \A d \in Clients, k \in Over(j0) : ~Tells(i, d, k)
  <2> SUFFICES ASSUME NEW d \in Clients, NEW k \in Over(j0), Tells(i, d, k) PROVE FALSE
    OBVIOUS
  <2>1. k \in Over(i)
    BY OverIs
  <2>2. d = c
    BY <1>4, <2>1 DEF Agreed, Reported
  <2>3. Never(Reports(c, i), {spawnMessage(j0), despawnMessage(j0)}, spawnMessage(k))
    BY <2>1, <2>2 DEF Agreed, Reported
  <2> QED
    BY <1>1, <1>3, <2>1, <2>2, <2>3, AttendsHears DEF Tells
<1>7. Dead(i, j0)'
  <2>1. ~Free(j0)'
    BY <1>1, <1>4 DEF Agreed, Unplaced, Silence, Attends
  <2> QED
    BY <1>1, <1>3, <1>4, <1>6, <2>1, GamesAre DEF Dead, AttendsGone, Attends, Agreed, Placed, Silence
<1>8. \A j \in Over(i) : Dead(i, j) => Dead(i, j)'
  BY <1>0, <1>3, GamesAre DEF Dead, AttendsGone, Attends
<1>9. \A j \in Over(i) : Silence(i, j) => Silence(i, j)'
  BY <1>3, <1>4 DEF Silence
<1>10. \A j \in Over(i), h \in Games : Alone(h, j) => Alone(h, j)'
  BY <1>0 DEF Alone, AttendsGone, Attends
<1>11. \A d \in Clients, j \in Over(i) : Leaving(i, d, j) => Leaving(i, d, j)' \/ (d = c /\ j0 \in Over(j))
  <2> SUFFICES ASSUME NEW d \in Clients, NEW j \in Over(i), NEW k \in Over(j), Going(d, k) \/ TellsGone(i, d, k),
                      ~(d = c /\ k = j0)
               PROVE  Going(d, k)' \/ TellsGone(i, d, k)'
    BY DEF Leaving
  <2> QED
    BY <1>3, OverIs, GamesAre DEF AttendsGone, Attends
<1>12. Unplaced(i)'
  BY <1>9, OverIs, GamesAre DEF Agreed, Unplaced, AttendsGone, Attends
<1>13. Placed(i)'
  <2> SUFFICES ASSUME NEW j \in Over(i), NEW h \in Games, NEW k \in Over(j), In(h, k)', ~Knows(h, k)'
               PROVE  Placing(h, k)' /\ Alone(h, j)' /\ Silence(i, j)'
    BY DEF Placed
  <2> QED
    BY <1>5, <1>9, <1>10, OverIs DEF AttendsGone, Attends, Agreed, Placed
<1>14. Reported(i)'
  <2> SUFFICES ASSUME NEW k \in Over(i), NEW d \in Clients, Tells(i, d, k)'
               PROVE  /\ \A j \in Over(i) : k \in Over(j) =>
                           /\ Alone(d, j)'
                           /\ Never(Reports(d, i)', {spawnMessage(j), despawnMessage(j)}, spawnMessage(k))
                           /\ \A e \in Clients : /\ ~Hears(i, e, j)' /\ ~HearsGone(i, e, j)'
                                                 /\ e # d => ~Tells(i, e, j)' /\ ~TellsGone(i, e, j)'
                      /\ Online(d)' => \/ In(d, k)' \/ Leaving(i, d, k)'
                                       \/ \E l \in Over(k) \ {k} : Dead(i, l)'
    BY DEF Reported
  <2>1. Tells(i, d, k) /\ d \in Games /\ d # Host /\ k \notin Over(j0)
    BY <1>3, <1>6, GamesAre
  <2>2. Online(d)' => \/ In(d, k)' \/ Leaving(i, d, k)'
                      \/ \E l \in Over(k) \ {k} : Dead(i, l)'
    <3>1. CASE d = c /\ j0 \in Over(k)
      BY <1>4, <1>7, <2>1, <3>1
    <3>2. CASE ~(d = c /\ j0 \in Over(k))
      BY <1>8, <1>11, <2>1, <3>2, OverIs DEF Agreed, Reported, AttendsGone, Attends
    <3> QED
      BY <3>1, <3>2
  <2>3. ASSUME NEW j \in Over(i), k \in Over(j)
        PROVE  /\ Alone(d, j)'
               /\ Never(Reports(d, i)', {spawnMessage(j), despawnMessage(j)}, spawnMessage(k))
               /\ \A e \in Clients : /\ ~Hears(i, e, j)' /\ ~HearsGone(i, e, j)'
                                     /\ e # d => ~Tells(i, e, j)' /\ ~TellsGone(i, e, j)'
    <3>1. /\ Alone(d, j)
          /\ Never(Reports(d, i), {spawnMessage(j), despawnMessage(j)}, spawnMessage(k))
          /\ \A e \in Clients : /\ ~Hears(i, e, j) /\ ~HearsGone(i, e, j)
                                /\ e # d => ~Tells(i, e, j) /\ ~TellsGone(i, e, j)
      BY <2>1, <2>3 DEF Agreed, Reported
    <3>2. Never(Reports(d, i)', {spawnMessage(j), despawnMessage(j)}, spawnMessage(k))
      BY <1>1, <3>1, AttendsHears
    <3> QED
      BY <1>3, <1>10, <2>1, <2>3, <3>1, <3>2
  <2> QED
    BY <2>2, <2>3
<1>15. Nested(i)'
  <2>1. \A j \in Over(i), g \in Games : In(g, j) => \A k \in Over(j) : In(g, k) /\ (Knows(g, j) => Knows(g, k))
    BY DEF Agreed, Nested
  <2> SUFFICES ASSUME NEW j \in Over(i), NEW g \in Games, In(g, j)', NEW k \in Over(j)
               PROVE  In(g, k)' /\ (Knows(g, j)' => Knows(g, k)')
    BY DEF Nested
  <2>2. k \in Over(i) /\ k \in Over(k) /\ Over(k) \subseteq Over(j)
    BY OverIs
  <2>3. CASE g # Host
    BY <2>1, <2>2, <2>3 DEF AttendsGone, Attends
  <2>4. CASE g = Host
    BY <1>0, <2>1, <2>2, <2>4 DEF AttendsGone
  <2> QED
    BY <2>3, <2>4
<1>16. GoneIsDead(i)'
  BY <1>3, <1>7, <1>8 DEF Agreed, GoneIsDead
<1>17. GoneIsLast(i)'
  <2> SUFFICES ASSUME NEW j \in Over(i), NEW d \in Clients, NEW k \in Over(j)
               PROVE  Never(News(d, i)', {despawnMessage(k)}, spawnMessage(j))
    BY DEF GoneIsLast
  <2> QED
    BY <1>1, <1>2, AttendsHears DEF Agreed, GoneIsLast
<1>18. OuterFirst(i)'
  <2> SUFFICES ASSUME NEW j \in Over(i), NEW d \in Clients, NEW k \in Over(j) \ {j},
                      ~Newcomer(d)', In(Host, j)', Hears(i, d, j)'
               PROVE  \/ Knows(d, k)' \/ TellsGone(i, d, k)'
                      \/ After(News(d, i)', spawnMessage(k), spawnMessage(j))
    BY DEF OuterFirst
  <2> QED
    BY <1>1, <1>3, OverIs, GamesAre, AttendsHears DEF AttendsGone, Attends, Agreed, OuterFirst
<1>19. Missing(i)'
  <2> SUFFICES ASSUME NEW j \in Over(i), NEW d \in Clients, Knows(d, j)', ~In(d, j)'
               PROVE  ~Hears(i, d, j)' /\ (Leaving(i, d, j)' \/ \E k \in Over(j) : Dead(i, k)')
    BY DEF Missing
  <2> QED
    BY <1>3, <1>7, <1>8, <1>11, OverIs, GamesAre DEF Agreed, Missing, AttendsGone, Attends
<1>20. Retracted(i)'
  <2> SUFFICES ASSUME NEW j \in Over(i), NEW d \in Clients, Online(d)', TellsGone(i, d, j)'
               PROVE  ~In(d, j)' /\ ~Knows(d, j)' /\ ~Hears(i, d, j)'
    BY DEF Retracted
  <2> QED
    BY <1>1, <1>3, GamesAre DEF AttendsGone, Attends, Agreed, Retracted
<1>21. HeardOnce(i)'
  <2> SUFFICES ASSUME NEW j \in Over(i), NEW d \in Clients, d \in Reached', HearsOnce(i, d, j)
               PROVE  HearsOnce(i, d, j)'
    BY <1>1, <1>2 DEF Agreed, HeardOnce, Attends
  <2> QED
    BY <1>1, <1>2, <1>3, AttendsHears, GamesAre DEF HearsOnce, AttendsGone, Attends
<1>22. ClientsFollow(i)'
  <2> SUFFICES ASSUME NEW j \in Over(i), NEW d \in Clients, d \in Reached', ~Newcomer(d)', In(Host, j)', Knows(Host, j)'
               PROVE  Hears(i, d, j)' \/ In(d, j)' \/ Leaving(i, d, j)'
    BY DEF ClientsFollow
  <2> QED
    BY <1>1, <1>3, <1>11, GamesAre DEF AttendsGone, Attends, Agreed, ClientsFollow
<1>23. HostFollows(i)'
  <2> SUFFICES ASSUME NEW j \in Over(i), NEW d \in Clients,
                      In(d, j)' \/ (Hears(i, d, j)' /\ \A k \in Over(j) \ {j} : Newcomer(d)' \/ In(d, k)' \/ Hears(i, d, k)')
               PROVE  \/ In(Host, j)' \/ (In(d, j)' /\ ~Knows(d, j)') \/ Tells(i, d, j)'
                      \/ \E k \in Over(j) : HearsGone(i, d, k)' \/ Going(Host, k)'
    BY DEF HostFollows
  <2>1. d \in Games /\ d # Host /\ Over(j) \subseteq Over(i) /\ Host \in Games /\ j \in Over(j)
    BY OverIs, GamesAre
  <2>2. In(d, j) \/ (Hears(i, d, j) /\ \A k \in Over(j) \ {j} : Newcomer(d) \/ In(d, k) \/ Hears(i, d, k))
    BY <1>1, <1>3, <2>1 DEF Attends
  <2>3. d \in Reached
    BY <1>1, <2>2, WordsAre DEF Attends, In
  <2>4. CASE j0 \in Over(j) /\ d # c
    BY <1>3, <2>3, <2>4
  <2>5. CASE j0 \in Over(j) /\ d = c
    BY <1>0, <1>1, <1>4, <2>2, <2>3, <2>5 DEF Agreed, Retracted, Nested, Attends
  <2>6. CASE j0 \notin Over(j)
    BY <1>3, <2>1, <2>2, <2>6 DEF AttendsGone, Attends, Agreed, HostFollows
  <2> QED
    BY <2>4, <2>5, <2>6
<1> QED
  BY <1>12, <1>13, <1>14, <1>15, <1>16, <1>17, <1>18, <1>19, <1>20, <1>21, <1>22, <1>23 DEF Agreed

\* The host tells c, that has said nothing yet, of all it has.
Greets(c, X, i) ==
  /\ c \in Reached => /\ Newcomer(c) /\ Reports(c, i) = <<>>
                      /\ \A j \in Over(i) : ~Going(c, j) /\ HearsEarly(c, j)'
  /\ X \in Seq(About(i))
  /\ \A j \in Over(i) :
       /\ spawnMessage(j) \in ToSet(X) <=> In(Host, j) /\ Knows(Host, j)
       /\ despawnMessage(j) \notin ToSet(X)
       /\ \A k \in Over(j) \ {j} :
            {spawnMessage(j), spawnMessage(k)} \subseteq ToSet(X) => After(X, spawnMessage(k), spawnMessage(j))
  /\ \A d \in Clients :
       /\ News(d, i) \in Seq(About(i))
       /\ News(d, i)' = IF d = c /\ c \in Reached THEN News(d, i) \o X ELSE News(d, i)
       /\ Reports(d, i)' = Reports(d, i)
       /\ Online(d)' <=> Online(d)
       /\ Newcomer(d)' => Newcomer(d)
       /\ Newcomer(d) /\ d # c => Newcomer(d)'
       /\ d \in Reached' <=> d \in Reached
  /\ \A j \in Over(i) :
       /\ Free(j)' <=> Free(j)
       /\ ~Placing(Host, j)
       /\ \A d \in Clients \ {c} : HearsEarly(d, j) => HearsEarly(d, j)'
       /\ \A h \in Games :
            /\ In(h, j)' <=> In(h, j)
            /\ Knows(h, j)' <=> Knows(h, j)
            /\ Going(h, j) => Going(h, j)'
            /\ h # Host /\ Placing(h, j) => Placing(h, j)'

\* The games agree after the host told a newcomer of all it has.
LEMMA GreetAgreed ==
  ASSUME NEW i \in Instances, NEW c \in Clients, NEW X, Agreed(i), Greets(c, X, i), HostOrder(i)'
  PROVE  Agreed(i)'
<1>0. c \in Games /\ c # Host /\ Host \in Games
  BY GamesAre
<1>1. \A d \in Clients : (d # c \/ c \notin Reached) => News(d, i)' = News(d, i)
  BY DEF Greets
<1>2. ASSUME c \in Reached
      PROVE  /\ ToSet(News(c, i)') = ToSet(News(c, i)) \cup ToSet(X)
             /\ \A A, b : Never(News(c, i), A, b) /\ Never(X, A, b) /\ (b \notin ToSet(X) \/ ToSet(News(c, i)) \cap A = {})
                            => Never(News(c, i)', A, b)
             /\ \A a, b : After(News(c, i), a, b) \/ After(X, a, b) => After(News(c, i)', a, b)
  <2>1. PICK s, all : s = News(c, i) /\ all = News(c, i)'
    OBVIOUS
  <2>2. s \in Seq(About(i)) /\ X \in Seq(About(i)) /\ all = s \o X
    BY <1>2, <2>1 DEF Greets
  <2>3. ASSUME NEW A, NEW b, Never(s, A, b), Never(X, A, b), b \notin ToSet(X) \/ ToSet(s) \cap A = {}
        PROVE  Never(all, A, b)
    BY <2>2, <2>3, NeverConcat
  <2>4. ASSUME NEW a, NEW b, After(s, a, b) \/ After(X, a, b)
        PROVE  After(all, a, b)
    BY <2>2, <2>4, AfterConcat
  <2> QED
    BY <2>1, <2>2, <2>3, <2>4, ToSetConcat
<1>3. \A d \in Clients, j \in Over(i) :
        /\ Hears(i, d, j)' <=> Hears(i, d, j) \/ (d = c /\ c \in Reached /\ In(Host, j) /\ Knows(Host, j))
        /\ HearsGone(i, d, j)' <=> HearsGone(i, d, j)
        /\ Tells(i, d, j)' <=> Tells(i, d, j)
        /\ TellsGone(i, d, j)' <=> TellsGone(i, d, j)
  BY <1>1, <1>2 DEF Hears, HearsGone, Tells, TellsGone, Greets
<1>4. \A j \in Over(i) : In(Host, j) => Knows(Host, j)
  BY <1>0, OverIs DEF Agreed, Placed, Greets
<1>5. \A j \in Over(i), h \in Games : Alone(h, j) <=> Alone(h, j)'
  BY <1>0 DEF Alone, Greets
<1>6. \A j \in Over(i), h \in Games : Alone(h, j) /\ h # Host => ~In(Host, j) /\ ~Knows(Host, j)
  BY <1>0 DEF Alone
<1>7. \A j \in Over(i) : ~In(Host, j) /\ Silence(i, j) => Silence(i, j)'
  BY <1>3 DEF Silence
<1>8. \A d \in Clients, j \in Over(i) : Leaving(i, d, j) => Leaving(i, d, j)'
  BY <1>3, OverIs, GamesAre DEF Greets, Leaving
<1>9. \A j \in Over(i) : Dead(i, j) => Dead(i, j)'
  BY <1>0, <1>3, GamesAre DEF Dead, Greets
<1>10. Unplaced(i)'
  BY <1>0, <1>7, OverIs DEF Agreed, Unplaced, Greets
<1>11. Placed(i)'
  <2> SUFFICES ASSUME NEW j \in Over(i), NEW h \in Games, NEW k \in Over(j), In(h, k)', ~Knows(h, k)'
               PROVE  Placing(h, k)' /\ Alone(h, j)' /\ Silence(i, j)'
    BY DEF Placed
  <2> QED
    BY <1>4, <1>5, <1>6, <1>7, OverIs DEF Greets, Agreed, Placed
<1>12. Reported(i)'
  <2> SUFFICES ASSUME NEW k \in Over(i), NEW d \in Clients, Tells(i, d, k)'
               PROVE  /\ \A j \in Over(i) : k \in Over(j) =>
                           /\ Alone(d, j)'
                           /\ Never(Reports(d, i)', {spawnMessage(j), despawnMessage(j)}, spawnMessage(k))
                           /\ \A e \in Clients : /\ ~Hears(i, e, j)' /\ ~HearsGone(i, e, j)'
                                                 /\ e # d => ~Tells(i, e, j)' /\ ~TellsGone(i, e, j)'
                      /\ Online(d)' => \/ In(d, k)' \/ Leaving(i, d, k)'
                                       \/ \E l \in Over(k) \ {k} : Dead(i, l)'
    BY DEF Reported
  <2>1. Tells(i, d, k) /\ d \in Games /\ d # Host /\ Reports(d, i)' = Reports(d, i)
    BY <1>3, GamesAre DEF Greets
  <2>2. ASSUME NEW j \in Over(i), k \in Over(j)
        PROVE  /\ Alone(d, j)'
               /\ Never(Reports(d, i)', {spawnMessage(j), despawnMessage(j)}, spawnMessage(k))
               /\ \A e \in Clients : /\ ~Hears(i, e, j)' /\ ~HearsGone(i, e, j)'
                                     /\ e # d => ~Tells(i, e, j)' /\ ~TellsGone(i, e, j)'
    BY <1>3, <1>5, <1>6, <2>1, <2>2 DEF Agreed, Reported
  <2> QED
    BY <1>8, <1>9, <2>1, <2>2, OverIs DEF Agreed, Reported, Greets
<1>13. Nested(i)'
  BY OverIs DEF Nested, Greets, Agreed
<1>14. GoneIsDead(i)'
  BY <1>3, <1>9 DEF Agreed, GoneIsDead
<1>15. GoneIsLast(i)'
  <2> SUFFICES ASSUME NEW j \in Over(i), NEW d \in Clients, NEW k \in Over(j)
               PROVE  Never(News(d, i)', {despawnMessage(k)}, spawnMessage(j))
    BY DEF GoneIsLast
  <2>1. k \in Over(i) /\ Never(News(d, i), {despawnMessage(k)}, spawnMessage(j))
    BY OverIs DEF Agreed, GoneIsLast
  <2>2. CASE d = c /\ c \in Reached
    BY <1>0, <1>2, <2>1, <2>2, NeverNone DEF Greets, HearsGone, Agreed, GoneIsDead, Dead, Nested
  <2>3. CASE ~(d = c /\ c \in Reached)
    BY <1>1, <2>1, <2>3
  <2> QED
    BY <2>2, <2>3
<1>16. OuterFirst(i)'
  <2> SUFFICES ASSUME NEW j \in Over(i), NEW d \in Clients, NEW k \in Over(j) \ {j},
                      ~Newcomer(d)', In(Host, j)', Hears(i, d, j)'
               PROVE  \/ Knows(d, k)' \/ TellsGone(i, d, k)'
                      \/ After(News(d, i)', spawnMessage(k), spawnMessage(j))
    BY DEF OuterFirst
  <2>1. k \in Over(i) /\ In(Host, j) /\ In(Host, k) /\ Knows(Host, j) /\ Knows(Host, k) /\ d \in Games
    BY <1>0, <1>4, OverIs, GamesAre DEF Agreed, Nested, Greets
  <2>2. CASE d = c /\ c \in Reached
    BY <1>2, <2>1, <2>2 DEF Greets
  <2>3. CASE ~(d = c /\ c \in Reached)
    BY <1>1, <1>3, <2>1, <2>3, WordsAre DEF Greets, Agreed, OuterFirst
  <2> QED
    BY <2>2, <2>3
<1>17. Missing(i)'
  <2> SUFFICES ASSUME NEW j \in Over(i), NEW d \in Clients, Knows(d, j)', ~In(d, j)'
               PROVE  ~Hears(i, d, j)' /\ (Leaving(i, d, j)' \/ \E k \in Over(j) : Dead(i, k)')
    BY DEF Missing
  <2>1. ~Hears(i, d, j) /\ (Leaving(i, d, j) \/ \E k \in Over(j) : Dead(i, k))
    BY GamesAre DEF Agreed, Missing, Greets
  <2>2. d = c /\ c \in Reached => ~In(Host, j)
    BY <1>0, <2>1, WordsAre, OverIs DEF Agreed, Nested, Dead, Leaving, Greets
  <2> QED
    BY <1>3, <1>8, <1>9, <2>1, <2>2, OverIs
<1>18. Retracted(i)'
  <2> SUFFICES ASSUME NEW j \in Over(i), NEW d \in Clients, Online(d)', TellsGone(i, d, j)'
               PROVE  ~In(d, j)' /\ ~Knows(d, j)' /\ ~Hears(i, d, j)'
    BY DEF Retracted
  <2> QED
    BY <1>3, WordsAre, GamesAre DEF Greets, Agreed, Retracted
<1>19. HeardOnce(i)'
  <2> SUFFICES ASSUME NEW j \in Over(i), NEW d \in Clients, d \in Reached'
               PROVE  HearsOnce(i, d, j)' \/ HearsEarly(d, j)'
    BY DEF HeardOnce
  <2>1. d \in Reached /\ d \in Games
    BY GamesAre DEF Greets
  <2>2. CASE d = c
    BY <2>1, <2>2 DEF Greets
  <2>3. CASE d # c
    BY <1>1, <1>3, <2>1, <2>3 DEF Agreed, HeardOnce, HearsOnce, Greets
  <2> QED
    BY <2>2, <2>3
<1>20. ClientsFollow(i)'
  <2> SUFFICES ASSUME NEW j \in Over(i), NEW d \in Clients, d \in Reached', ~Newcomer(d)', In(Host, j)', Knows(Host, j)'
               PROVE  Hears(i, d, j)' \/ In(d, j)' \/ Leaving(i, d, j)'
    BY DEF ClientsFollow
  <2>1. d \in Reached /\ In(Host, j) /\ Knows(Host, j) /\ d \in Games
    BY <1>0, GamesAre DEF Greets
  <2>2. CASE d = c
    BY <1>3, <2>1, <2>2
  <2>3. CASE d # c
    BY <1>3, <1>8, <2>1, <2>3 DEF Greets, Agreed, ClientsFollow
  <2> QED
    BY <2>2, <2>3
<1>21. HostFollows(i)'
  <2> SUFFICES ASSUME NEW j \in Over(i), NEW d \in Clients,
                      In(d, j)' \/ (Hears(i, d, j)' /\ \A k \in Over(j) \ {j} : Newcomer(d)' \/ In(d, k)' \/ Hears(i, d, k)')
               PROVE  \/ In(Host, j)' \/ (In(d, j)' /\ ~Knows(d, j)') \/ Tells(i, d, j)'
                      \/ \E k \in Over(j) : HearsGone(i, d, k)' \/ Going(Host, k)'
    BY DEF HostFollows
  <2>1. d \in Games /\ Over(j) \subseteq Over(i) /\ Host \in Games
    BY OverIs, GamesAre
  <2>2. SUFFICES ASSUME ~In(Host, j)
                 PROVE  \/ (In(d, j)' /\ ~Knows(d, j)') \/ Tells(i, d, j)'
                        \/ \E k \in Over(j) : HearsGone(i, d, k)' \/ Going(Host, k)'
    BY <2>1 DEF Greets
  <2>3. In(d, j) \/ (Hears(i, d, j) /\ \A k \in Over(j) \ {j} : Newcomer(d) \/ In(d, k) \/ Hears(i, d, k))
    <3>1. ASSUME NEW k \in Over(j) \ {j}, Newcomer(d)' \/ In(d, k)' \/ Hears(i, d, k)'
          PROVE  Newcomer(d) \/ In(d, k) \/ Hears(i, d, k)
      BY <1>3, <2>1, <3>1 DEF Greets
    <3> QED
      BY <1>3, <2>1, <2>2, <3>1 DEF Greets
  <2> QED
    BY <1>3, <2>1, <2>2, <2>3 DEF Greets, Agreed, HostFollows
<1> QED
  BY <1>10, <1>11, <1>12, <1>13, <1>14, <1>15, <1>16, <1>17, <1>18, <1>19, <1>20, <1>21 DEF Agreed

-----------------------------------------------------------------------------
(* What is on its way about an instance. *)

\* The messages of events are as many, in their order.
LEMMA MessagesOfAre ==
  ASSUME NEW E, NEW s \in Seq(E), NEW M, \A e \in E : e.message \in M
  PROVE  MessagesOf(s) \in Seq(M) /\ Len(MessagesOf(s)) = Len(s)
<1>1. PICK N \in Nat : N = Len(s) /\ DOMAIN s = 1 .. N /\ s \in [1 .. N -> E]
  BY LenProperties
<1>2. MessagesOf(s) \in [1 .. N -> M]
  BY <1>1 DEF MessagesOf
<1> QED
  BY <1>1, <1>2, FunctionIsSeq

\* So are those of an event and of what comes after it, and of what comes before one.
LEMMA MessagesOfJoined ==
  ASSUME NEW E, NEW s \in Seq(E), NEW t \in Seq(E), NEW M, \A e \in E : e.message \in M
  PROVE  MessagesOf(s \o t) = MessagesOf(s) \o MessagesOf(t)
<1>1. PICK N \in Nat, L \in Nat, all \in {s \o t} : all = s \o t /\ Joined(all, s, N, t, L)
  BY ConcatJoins
<1>2. PICK ms, mt, mall : ms = MessagesOf(s) /\ mt = MessagesOf(t) /\ mall = MessagesOf(all)
  OBVIOUS
<1>3. all \in Seq(E)
  BY <1>1
<1>4. ms \in Seq(M) /\ mt \in Seq(M) /\ mall \in Seq(M)
  BY <1>2, <1>3, MessagesOfAre
<1>5. DOMAIN ms = 1 .. N /\ DOMAIN mt = 1 .. L /\ DOMAIN mall = 1 .. N + L
  BY <1>1, <1>2 DEF MessagesOf, Joined
<1>6. \A n \in 1 .. N : mall[n] = ms[n]
  BY <1>1, <1>2 DEF MessagesOf, Joined
<1>7. \A n \in 1 .. L : mall[n + N] = mt[n]
  <2>1. \A n \in 1 .. L : n + N \in 1 .. N + L
    OBVIOUS
  <2> QED
    BY <1>1, <1>2, <2>1 DEF MessagesOf, Joined
<1>8. Len(ms) = N /\ Len(mt) = L /\ Len(mall) = N + L
  BY <1>4, <1>5, LenProperties
<1>9. mall = ms \o mt
  <2>1. \A n \in 1 .. N + L : mall[n] = (ms \o mt)[n]
    <3> SUFFICES ASSUME NEW n \in 1 .. N + L PROVE mall[n] = (ms \o mt)[n]
      OBVIOUS
    <3>1. (ms \o mt)[n] = IF n <= N THEN ms[n] ELSE mt[n - N]
      BY <1>4, <1>8, ConcatProperties
    <3>2. n > N => n - N \in 1 .. L /\ (n - N) + N = n
      OBVIOUS
    <3> QED
      BY <1>6, <1>7, <3>1, <3>2
  <2>2. ms \o mt \in Seq(M) /\ Len(ms \o mt) = N + L
    BY <1>4, <1>8, ConcatProperties
  <2> QED
    BY <1>4, <1>8, <2>1, <2>2, SeqEqual
<1> QED
  BY <1>1, <1>2, <1>9

\* What was heard of, and what is heard of with one event more or one less.
LEMMA HeardIs ==
  ASSUME NEW es \in Seq(Events), NEW p, NEW i
  PROVE  HeardIn(es, p, i) \in Seq(About(i))
<1>1. Only(es, Carries(p, i)) \in Seq(Carries(p, i))
  BY OnlyThem
<1>2. \A e \in Carries(p, i) : e.message \in About(i)
  BY DEF Carries
<1> QED
  BY <1>1, <1>2, MessagesOfAre DEF HeardIn

\* Nothing is heard of an instance where no event is about it.
LEMMA HeardNothing ==
  ASSUME NEW es \in Seq(Events), NEW p, NEW i, ToSet(es) \cap Carries(p, i) = {}
  PROVE  HeardIn(es, p, i) = <<>>
<1>1. Only(es, Carries(p, i)) = <<>>
  BY OnlyNone
<1>2. MessagesOf(<<>>) = <<>>
  BY DEF MessagesOf
<1> QED
  BY <1>1, <1>2 DEF HeardIn

\* What is heard of an instance in two sequences of events is so in one after the other.
LEMMA HeardJoined ==
  ASSUME NEW es \in Seq(Events), NEW fs \in Seq(Events), NEW p, NEW i
  PROVE  HeardIn(es \o fs, p, i) = HeardIn(es, p, i) \o HeardIn(fs, p, i)
<1>1. PICK C, a, b : C = Carries(p, i) /\ a = Only(es, C) /\ b = Only(fs, C)
  OBVIOUS
<1>2. a \in Seq(C) /\ b \in Seq(C)
  BY <1>1, OnlyThem
<1>3. Only(es \o fs, C) = a \o b
  <2>1. Only(es \o fs, C) = Only(es, C) \o Only(fs, C)
    BY OnlyConcat
  <2> QED
    BY <1>1, <2>1
<1>4. \A e \in C : e.message \in About(i)
  BY <1>1 DEF Carries
<1>5. MessagesOf(a \o b) = MessagesOf(a) \o MessagesOf(b)
  BY <1>2, <1>4, MessagesOfJoined
<1> QED
  BY <1>1, <1>3, <1>5 DEF HeardIn

\* One event is heard of if it is about the instance, and then its message is.
LEMMA HeardOne ==
  ASSUME NEW ev \in Events, NEW p, NEW i
  PROVE  HeardIn(<<ev>>, p, i) = IF ev \in Carries(p, i) THEN <<ev.message>> ELSE <<>>
<1>1. Only(<<ev>>, Carries(p, i)) = IF ev \in Carries(p, i) THEN <<ev>> ELSE <<>>
  BY OnlyOne
<1>2. MessagesOf(<<>>) = <<>> /\ MessagesOf(<<ev>>) = <<ev.message>>
  BY DEF MessagesOf
<1> QED
  BY <1>1, <1>2 DEF HeardIn

\* An event that comes last is heard last, if it is about the instance.
LEMMA HeardAppend ==
  ASSUME NEW es \in Seq(Events), NEW ev \in Events, NEW p, NEW i
  PROVE  HeardIn(Append(es, ev), p, i)
           = IF ev \in Carries(p, i) THEN HeardIn(es, p, i) \o <<ev.message>> ELSE HeardIn(es, p, i)
<1>1. PICK one \in Seq(Events) : one = <<ev>>
  <2>1. <<ev>> \in Seq(Events)
    OBVIOUS
  <2> QED
    BY <2>1
<1>2. Append(es, ev) = es \o one
  BY <1>1
<1>3. HeardIn(es \o one, p, i) = HeardIn(es, p, i) \o HeardIn(one, p, i)
  BY HeardJoined
<1>4. HeardIn(es, p, i) \in Seq(About(i))
  BY HeardIs
<1>5. HeardIn(es, p, i) \o <<>> = HeardIn(es, p, i)
  BY <1>4
<1> QED
  BY <1>1, <1>2, <1>3, <1>5, HeardOne

\* The first event is heard first, if it is about the instance.
LEMMA HeardTail ==
  ASSUME NEW es \in Seq(Events), es # <<>>, NEW p, NEW i
  PROVE  HeardIn(es, p, i) = IF Head(es) \in Carries(p, i)
                             THEN <<Head(es).message>> \o HeardIn(Tail(es), p, i) ELSE HeardIn(Tail(es), p, i)
<1>1. PICK x \in Events, t \in Seq(Events) : x = Head(es) /\ t = Tail(es)
  BY ToSetTail
<1>2. PICK one \in Seq(Events) : one = <<x>>
  <2>1. <<x>> \in Seq(Events)
    OBVIOUS
  <2> QED
    BY <2>1
<1>3. es = one \o t
  BY <1>1, <1>2
<1>4. HeardIn(one \o t, p, i) = HeardIn(one, p, i) \o HeardIn(t, p, i)
  BY HeardJoined
<1>5. HeardIn(t, p, i) \in Seq(About(i))
  BY HeardIs
<1>6. <<>> \o HeardIn(t, p, i) = HeardIn(t, p, i)
  BY <1>5
<1> QED
  BY <1>1, <1>2, <1>3, <1>4, <1>6, HeardOne

\* What is on its way is about the instance and what it is in.
LEMMA WordsTypes ==
  ASSUME TypeOK, NEW i, NEW c \in Clients
  PROVE  /\ News(c, i) \in Seq(About(i)) /\ Reports(c, i) \in Seq(About(i))
         /\ Wire(c) \in Seq(Packets) /\ up[c]["Reliable"] \in Seq(Messages)
         /\ Only(Wire(c), About(i)) \in Seq(About(i)) /\ Only(up[c]["Reliable"], About(i)) \in Seq(About(i))
         /\ \A g \in Games : \A p : Heard(g, p, i) \in Seq(About(i))
<1>1. /\ down[c]["Reliable"] \in Seq(Packets) /\ up[c]["Reliable"] \in Seq(Messages)
      /\ \A g \in Games : events[g] \in Seq(Events)
  BY DEF TypeOK, Deliveries
<1>2. Wire(c) \in Seq(Packets)
  BY <1>1 DEF Wire
<1>3. PICK w, u : w = Only(Wire(c), About(i)) /\ u = Only(up[c]["Reliable"], About(i))
  OBVIOUS
<1>4. w \in Seq(About(i)) /\ u \in Seq(About(i))
  BY <1>1, <1>2, <1>3, OnlyThem
<1>5. \A g \in Games : \A p : Heard(g, p, i) \in Seq(About(i))
  BY <1>1, HeardIs DEF Heard
<1>6. PICK a, b : a = Heard(c, hostPeer, i) /\ b = Heard(Host, client[c], i)
  OBVIOUS
<1>7. News(c, i) \in Seq(About(i)) /\ Reports(c, i) \in Seq(About(i))
  BY <1>3, <1>4, <1>5, <1>6, GamesAre DEF News, Reports
<1> QED
  BY <1>1, <1>2, <1>3, <1>4, <1>5, <1>7

\* What a step that leaves the wires to and from a client leaves of what is on its way.
LEMMA NewsStay ==
  ASSUME NEW i, NEW c \in Clients, events'[c] = events[c], Only(Wire(c)', About(i)) = Only(Wire(c), About(i)),
         Online(c)' <=> Online(c), c \in Reached' <=> c \in Reached
  PROVE  News(c, i)' = News(c, i)
BY DEF News, Heard

\* The same of what a client says, and the host has yet to handle.
LEMMA ReportsStay ==
  ASSUME NEW i, NEW c \in Clients, events'[Host] = events[Host], client'[c] = client[c], up'[c] = up[c]
  PROVE  Reports(c, i)' = Reports(c, i)
BY DEF Reports, Heard

\* What is lost of the unreliable packets of a wire.
LEMMA LatestHas ==
  ASSUME NEW S, NEW s \in Seq(S)
  PROVE  ToSet(Latest(s)) \subseteq ToSet(s)
<1>1. PICK N \in Nat : N = Len(s)
  BY LenProperties
<1>2. MaxLate \in Nat
  BY ReplicationAssumption
<1>3. PICK m \in 1 .. N + 1 : m = IF N > MaxLate THEN N - MaxLate + 1 ELSE 1
  <2>1. (IF N > MaxLate THEN N - MaxLate + 1 ELSE 1) \in 1 .. N + 1
    BY <1>2
  <2> QED
    BY <2>1
<1>4. Latest(s) = SubSeq(s, m, N)
  BY <1>1, <1>3 DEF Latest
<1>5. PICK n \in 0 .. N : n + 1 = m
  BY <1>3
<1>6. ToSet(SubSeq(s, n + 1, Len(s))) \subseteq ToSet(s)
  <2>1. n \in 0 .. Len(s)
    BY <1>1
  <2> QED
    BY <2>1, ToSetSplit
<1> QED
  BY <1>1, <1>4, <1>5, <1>6

\* What a wire with more packets holds.
LEMMA WithHas ==
  ASSUME NEW P, NEW wire \in [Deliveries -> Seq(P)], NEW reliable \in Seq(P), NEW unreliable \in Seq(P), NEW carried
  PROVE  /\ With(wire, reliable, unreliable, carried)["Reliable"] = wire["Reliable"] \o reliable
         /\ ToSet(With(wire, reliable, unreliable, carried)["Unreliable"])
              \subseteq ToSet(wire["Unreliable"]) \cup ToSet(unreliable)
<1>1. PICK sure, all, late : sure = wire["Reliable"] \o reliable /\ all = wire["Unreliable"] \o unreliable
                             /\ late = Latest(all)
  OBVIOUS
<1>2. all \in Seq(P) /\ ToSet(all) = ToSet(wire["Unreliable"]) \cup ToSet(unreliable)
  BY <1>1, ToSetConcat DEF Deliveries
<1> QED
  BY <1>1, <1>2, LatestHas DEF Deliveries, With

\* What the host sends is then on the wire of those it is sent to.
LEMMA ToClientsWires ==
  ASSUME TypeOK, NEW to, NEW reliable \in Seq(Packets), NEW unreliable \in Seq(Packets), NEW lost,
         ToClients(to, reliable, unreliable, lost), NEW c \in Clients
  PROVE  /\ Wire(c)' = IF c \in to \cap Reached THEN Wire(c) \o reliable ELSE Wire(c)
         /\ ToSet(down'[c]["Unreliable"]) \subseteq ToSet(down[c]["Unreliable"]) \cup ToSet(unreliable)
<1>1. PICK wire, carried : wire = down[c] /\ carried = (c \notin lost)
  OBVIOUS
<1>2. /\ With(wire, reliable, unreliable, carried)["Reliable"] = wire["Reliable"] \o reliable
      /\ ToSet(With(wire, reliable, unreliable, carried)["Unreliable"])
           \subseteq ToSet(wire["Unreliable"]) \cup ToSet(unreliable)
  <2>1. wire \in [Deliveries -> Seq(Packets)]
    BY <1>1 DEF TypeOK
  <2> QED
    BY <2>1, WithHas
<1> QED
  BY <1>1, <1>2 DEF Wire, ToClients

\* They hear of what of it is about an instance.
LEMMA ToClientsNews ==
  ASSUME TypeOK, NEW to, NEW reliable \in Seq(Packets), NEW unreliable \in Seq(Packets), NEW lost,
         ToClients(to, reliable, unreliable, lost), NEW c \in Clients, NEW i, events'[c] = events[c],
         Online(c)' <=> Online(c), c \in Reached' <=> c \in Reached
  PROVE  News(c, i)' = IF c \in to \cap Reached THEN News(c, i) \o Only(reliable, About(i)) ELSE News(c, i)
<1>1. Wire(c)' = IF c \in to \cap Reached THEN Wire(c) \o reliable ELSE Wire(c)
  BY ToClientsWires
<1>2. PICK w, k, h, r, A : /\ w = Wire(c) /\ A = About(i) /\ k = Only(w, A) /\ r = Only(reliable, A)
                           /\ h = IF Online(c) THEN Heard(c, hostPeer, i) ELSE <<>>
  OBVIOUS
<1>3. w \in Seq(Packets)
  BY <1>2, WordsTypes
<1>4. k \in Seq(A) /\ r \in Seq(A)
  BY <1>2, <1>3, OnlyThem
<1>5. h \in Seq(A)
  BY <1>2, WordsTypes, GamesAre
<1>6. Only(w \o reliable, A) = k \o r
  <2>1. Only(w \o reliable, A) = Only(w, A) \o Only(reliable, A)
    BY <1>3, OnlyConcat
  <2> QED
    BY <1>2, <2>1
<1>7. h \o (k \o r) = (h \o k) \o r
  BY <1>4, <1>5
<1>8. CASE c \in to \cap Reached
  BY <1>1, <1>2, <1>6, <1>7, <1>8 DEF News, Heard
<1>9. CASE c \notin to \cap Reached
  BY <1>1, <1>9, NewsStay
<1> QED
  BY <1>8, <1>9

\* What is not about an instance nobody hears of.
LEMMA ToClientsNothing ==
  ASSUME TypeOK, NEW to, NEW reliable \in Seq(Packets), NEW unreliable \in Seq(Packets), NEW lost,
         ToClients(to, reliable, unreliable, lost), NEW c \in Clients, NEW i, events'[c] = events[c],
         Online(c)' <=> Online(c), c \in Reached' <=> c \in Reached, ToSet(reliable) \cap About(i) = {}
  PROVE  News(c, i)' = News(c, i)
<1>1. Only(reliable, About(i)) = <<>>
  BY OnlyNone
<1>2. News(c, i)' = IF c \in to \cap Reached THEN News(c, i) \o Only(reliable, About(i)) ELSE News(c, i)
  BY ToClientsNews
<1>3. PICK n : n = News(c, i)
  OBVIOUS
<1>4. n \in Seq(About(i))
  BY <1>3, WordsTypes
<1>5. n \o <<>> = n
  BY <1>4
<1> QED
  BY <1>1, <1>2, <1>3, <1>5

\* An event handled is one that a game heard of, or is not about an instance.
LEMMA HandlesEvents ==
  ASSUME TypeOK, NEW g \in Games, NEW kind, Handles(g, kind)
  PROVE  /\ events[g] \in Seq(Events) /\ Head(events[g]) \in Events /\ Head(events[g]) \in ToSet(events[g])
         /\ Head(events[g]).kind = kind
         /\ events'[g] = Tail(events[g]) /\ ToSet(events[g]) = {Head(events[g])} \cup ToSet(events'[g])
         /\ \A h \in Games \ {g} : events'[h] = events[h] /\ phase'[h] = phase[h]
         /\ phase'[g] = "frame" /\ events[g] # <<>>
         /\ UNCHANGED <<session, wasClient, budget>>
         /\ \A p, i : Heard(g, p, i) = IF Head(events[g]) \in Carries(p, i)
                                       THEN <<Head(events[g]).message>> \o Heard(g, p, i)' ELSE Heard(g, p, i)'
<1>1. events \in [Games -> Seq(Events)] /\ phase \in [Games -> {"poll", "frame"}]
  BY DEF TypeOK
<1>2. /\ events[g] # <<>> /\ Head(events[g]).kind = kind
      /\ events' = [events EXCEPT ![g] = Tail(events[g])]
      /\ phase' = [phase EXCEPT ![g] = "frame"] /\ UNCHANGED <<session, wasClient, budget>>
  BY DEF Handles
<1>3. events[g] \in Seq(Events) /\ events'[g] = Tail(events[g])
  BY <1>1, <1>2
<1>4. Head(events[g]) \in Events /\ ToSet(events[g]) = {Head(events[g])} \cup ToSet(Tail(events[g]))
  BY <1>2, <1>3, ToSetTail
<1> QED
  BY <1>1, <1>2, <1>3, <1>4, HeardTail DEF Heard

-----------------------------------------------------------------------------
(* Who is in the session, and what it says of what is on its way. *)

\* A step that is not one of the session of c, or only of what c hears in it.
Steady(c, r) ==
  /\ number'[c] = number[c] /\ linked'[c] = linked[c] /\ client'[c] = client[c]
  /\ wasClient'[c] = wasClient[c] /\ authority'[c] = authority[c]
  /\ nextPeer' \in Nat /\ nextPeer' >= nextPeer
  /\ \A d \in Clients : client'[d] \in {client[d], 0, nextPeer}
  /\ ToSet(events'[c]) \subseteq ToSet(events[c])
  /\ phase'[c] = "poll" => events'[c] = <<>> \/ (phase[c] = "poll" /\ events'[c] = events[c])
  /\ Online(c) \/ wasClient[c] \/ (known(c)' \subseteq known(c) \cup strays'[c] /\ strays[c] \subseteq strays'[c])
  /\ r \in Seq(Packets) /\ Wire(c)' \in {Wire(c), Wire(c) \o r}
  /\ \A p \in ToSet(r) : p.kind # "Welcome" /\ (Newcomer(c)' => p \notin Grants(c))
  /\ Newcomer(c)' => Newcomer(c)
  /\ c \in Reached /\ (Newcomer(c) \/ ~Online(c)) => \A i \in Instances : Reports(c, i) = <<>> => Reports(c, i)' = <<>>
  /\ OnlyValues(down'[c]["Unreliable"]) /\ OnlyValues(up'[c]["Unreliable"])

\* The session is as it should be for a client that is steady in a step.
LEMMA SteadySession ==
  ASSUME TypeOK, NEW c \in Clients, Membership(c), Unread(c), Fresh(c), Delivered(c), NEW r, Steady(c, r)
  PROVE  Membership(c)' /\ Unread(c)' /\ Fresh(c)' /\ Delivered(c)'
<1>1. /\ nextPeer \in Nat /\ client \in [Clients -> Nat] /\ Wire(c) \in Seq(Packets)
      /\ Online(c)' <=> Online(c)
      /\ Joining(c)' <=> Joining(c)
      /\ c \in Reached' <=> c \in Reached
      /\ Authorized(c)' <=> Authorized(c)
  BY WordsTypes DEF TypeOK, Steady, Online, Joining, Reached, Peers, Authorized
<1>2. PICK w : w = Wire(c)
  OBVIOUS
<1>3. w \in Seq(Packets) /\ r \in Seq(Packets) /\ Wire(c)' \in {w, w \o r}
  BY <1>1, <1>2 DEF Steady
<1>4. ToSet(Wire(c)') \subseteq ToSet(w) \cup ToSet(r)
  BY <1>3, ToSetConcat
<1>5. w # <<>> => Wire(c)' # <<>> /\ Head(Wire(c)') = Head(w) /\ ToSet(Tail(Wire(c)')) \subseteq ToSet(Tail(w)) \cup ToSet(r)
  <2> SUFFICES ASSUME w # <<>>
               PROVE  Wire(c)' # <<>> /\ Head(Wire(c)') = Head(w) /\ ToSet(Tail(Wire(c)')) \subseteq ToSet(Tail(w)) \cup ToSet(r)
    OBVIOUS
  <2>1. PICK all : all = w \o r
    OBVIOUS
  <2>2. all # <<>> /\ Head(all) = Head(w) /\ ToSet(Tail(all)) = ToSet(Tail(w)) \cup ToSet(r)
    BY <1>3, <2>1, HeadStays
  <2> QED
    BY <1>3, <2>1, <2>2
<1>6. Unread(c)'
  <2> SUFFICES ASSUME NEW i \in Instances, ~Online(c)', ~wasClient'[c], phase'[c] = "poll"
               PROVE  Heard(c, hostPeer, i)' = <<>>
    BY DEF Unread
  <2>1. CASE events'[c] = <<>>
    BY <2>1, HeardNothing, EmptySeq, ToSetEmpty DEF Heard
  <2>2. CASE phase[c] = "poll" /\ events'[c] = events[c]
    BY <1>1, <2>2 DEF Unread, Heard, Steady
  <2> QED
    BY <2>1, <2>2 DEF Steady
<1> QED
  BY <1>1, <1>2, <1>4, <1>5, <1>6 DEF Delivered, Steady, Membership, NoAuthority, Fresh, Grants

\* Messages of values, and those of a sequence of instances.
ValuesMessages == [kind : {"Values"}, entity : Synced, sequence : Nat, value : Nat, by : Nat]
SpawnsOf(s) == [n \in DOMAIN s |-> spawnMessage(s[n])]
DespawnsOf(s) == [n \in DOMAIN s |-> despawnMessage(s[n])]

\* They say nothing of instances.
LEMMA ValuesSayNothing ==
  ASSUME NEW vs \in Seq(ValuesMessages)
  PROVE  /\ vs \in Seq(Messages) /\ vs \in Seq(Packets) /\ \A m \in ToSet(vs) : m.kind = "Values"
         /\ ToSet(vs) \cap Tidings = {} /\ \A i : ToSet(vs) \cap About(i) = {}
         /\ \A j : spawnMessage(j) \notin ToSet(vs) /\ despawnMessage(j) \notin ToSet(vs)
<1>1. ValuesMessages \subseteq Messages /\ Messages \subseteq Packets
  BY DEF ValuesMessages, Messages, Packets
<1>2. \A m \in ToSet(vs) : m.kind = "Values"
  <2>1. ToSet(vs) \subseteq ValuesMessages
    BY ToSetOfSeq
  <2> QED
    BY <2>1 DEF ValuesMessages
<1> QED
  BY <1>1, <1>2, SeqMonotone DEF spawnMessage, despawnMessage, Tidings, About

\* The values of a set of entities are messages of values.
LEMMA ValuesInSeq ==
  ASSUME NEW es \in SUBSET Synced, NEW f, DOMAIN f = es, \A e \in es : f[e] \in ValuesMessages
  PROVE  SetToSeq({f[e] : e \in es}) \in Seq(ValuesMessages)
<1> DEFINE all == {f[e] : e \in es}
<1>1. IsFiniteSet(es)
  <2>1. es \in SUBSET Owned
    BY GamesAre
  <2> QED
    BY <2>1, ReplicationAssumption, FS_Subset
<1>2. IsFiniteSet(all)
  <2> HIDE DEF all
  <2>1. IsFiniteSet({f[x] : x \in DOMAIN f})
    BY <1>1, ImageIsFinite
  <2> QED
    BY <2>1 DEF all
<1>3. all \subseteq ValuesMessages
  OBVIOUS
<1> HIDE DEF all
<1>4. SetToSeq(all) \in Seq(ValuesMessages)
  BY <1>2, <1>3, SetToSeqLists, SeqMonotone
<1> QED
  BY <1>4 DEF all

\* What a game says in send(): what is new, what is gone, and values.
LEMMA SendSays ==
  ASSUME TypeOK, NEW g \in Games, NEW due \in SUBSET Synced, NEW lost, send(g, due, lost)
  PROVE  \E vs \in Seq(ValuesMessages), us \in Seq(ValuesMessages) :
           SendsEveryone(g, SpawnsOf(New(g)) \o DespawnsOf(Gone(g)) \o vs, us, lost)
<1> DEFINE new == New(g)
           gone == Gone(g)
           sent == Sends(g, due)
           fresh == {e \in sent : Changed(g, e)}
           valueMessage(e) == valuesMessage(e, tracked[g][e].sequence + 1, value[g][e], number[g])
           Values(es) == SetToSeq({valueMessage(e) : e \in es})
           spawns == [n \in DOMAIN new |-> spawnMessage(new[n])]
           despawns == [n \in DOMAIN gone |-> despawnMessage(gone[n])]
<1>1. SendsEveryone(g, spawns \o despawns \o Values(sent \ fresh), Values(fresh), lost)
  BY DEF send
<1>2. ASSUME NEW es \in SUBSET Synced
      PROVE  Values(es) \in Seq(ValuesMessages)
  <2> DEFINE f == [e \in es |-> valueMessage(e)]
  <2>1. ASSUME NEW e \in es
        PROVE  valueMessage(e) \in ValuesMessages
    BY DEF valuesMessage, ValuesMessages, TypeOK, Tracked
  <2> HIDE DEF valueMessage
  <2>2. DOMAIN f = es /\ \A e \in es : f[e] \in ValuesMessages
    BY <2>1
  <2>3. {f[e] : e \in es} = {valueMessage(e) : e \in es}
    OBVIOUS
  <2> HIDE DEF f
  <2> QED
    BY <2>2, <2>3, ValuesInSeq
<1>3. fresh \in SUBSET Synced /\ sent \ fresh \in SUBSET Synced
  BY DEF Sends
<1> HIDE DEF fresh, sent, Values, spawns, despawns
<1> QED
  BY <1>1, <1>2, <1>3 DEF spawns, despawns, SpawnsOf, DespawnsOf

\* What the host says to a newcomer.
LEMMA WelcomeSays ==
  ASSUME TypeOK, welcome
  PROVE  \E vs \in Seq(ValuesMessages) :
           ToClients({c \in Clients : client[c] = Head(events[Host]).peer},
                     SpawnsOf(Only(spawned[Host], alive[Host])) \o vs, <<>>, {})
<1> DEFINE peer == Head(events[Host]).peer
           Told(e) == LET t == tracked'[Host][e]
                      IN IF isAuthority(Host, e)
                         THEN valuesMessage(e, t.sequence, value[Host][e], hostPeer)
                         ELSE valuesMessage(e, IF t.lastSequence = 0 THEN 1 ELSE t.lastSequence,
                                            value[Host][e], t.took)
           there == Only(spawned[Host], alive[Host])
           spawns == [n \in DOMAIN there |-> spawnMessage(there[n])]
           es == ExistingSynced(Host)
           to == {c \in Clients : client[c] = peer}
           f == [e \in es |-> Told(e)]
<1>1. tracked' \in [Games -> [Synced -> Tracked]]
  BY WelcomeTypes DEF TypeOK
<1>2. ToClients(to, spawns \o SetToSeq({Told(e) : e \in es}), <<>>, {})
  BY DEF welcome
<1>3. es \in SUBSET Synced
  BY DEF ExistingSynced
<1>4. ASSUME NEW e \in es
      PROVE  Told(e) \in ValuesMessages
  <2>1. PICK t \in Tracked : t = tracked'[Host][e]
    BY <1>1, <1>3, GamesAre
  <2> QED
    BY <1>3, <2>1, GamesAre DEF valuesMessage, ValuesMessages, hostPeer, Tracked, TypeOK
<1> HIDE DEF es, Told, spawns, to
<1>5. DOMAIN f = es /\ \A e \in es : f[e] \in ValuesMessages
  BY <1>4
<1>6. {f[e] : e \in es} = {Told(e) : e \in es}
  OBVIOUS
<1> HIDE DEF f
<1> QED
  BY <1>2, <1>3, <1>5, <1>6, ValuesInSeq DEF spawns, to, SpawnsOf

\* The messages of instances are theirs, in their order.
LEMMA SpawnsOfAre ==
  ASSUME NEW s \in Seq(Instances)
  PROVE  /\ SpawnsOf(s) \in Seq(Messages) /\ DespawnsOf(s) \in Seq(Messages)
         /\ \A j : /\ spawnMessage(j) \in ToSet(SpawnsOf(s)) <=> j \in ToSet(s)
                   /\ despawnMessage(j) \in ToSet(DespawnsOf(s)) <=> j \in ToSet(s)
                   /\ despawnMessage(j) \notin ToSet(SpawnsOf(s)) /\ spawnMessage(j) \notin ToSet(DespawnsOf(s))
         /\ \A j, k : Never(s, {j}, k) => Never(SpawnsOf(s), {spawnMessage(j)}, spawnMessage(k))
         /\ \A j, k : Leads(s, k, j) => Leads(SpawnsOf(s), spawnMessage(k), spawnMessage(j))
<1>1. PICK N \in Nat : DOMAIN s = 1 .. N
  BY LenProperties
<1>2. PICK a, b : a = SpawnsOf(s) /\ b = DespawnsOf(s)
  OBVIOUS
<1>3. /\ DOMAIN a = 1 .. N /\ DOMAIN b = 1 .. N
      /\ \A n \in 1 .. N : a[n] = spawnMessage(s[n]) /\ b[n] = despawnMessage(s[n])
  BY <1>1, <1>2 DEF SpawnsOf, DespawnsOf
<1>4. \A j, k : /\ spawnMessage(j) = spawnMessage(k) <=> j = k
                /\ despawnMessage(j) = despawnMessage(k) <=> j = k
                /\ spawnMessage(j) # despawnMessage(k)
  BY DEF spawnMessage, despawnMessage
<1>5. \A j : /\ spawnMessage(j) \in ToSet(a) <=> j \in ToSet(s)
             /\ despawnMessage(j) \in ToSet(b) <=> j \in ToSet(s)
             /\ despawnMessage(j) \notin ToSet(a) /\ spawnMessage(j) \notin ToSet(b)
  BY <1>1, <1>3, <1>4 DEF ToSet
<1>6. ASSUME NEW j, NEW k, Never(s, {j}, k)
      PROVE  Never(a, {spawnMessage(j)}, spawnMessage(k))
  <2> SUFFICES ASSUME NEW n \in 1 .. N, a[n] = spawnMessage(k), NEW m \in 1 .. n - 1
               PROVE  a[m] # spawnMessage(j)
    BY <1>3 DEF Never
  <2> QED
    BY <1>1, <1>3, <1>4, <1>6 DEF Never
<1>7. ASSUME NEW j, NEW k, Leads(s, k, j)
      PROVE  Leads(a, spawnMessage(k), spawnMessage(j))
  <2> SUFFICES ASSUME NEW n \in 1 .. N, a[n] = spawnMessage(j)
               PROVE  \E m \in 1 .. n - 1 : a[m] = spawnMessage(k)
    BY <1>3 DEF Leads
  <2>1. PICK m \in 1 .. n - 1 : s[m] = k
    BY <1>1, <1>3, <1>4, <1>7 DEF Leads
  <2> QED
    BY <1>3, <2>1
<1> QED
  BY <1>2, <1>5, <1>6, <1>7, SpawnsAre DEF SpawnsOf, DespawnsOf

\* New instances are told of once, and after what they are in.
LEMMA NewOrder ==
  ASSUME TypeOK, NEW g \in Games, NEW j \in Instances, NEW k \in Over(j)
  PROVE  Never(New(g), {j}, k) /\ (k # j /\ k \in ToSet(New(g)) => Leads(New(g), k, j))
<1> DEFINE new(nested) == {i \in alive[g] \ known(g) : /\ isAuthority(g, SpawnerOf[i])
                                                       /\ (Inside[SpawnerOf[i]] # Root) = nested}
<1>1. PICK outer, inner : outer = new(FALSE) /\ inner = new(TRUE)
  OBVIOUS
<1>2. New(g) = SetToSeq(outer) \o SetToSeq(inner)
  BY <1>1 DEF New
<1>3. /\ outer \in SUBSET Instances /\ inner \in SUBSET Instances
      /\ \A i \in outer : Above(i) = Root
      /\ \A i \in inner : Above(i) # Root
  BY <1>1 DEF TypeOK, Above
<1> HIDE DEF new
<1>4. IsFiniteSet(outer) /\ IsFiniteSet(inner)
  BY <1>3, ReplicationAssumption, FS_Subset
<1>5. PICK s, t, all : s = SetToSeq(outer) /\ t = SetToSeq(inner) /\ all = s \o t
  OBVIOUS
<1>6. s \in Seq(Instances) /\ ToSet(s) = outer /\ t \in Seq(Instances) /\ ToSet(t) = inner
  BY <1>3, <1>4, <1>5, SetToSeqLists, SeqMonotone
<1>7. /\ j = k \/ k \notin inner
      /\ k # j => j \notin outer
  <2>1. k # j => k = Above(j) /\ k \in Instances /\ k # Root
    BY GamesAre DEF Over
  <2>2. k # j => Above(k) = Root
    <3> SUFFICES ASSUME k # j PROVE Above(k) = Root
      OBVIOUS
    <3> QED
      BY <2>1, ReplicationAssumption, GamesAre DEF Above
  <2> QED
    BY <1>3, <2>1, <2>2
<1>8. Never(s, {j}, k) /\ Never(t, {j}, k)
  <2>1. CASE j = k
    BY <1>4, <1>5, <2>1, SetToSeqOnce
  <2>2. CASE j # k
    BY <1>6, <1>7, <2>2, NeverNone
  <2> QED
    BY <2>1, <2>2
<1>9. Never(all, {j}, k)
  BY <1>3, <1>5, <1>6, <1>7, <1>8, NeverConcat
<1>10. ASSUME k # j, k \in ToSet(all)
       PROVE  Leads(all, k, j)
  BY <1>5, <1>6, <1>7, <1>10, LeadsConcat, ToSetConcat DEF Leads, ToSet
<1> QED
  BY <1>2, <1>5, <1>9, <1>10

\* What a game says in send() is what it utters of an instance.
Letters(g, vs) == SpawnsOf(New(g)) \o DespawnsOf(Gone(g)) \o vs

\* What a game sends reliably is messages, of which those about instances are its new and gone ones.
LEMMA LettersAre ==
  ASSUME TypeOK, NEW g \in Games, NEW vs \in Seq(ValuesMessages)
  PROVE  /\ Letters(g, vs) \in Seq(Messages) /\ Letters(g, vs) \in Seq(Packets)
         /\ \A j : /\ spawnMessage(j) \in ToSet(Letters(g, vs)) <=> j \in ToSet(New(g))
                   /\ despawnMessage(j) \in ToSet(Letters(g, vs)) <=> j \in ToSet(Gone(g))
         /\ \A j, k : Never(Letters(g, vs), {despawnMessage(k)}, spawnMessage(j))
         /\ \A j \in Instances : \A k \in Over(j) :
              /\ Never(Letters(g, vs), {spawnMessage(j), despawnMessage(j)}, spawnMessage(k))
              /\ k # j /\ k \in ToSet(New(g)) => Leads(Letters(g, vs), spawnMessage(k), spawnMessage(j))
<1>1. PICK s, d, sd, all : /\ s = SpawnsOf(New(g)) /\ d = DespawnsOf(Gone(g)) /\ sd = s \o d
                           /\ all = sd \o vs
  OBVIOUS
<1>2. New(g) \in Seq(Instances) /\ Gone(g) \in Seq(Instances)
  BY NewIs, GoneIs
<1>3. s \in Seq(Messages) /\ d \in Seq(Messages) /\ vs \in Seq(Messages)
  BY <1>1, <1>2, SpawnsOfAre, ValuesSayNothing
<1>4. sd \in Seq(Messages) /\ ToSet(sd) = ToSet(s) \cup ToSet(d)
  BY <1>1, <1>3, ToSetConcat
<1>5. all \in Seq(Messages) /\ ToSet(all) = ToSet(sd) \cup ToSet(vs)
  <2>1. sd \o vs \in Seq(Messages) /\ ToSet(sd \o vs) = ToSet(sd) \cup ToSet(vs)
    BY <1>3, <1>4, ToSetConcat
  <2> QED
    BY <1>1, <2>1
<1>6. all = Letters(g, vs)
  BY <1>1 DEF Letters
<1>7. all \in Seq(Packets)
  BY <1>5, SeqMonotone DEF Packets
<1>8. \A j : /\ spawnMessage(j) \in ToSet(s) <=> j \in ToSet(New(g))
             /\ despawnMessage(j) \in ToSet(d) <=> j \in ToSet(Gone(g))
             /\ despawnMessage(j) \notin ToSet(s) /\ spawnMessage(j) \notin ToSet(d)
             /\ spawnMessage(j) \notin ToSet(vs) /\ despawnMessage(j) \notin ToSet(vs)
  BY <1>1, <1>2, SpawnsOfAre, ValuesSayNothing
<1>9. \A j : /\ spawnMessage(j) \in ToSet(all) <=> j \in ToSet(New(g))
             /\ despawnMessage(j) \in ToSet(all) <=> j \in ToSet(Gone(g))
  BY <1>4, <1>5, <1>8
<1>10. ASSUME NEW A, NEW j, Never(s, A, spawnMessage(j))
       PROVE  Never(all, A, spawnMessage(j))
  <2>1. Never(d, A, spawnMessage(j)) /\ Never(vs, A, spawnMessage(j))
    BY <1>3, <1>8, NeverNone
  <2>2. Never(sd, A, spawnMessage(j))
    BY <1>1, <1>3, <1>8, <1>10, <2>1, NeverConcat
  <2>3. spawnMessage(j) \notin ToSet(vs)
    BY <1>8
  <2> QED
    BY <1>1, <1>3, <1>4, <2>1, <2>2, <2>3, NeverConcat
<1>11. ASSUME NEW j, NEW k
       PROVE  Never(all, {despawnMessage(k)}, spawnMessage(j))
  BY <1>3, <1>8, <1>10, NeverNone
<1>12. ASSUME NEW j \in Instances, NEW k \in Over(j)
       PROVE  Never(all, {spawnMessage(j), despawnMessage(j)}, spawnMessage(k))
  <2>1. Never(s, {spawnMessage(j)}, spawnMessage(k))
    BY <1>1, <1>2, NewOrder, SpawnsOfAre
  <2>2. Never(s, {spawnMessage(j), despawnMessage(j)}, spawnMessage(k))
    BY <1>3, <1>8, <2>1, LenProperties DEF Never, ToSet
  <2> QED
    BY <1>10, <2>2
<1>13. ASSUME NEW j \in Instances, NEW k \in Over(j), k # j, k \in ToSet(New(g))
       PROVE  Leads(all, spawnMessage(k), spawnMessage(j))
  <2>1. Leads(s, spawnMessage(k), spawnMessage(j))
    BY <1>1, <1>2, <1>13, SpawnsOfAre, NewOrder
  <2>2. spawnMessage(j) \notin ToSet(d) /\ spawnMessage(j) \notin ToSet(vs)
    BY <1>8
  <2>3. Leads(sd, spawnMessage(k), spawnMessage(j))
    BY <1>1, <1>3, <2>1, <2>2, LeadsConcat
  <2> QED
    BY <1>1, <1>3, <1>4, <2>2, <2>3, LeadsConcat
<1> QED
  BY <1>5, <1>6, <1>7, <1>9, <1>11, <1>12, <1>13

\* What a sequence of messages says of an instance.
LEMMA OnlyAbout ==
  ASSUME NEW E, NEW s \in Seq(E), NEW i \in Instances, NEW X, X = Only(s, About(i))
  PROVE  /\ X \in Seq(About(i))
         /\ \A j \in Over(i) : /\ spawnMessage(j) \in ToSet(X) <=> spawnMessage(j) \in ToSet(s)
                               /\ despawnMessage(j) \in ToSet(X) <=> despawnMessage(j) \in ToSet(s)
                               /\ spawnMessage(j) \in About(i) /\ despawnMessage(j) \in About(i)
         /\ \A A, b : Never(s, A, b) => Never(X, A, b)
         /\ \A j \in Over(i) : \A b : Leads(s, spawnMessage(j), b) => Leads(X, spawnMessage(j), b)
<1>1. \A j \in Over(i) : spawnMessage(j) \in About(i) /\ despawnMessage(j) \in About(i)
  BY DEF spawnMessage, despawnMessage, About
<1>2. ASSUME NEW A, NEW b, Never(s, A, b) PROVE Never(X, A, b)
  BY <1>2, OnlyOrder DEF OrderKept
<1>3. ASSUME NEW j \in Over(i), NEW b, Leads(s, spawnMessage(j), b) PROVE Leads(X, spawnMessage(j), b)
  BY <1>1, <1>3, OnlyOrder DEF OrderKept
<1> QED
  BY <1>1, <1>2, <1>3, OnlyThem, OnlyIs

\* A game tells of what it placed and of what it lost.
LEMMA SendUtters ==
  ASSUME TypeOK, NEW g \in Games, NEW vs \in Seq(ValuesMessages), NEW i \in Instances,
         Online(g), Placed(i), NEW X, X = Only(Letters(g, vs), About(i))
  PROVE  Utters(g, X, i)
<1>1. PICK all : all = Letters(g, vs)
  OBVIOUS
<1>2. /\ all \in Seq(Messages)
      /\ \A j : /\ spawnMessage(j) \in ToSet(all) <=> j \in ToSet(New(g))
                /\ despawnMessage(j) \in ToSet(all) <=> j \in ToSet(Gone(g))
      /\ \A j, k : Never(all, {despawnMessage(k)}, spawnMessage(j))
      /\ \A j \in Instances : \A k \in Over(j) :
              /\ Never(all, {spawnMessage(j), despawnMessage(j)}, spawnMessage(k))
              /\ k # j /\ k \in ToSet(New(g)) => Leads(all, spawnMessage(k), spawnMessage(j))
  BY <1>1, LettersAre
<1>3. /\ X \in Seq(About(i))
      /\ \A j \in Over(i) : /\ spawnMessage(j) \in ToSet(X) <=> spawnMessage(j) \in ToSet(all)
                            /\ despawnMessage(j) \in ToSet(X) <=> despawnMessage(j) \in ToSet(all)
                            /\ spawnMessage(j) \in About(i) /\ despawnMessage(j) \in About(i)
  BY <1>1, <1>2, OnlyAbout
<1>4. ASSUME NEW A, NEW b, Never(all, A, b) PROVE Never(X, A, b)
  BY <1>1, <1>2, <1>4, OnlyAbout
<1>5. ASSUME NEW j \in Over(i), NEW b, Leads(all, spawnMessage(j), b) PROVE Leads(X, spawnMessage(j), b)
  BY <1>1, <1>2, <1>5, OnlyAbout
<1>6. Over(i) \subseteq Instances /\ \A j \in Over(i) : j \in Over(j) /\ Over(j) \subseteq Over(i)
  BY OverIs
<1>7. ASSUME NEW j \in Over(i)
      PROVE  /\ spawnMessage(j) \in ToSet(X) <=> In(g, j) /\ ~Knows(g, j)
             /\ despawnMessage(j) \in ToSet(X) <=> Retires(g, j)
  BY <1>2, <1>3, <1>6, NewIs, GoneIs DEF In, Knows, Placed, Placing, Retires
<1>8. ASSUME NEW j \in Over(i), NEW k \in Over(i)
      PROVE  Never(X, {despawnMessage(k)}, spawnMessage(j))
  BY <1>2, <1>4
<1>9. ASSUME NEW j \in Over(i), NEW k \in Over(j)
      PROVE  Never(X, {spawnMessage(j), despawnMessage(j)}, spawnMessage(k))
  BY <1>2, <1>4, <1>6
<1>10. ASSUME NEW j \in Over(i), NEW k \in Over(j) \ {j}, {spawnMessage(j), spawnMessage(k)} \subseteq ToSet(X)
       PROVE  After(X, spawnMessage(k), spawnMessage(j))
  BY <1>2, <1>3, <1>5, <1>6, <1>10, AfterHas
<1> QED
  BY <1>3, <1>7, <1>8, <1>9, <1>10 DEF Utters

\* What a client tells, when an event is handled.
LEMMA ReportsHandled ==
  ASSUME TypeOK, NEW g \in Games, NEW kind, Handles(g, kind), up' = up, NEW c \in Clients, NEW i
  PROVE  Reports(c, i) = IF g = Host /\ client[c] # 0 /\ Head(events[g]) \in Carries(client[c], i)
                         THEN <<Head(events[g]).message>> \o Reports(c, i)' ELSE Reports(c, i)'
<1>1. /\ client' = client /\ \A h \in Games \ {g} : events'[h] = events[h]
      /\ \A p, n : Heard(g, p, n) = IF Head(events[g]) \in Carries(p, n)
                                    THEN <<Head(events[g]).message>> \o Heard(g, p, n)' ELSE Heard(g, p, n)'
  BY HandlesEvents DEF session
<1>2. CASE g # Host
  BY <1>1, <1>2, GamesAre, ReportsStay
<1>3. CASE g = Host /\ client[c] = 0
  BY <1>1, <1>3 DEF Reports
<1>4. CASE g = Host /\ client[c] # 0
  <2>1. PICK m, h, u, p : /\ p = client[c] /\ m = Head(events[g]).message
                          /\ h = HeardIn(events'[Host], p, i) /\ u = Only(up[c]["Reliable"], About(i))
    OBVIOUS
  <2>2. u \in Seq(About(i)) /\ h \in Seq(About(i))
    BY <1>4, <2>1, HeardIs, WordsTypes, HandlesTypes, GamesAre
  <2>3. Reports(c, i)' = h \o u
    BY <1>1, <1>4, <2>1 DEF Reports, Heard
  <2>4. Reports(c, i) = Heard(Host, p, i) \o u
    BY <1>4, <2>1 DEF Reports
  <2>5. CASE Head(events[g]) \in Carries(p, i)
    <3>1. (<<m>> \o h) \o u = <<m>> \o (h \o u)
      BY <2>1, <2>2, <2>5 DEF Carries
    <3>2. Heard(Host, p, i) = <<m>> \o h
      BY <1>1, <1>4, <2>1, <2>5 DEF Heard
    <3> QED
      BY <1>4, <2>1, <2>3, <2>4, <2>5, <3>1, <3>2
  <2>6. CASE Head(events[g]) \notin Carries(p, i)
    BY <1>1, <1>4, <2>1, <2>3, <2>4, <2>6 DEF Heard
  <2> QED
    BY <2>5, <2>6
<1> QED
  BY <1>2, <1>3, <1>4

\* What a client has yet to hear, when it handles an event.
LEMMA NewsHandled ==
  ASSUME TypeOK, NEW c \in Clients, NEW kind, Handles(c, kind), down' = down, NEW i, Online(c), c \in Reached
  PROVE  News(c, i) = IF Head(events[c]) \in Carries(hostPeer, i)
                      THEN <<Head(events[c]).message>> \o News(c, i)' ELSE News(c, i)'
<1>1. /\ Online(c)' /\ c \in Reached' /\ Wire(c)' = Wire(c)
      /\ events'[c] = Tail(events[c]) /\ events'[c] \in Seq(Events)
      /\ \A p, n : Heard(c, p, n) = IF Head(events[c]) \in Carries(p, n)
                                    THEN <<Head(events[c]).message>> \o Heard(c, p, n)' ELSE Heard(c, p, n)'
  BY HandlesEvents, HandlesTypes, GamesAre DEF session, Online, Reached, Peers, Wire
<1>2. PICK m, h, w : /\ m = Head(events[c]).message /\ h = HeardIn(events'[c], hostPeer, i)
                     /\ w = Only(Wire(c), About(i))
  OBVIOUS
<1>3. Heard(c, hostPeer, i)' = h
  BY <1>2 DEF Heard
<1>4. News(c, i)' = h \o w
  BY <1>1, <1>2, <1>3 DEF News
<1>5. News(c, i) = Heard(c, hostPeer, i) \o w
  BY <1>2 DEF News
<1>6. CASE Head(events[c]) \in Carries(hostPeer, i)
  <2>1. (<<m>> \o h) \o w = <<m>> \o (h \o w)
    BY <1>1, <1>2, <1>6, HeardIs, WordsTypes DEF Carries
  <2>2. Heard(c, hostPeer, i) = <<m>> \o h
    BY <1>1, <1>2, <1>3, <1>6
  <2> QED
    BY <1>2, <1>4, <1>5, <1>6, <2>1, <2>2
<1>7. CASE Head(events[c]) \notin Carries(hostPeer, i)
  BY <1>1, <1>2, <1>3, <1>4, <1>5, <1>7
<1> QED
  BY <1>6, <1>7

\* What a game passes on goes down, and only from the host.
PassedTo(event) == {c \in Clients : client[c] # event.peer}

\* What the host passes on goes to every client but the one that said it.
LEMMA PassOnDoes ==
  ASSUME TypeOK, NEW g \in Games, NEW event, event.message \in Messages, event.delivery \in Deliveries,
         event.message \in Tidings => event.delivery = "Reliable", NEW lost, passOn(g, event, lost)
  PROVE  \E r \in Seq(Packets), u \in Seq(Packets) :
           /\ up' = up
           /\ g # Host => down' = down
           /\ g = Host => ToClients(PassedTo(event), r, u, lost)
           /\ r \in {<<>>, <<event.message>>} /\ (event.delivery = "Reliable" => r = <<event.message>>)
           /\ OnlyValues(u)
<1>1. event.message \in Packets
  BY DEF Packets
<1>2. PICK r, u : /\ r = (IF event.delivery = "Reliable" THEN <<event.message>> ELSE <<>>)
                  /\ u = (IF event.delivery = "Unreliable" THEN <<event.message>> ELSE <<>>)
  OBVIOUS
<1>3. r \in Seq(Packets) /\ u \in Seq(Packets)
  BY <1>1, <1>2
<1>4. OnlyValues(u)
  BY <1>2 DEF ToSet, OnlyValues, Messages, Tidings
<1> QED
  BY <1>2, <1>3, <1>4 DEF passOn, wires, PassedTo

\* Every client steady, the session is.
LEMMA AllSteady ==
  ASSUME TypeOK, SessionInv, HostSession', \A c \in Clients : \E r : Steady(c, r)
  PROVE  SessionInv'
BY SteadySession DEF SessionInv

\* The host keeps to its session.
LEMMA HostSteady ==
  ASSUME HostSession, number'[Host] = number[Host], nextPeer' = nextPeer, authority'[Host] = authority[Host],
         client' = client, ToSet(events'[Host]) \subseteq ToSet(events[Host])
  PROVE  HostSession'
BY DEF HostSession, Peers

\* The session is as it was when a game did something in its frame, on its own.
LEMMA DeedSession ==
  ASSUME TypeOK, SessionInv, NEW g \in Games, UNCHANGED <<session, wires, events, wasClient, spawned, strays>>,
         phase' = [phase EXCEPT ![g] = "frame"]
  PROVE  SessionInv'
<1>1. nextPeer \in Nat /\ phase \in [Games -> {"poll", "frame"}]
  BY DEF TypeOK
<1>2. HostSession'
  BY HostSteady DEF SessionInv, session
<1>3. ASSUME NEW c \in Clients
      PROVE  Steady(c, <<>>)
  <2>1. phase'[c] = "poll" => phase[c] = "poll"
    BY <1>1, GamesAre
  <2>2. \A i \in Instances : Reports(c, i)' = Reports(c, i)
    BY ReportsStay DEF session, wires
  <2>3. <<>> \in Seq(Packets) /\ ToSet(<<>>) = {}
    BY EmptySeq, ToSetEmpty
  <2>4. Delivered(c)
    BY DEF SessionInv
  <2> QED
    BY <1>1, <2>1, <2>2, <2>3, <2>4 DEF Steady, session, wires, known, Wire, Newcomer, Delivered
<1> QED
  BY <1>2, <1>3, AllSteady

\* It is when a game handled something.
LEMMA HandleSession ==
  ASSUME TypeOK, SessionInv, NEW g \in Games, NEW kind, Handles(g, kind), up' = up, NEW r \in Seq(Packets),
         \A p \in ToSet(r) : p.kind \notin {"Welcome", "Authority"},
         \A c \in Clients :
           /\ Wire(c)' \in {Wire(c), Wire(c) \o r} /\ OnlyValues(down'[c]["Unreliable"])
           /\ Online(c) \/ wasClient[c] \/ (known(c)' \subseteq known(c) \cup strays'[c] /\ strays[c] \subseteq strays'[c])
  PROVE  SessionInv'
<1>1. /\ ToSet(events[g]) = {Head(events[g])} \cup ToSet(events'[g])
      /\ \A h \in Games \ {g} : events'[h] = events[h] /\ phase'[h] = phase[h]
      /\ phase'[g] = "frame" /\ UNCHANGED <<session, wasClient, budget>>
  BY HandlesEvents
<1>2. nextPeer \in Nat
  BY DEF TypeOK
<1>3. \A h \in Games : ToSet(events'[h]) \subseteq ToSet(events[h])
  BY <1>1
<1>4. ASSUME NEW c \in Clients
      PROVE  Steady(c, r)
  <2>1. phase'[c] = "poll" => phase[c] = "poll" /\ events'[c] = events[c]
    BY <1>1, GamesAre
  <2>2. ASSUME NEW i \in Instances, Reports(c, i) = <<>>
        PROVE  Reports(c, i)' = <<>>
    <3>1. PICK after : after = Reports(c, i)'
      OBVIOUS
    <3>2. PICK before : before = Reports(c, i)
      OBVIOUS
    <3>3. after \in Seq(About(i))
      <4>1. client' = client /\ up' = up /\ events'[Host] \in Seq(Events)
        BY <1>1, HandlesTypes, GamesAre DEF session, TypeOK
      <4>2. Heard(Host, client[c], i)' \in Seq(About(i)) /\ Only(up[c]["Reliable"], About(i)) \in Seq(About(i))
        BY <4>1, WordsTypes, HeardIs DEF Heard
      <4> QED
        BY <3>1, <4>1, <4>2 DEF Reports
    <3>4. CASE before = after
      BY <2>2, <3>1, <3>2, <3>4
    <3>5. CASE before # after
      <4>1. PICK m : m = Head(events[g]).message
        OBVIOUS
      <4>2. m \in About(i) /\ before = <<m>> \o after
        BY <3>1, <3>2, <3>5, <4>1, ReportsHandled DEF Carries
      <4>3. <<m>> \o after # <<>>
        BY <3>3, <4>2
      <4> QED
        BY <2>2, <3>2, <4>2, <4>3
    <3> QED
      BY <3>4, <3>5
  <2>3. Delivered(c)
    BY DEF SessionInv
  <2>4. \A p \in ToSet(r) : p.kind # "Welcome" /\ p \notin Grants(c)
    BY DEF Grants, AuthorityPacket
  <2>5. Newcomer(c)' => Newcomer(c)
    BY <1>1, <1>3, GamesAre DEF Newcomer, session
  <2> QED
    BY <1>1, <1>2, <1>3, <2>1, <2>2, <2>3, <2>4, <2>5, GamesAre DEF Steady, session, Delivered
<1> QED
  BY <1>1, <1>3, <1>4, AllSteady, GamesAre, HostSteady DEF SessionInv, session

\* What a message or none is.
LEMMA MessagesPass ==
  ASSUME NEW m \in Messages, NEW r, r \in {<<>>, <<m>>}
  PROVE  /\ r \in Seq(Packets) /\ \A p \in ToSet(r) : p.kind \notin {"Welcome", "Authority"}
<1>1. m \in Packets /\ m.kind \notin {"Welcome", "Authority"}
  BY DEF Messages, Packets
<1>2. r \in Seq(Packets)
  <2>1. <<m>> \in Seq(Packets) /\ <<>> \in Seq(Packets)
    BY <1>1
  <2> QED
    BY <2>1
<1>3. ToSet(r) \subseteq {m}
  BY DEF ToSet
<1> QED
  BY <1>1, <1>2, <1>3

\* What a poll left for a game to handle.
LEMMA EventsAre ==
  ASSUME TypeOK, SessionInv, NEW g \in Games, Handles(g, "Replication")
  PROVE  LET event == Head(events[g])
         IN /\ event.message \in Messages /\ event.delivery \in Deliveries
            /\ event \in [kind : {"Replication"}, peer : Nat, message : Messages, delivery : Deliveries]
            /\ event.message \in Tidings => event.delivery = "Reliable"
            /\ g # Host => event.peer = hostPeer
            /\ g = Host => event.peer > hostPeer
<1>1. PICK event : event = Head(events[g])
  OBVIOUS
<1>2. event \in ToSet(events[g]) /\ event.kind = "Replication" /\ event \in Events
  BY <1>1, HandlesEvents
<1>3. event \in [kind : {"Replication"}, peer : Nat, message : Messages, delivery : Deliveries]
  BY <1>2 DEF Events
<1>4. CASE g = Host
  BY <1>1, <1>2, <1>3, <1>4 DEF SessionInv, HostSession
<1>5. CASE g # Host
  BY <1>1, <1>2, <1>3, <1>5 DEF SessionInv, Delivered, Games
<1> QED
  BY <1>4, <1>5

\* It is when a game passed on, or not, what it handled.
LEMMA PassOnSession ==
  ASSUME TypeOK, SessionInv, NEW g \in Games, Handles(g, "Replication"), NEW lost,
         passOn(g, Head(events[g]), lost) \/ UNCHANGED wires,
         \A c \in Clients : Online(c) \/ wasClient[c] \/ (known(c)' \subseteq known(c) \cup strays'[c] /\ strays[c] \subseteq strays'[c])
  PROVE  SessionInv'
<1>1. PICK event : event = Head(events[g])
  OBVIOUS
<1>2. /\ event.message \in Messages /\ event.delivery \in Deliveries
      /\ event.message \in Tidings => event.delivery = "Reliable"
  BY <1>1, EventsAre
<1>3. \A c \in Clients : OnlyValues(down[c]["Unreliable"])
  BY DEF SessionInv, Delivered
<1>4. CASE UNCHANGED wires
  <2>1. PICK r : r = <<>>
    OBVIOUS
  <2> QED
    BY <1>2, <1>3, <1>4, <2>1, HandleSession, MessagesPass DEF wires, Wire
<1>5. CASE passOn(g, event, lost)
  <2>1. PICK r \in Seq(Packets), u \in Seq(Packets) :
           /\ up' = up
           /\ g # Host => down' = down
           /\ g = Host => ToClients(PassedTo(event), r, u, lost)
           /\ r \in {<<>>, <<event.message>>}
           /\ OnlyValues(u)
    BY <1>2, <1>5, PassOnDoes
  <2>2. \A c \in Clients : Wire(c)' \in {Wire(c), Wire(c) \o r} /\ OnlyValues(down'[c]["Unreliable"])
    <3>1. CASE g = Host
      BY <1>3, <2>1, <3>1, ToClientsWires DEF OnlyValues
    <3>2. CASE g # Host
      BY <1>3, <2>1, <3>2 DEF Wire
    <3> QED
      BY <3>1, <3>2
  <2> QED
    BY <1>2, <2>1, <2>2, HandleSession, MessagesPass
<1> QED
  BY <1>1, <1>4, <1>5

\* It is when a game handled that something appeared, or is gone, or values.
LEMMA ReceiveSpawnSession ==
  ASSUME TypeOK, SessionInv, NEW g \in Games, receiveSpawn(g)
  PROVE  SessionInv'
<1> DEFINE event == Head(events[g])
           i == event.message.instance
           taken == mayDecide(g, event, SpawnerOf[i]) /\ Exists(g, SpawnerOf[i]) /\ i \notin known(g)
<1>1. Handles(g, "Replication")
  BY DEF receiveSpawn
<1>2. /\ IF taken THEN spawned' = [spawned EXCEPT ![g] = Append(spawned[g], i)] /\ passOn(g, event, {})
                  ELSE UNCHANGED <<alive, spawned, value, wires>>
      /\ strays' = IF Online(g) THEN strays ELSE [strays EXCEPT ![g] = strays[g] \cup {i}]
      /\ event.message.kind = "Spawn"
  BY DEF receiveSpawn
<1>3. i \in Instances
  BY <1>1, <1>2, EventsAre DEF Messages
<1>4. ASSUME NEW c \in Clients, ~Online(c)
      PROVE  known(c)' \subseteq known(c) \cup strays'[c] /\ strays[c] \subseteq strays'[c]
  <2>1. /\ spawned \in [Games -> Seq(Instances)] /\ strays \in [Clients -> SUBSET Instances]
        /\ c \in Games /\ spawned[c] \in Seq(Instances)
    BY GamesAre DEF TypeOK
  <2>2. PICK a : a = Append(spawned[c], i)
    OBVIOUS
  <2>3. strays[c] \subseteq strays'[c] /\ (c = g => i \in strays'[c])
    <3> HIDE DEF event, i
    <3> QED
      BY <1>2, <1>4, <2>1
  <2> HIDE DEF i
  <2>4. CASE spawned'[c] = spawned[c]
    BY <2>3, <2>4 DEF known
  <2>5. CASE c = g /\ spawned'[c] = a
    BY <1>3, <2>1, <2>2, <2>3, <2>5, ToSetAppend DEF known
  <2> QED
    BY <1>2, <2>1, <2>2, <2>4, <2>5
<1> HIDE DEF taken, i
<1> QED
  BY <1>1, <1>2, <1>4, PassOnSession DEF wires

\* It is when a game handled that something is gone.
LEMMA ReceiveDespawnSession ==
  ASSUME TypeOK, SessionInv, NEW g \in Games, receiveDespawn(g)
  PROVE  SessionInv'
<1> DEFINE event == Head(events[g])
           i == event.message.instance
           may == mayDecide(g, event, SpawnerOf[i])
<1>1. /\ IF may THEN Forgets(g, i) /\ passOn(g, event, {}) ELSE UNCHANGED <<alive, spawned, tracked, wires>>
      /\ strays' = strays
  BY DEF receiveDespawn
<1>2. ASSUME NEW c \in Clients
      PROVE  known(c)' \subseteq known(c) \cup strays'[c] /\ strays[c] \subseteq strays'[c]
  <2>1. CASE Forgets(g, i)
    BY <1>1, <2>1, GamesAre, ForgetsTypes DEF known
  <2>2. CASE spawned' = spawned
    BY <1>1, <2>2 DEF known
  <2> QED
    BY <1>1, <2>1, <2>2
<1> HIDE DEF may, i
<1> QED
  BY <1>1, <1>2, PassOnSession DEF wires, receiveDespawn

\* It is when a game handled values.
LEMMA ReceiveValuesSession ==
  ASSUME TypeOK, SessionInv, NEW g \in Games, NEW lost, receiveValues(g, lost)
  PROVE  SessionInv'
<1>1. /\ Handles(g, "Replication")
      /\ passOn(g, Head(events[g]), lost) \/ UNCHANGED wires
      /\ UNCHANGED <<alive, spawned, history>>
  BY DEF receiveValues, wires
<1>2. \A c \in Clients : known(c)' \subseteq known(c) \cup strays'[c] /\ strays[c] \subseteq strays'[c]
  BY <1>1 DEF history, known
<1> QED
  BY <1>1, <1>2, PassOnSession

\* The session is as it was after the code of a game did something.
LEMMA CodeSession ==
  ASSUME TypeOK, SessionInv, NEW g \in Games,
         \/ \E e \in Synced : write(g, e)
         \/ \E i \in Instances : place(g, i) \/ destroy(g, i)
  PROVE  SessionInv'
<1>1. /\ UNCHANGED <<session, wires, events, wasClient, spawned, strays>>
      /\ phase' = [phase EXCEPT ![g] = "frame"]
  BY DEF write, place, destroy, Deed, history
<1> QED
  BY <1>1, DeedSession

\* Messages are neither welcomes nor grants.
LEMMA MessagesOnly ==
  ASSUME NEW r \in Seq(Messages)
  PROVE  r \in Seq(Packets) /\ \A p \in ToSet(r) : p.kind \notin {"Welcome", "Authority"}
<1>1. Messages \subseteq Packets /\ \A p \in Messages : p.kind \notin {"Welcome", "Authority"}
  BY DEF Messages, Packets
<1>2. r \in Seq(Packets)
  BY <1>1, SeqMonotone
<1>3. ToSet(r) \subseteq Messages
  BY ToSetOfSeq
<1> QED
  BY <1>1, <1>2, <1>3

\* It is after the host welcomed a client.
LEMMA WelcomeSession ==
  ASSUME TypeOK, SessionInv, welcome
  PROVE  SessionInv'
<1>0. PICK to, there : /\ there = Only(spawned[Host], alive[Host])
                       /\ to = {c \in Clients : client[c] = Head(events[Host]).peer}
  OBVIOUS
<1>1. PICK vs \in Seq(ValuesMessages) : ToClients(to, SpawnsOf(there) \o vs, <<>>, {})
  BY <1>0, WelcomeSays
<1>2. PICK r : r = SpawnsOf(there) \o vs
  OBVIOUS
<1>3. r \in Seq(Messages)
  BY <1>0, <1>2, SpawnsOfAre, ValuesSayNothing, OnlyIs, GamesAre DEF TypeOK
<1>4. r \in Seq(Packets) /\ \A p \in ToSet(r) : p.kind \notin {"Welcome", "Authority"}
  BY <1>3, MessagesOnly
<1>5. PICK none : none = <<>>
  OBVIOUS
<1>6. ToClients(to, r, none, {})
  BY <1>1, <1>2, <1>5
<1>7. \A c \in Clients : /\ Wire(c)' \in {Wire(c), Wire(c) \o r}
                          /\ ToSet(down'[c]["Unreliable"]) \subseteq ToSet(down[c]["Unreliable"])
  BY <1>4, <1>5, <1>6, ToClientsWires, EmptySeq, ToSetEmpty
<1> QED
  BY <1>4, <1>7, GamesAre, HandleSession DEF welcome, history, known, SessionInv, Delivered, OnlyValues

\* What goes up from a client.
LEMMA GoesUp ==
  ASSUME TypeOK, NEW c \in Clients, Online(c), NEW reliable \in Seq(Messages), NEW unreliable \in Seq(Messages), NEW lost,
         SendsEveryone(c, reliable, unreliable, lost)
  PROVE  /\ down' = down /\ \A d \in Clients \ {c} : up'[d] = up[d]
         /\ up'[c]["Reliable"] = up[c]["Reliable"] \o reliable
         /\ ToSet(up'[c]["Unreliable"]) \subseteq ToSet(up[c]["Unreliable"]) \cup ToSet(unreliable)
<1>1. PICK carried, wire : carried = (c \notin lost) /\ wire = up[c]
  OBVIOUS
<1>2. up \in [Clients -> [Deliveries -> Seq(Messages)]] /\ wire \in [Deliveries -> Seq(Messages)]
  BY <1>1 DEF TypeOK
<1>3. /\ With(wire, reliable, unreliable, carried)["Reliable"] = wire["Reliable"] \o reliable
      /\ ToSet(With(wire, reliable, unreliable, carried)["Unreliable"])
           \subseteq ToSet(wire["Unreliable"]) \cup ToSet(unreliable)
  BY <1>2, WithHas
<1>4. PICK after : after = With(wire, reliable, unreliable, carried)
  OBVIOUS
<1> QED
  BY <1>1, <1>2, <1>3, <1>4, GamesAre DEF SendsEveryone

\* What a client tells of then.
LEMMA GoesUpReports ==
  ASSUME TypeOK, NEW c \in Clients, Online(c), NEW reliable \in Seq(Messages), NEW unreliable \in Seq(Messages), NEW lost,
         SendsEveryone(c, reliable, unreliable, lost), client' = client, events' = events, NEW i, NEW d \in Clients
  PROVE  Reports(d, i)' = IF d = c /\ client[c] # 0 THEN Reports(d, i) \o Only(reliable, About(i)) ELSE Reports(d, i)
<1>1. /\ \A e \in Clients \ {c} : up'[e] = up[e]
      /\ up'[c]["Reliable"] = up[c]["Reliable"] \o reliable
  BY GoesUp
<1>2. CASE d # c
  BY <1>1, <1>2, ReportsStay
<1>3. CASE d = c /\ client[c] = 0
  BY <1>3 DEF Reports
<1>4. CASE d = c /\ client[c] # 0
  <2>1. PICK u, k, r, h : /\ u = up[c]["Reliable"] /\ k = Only(u, About(i)) /\ r = Only(reliable, About(i))
                          /\ h = Heard(Host, client[c], i)
    OBVIOUS
  <2>2. u \in Seq(Messages) /\ k \in Seq(About(i)) /\ h \in Seq(About(i))
    BY <2>1, WordsTypes, GamesAre
  <2>3. r \in Seq(About(i))
    BY <2>1, OnlyThem
  <2>4. Only(u \o reliable, About(i)) = k \o r
    <3>1. Only(u \o reliable, About(i)) = Only(u, About(i)) \o Only(reliable, About(i))
      BY <2>2, OnlyConcat
    <3> QED
      BY <2>1, <3>1
  <2>5. h \o (k \o r) = (h \o k) \o r
    BY <2>2, <2>3
  <2> QED
    BY <1>1, <1>4, <2>1, <2>4, <2>5 DEF Reports, Heard
<1> QED
  BY <1>2, <1>3, <1>4

\* It is after a game sent: a newcomer has nothing to tell yet.
LEMMA SendSession ==
  ASSUME Inv, SessionInv, NEW g \in Games, NEW due \in SUBSET Synced, NEW lost, send(g, due, lost)
  PROVE  SessionInv'
<1>0. TypeOK
  BY DEF Inv
<1>1. PICK vs \in Seq(ValuesMessages), us \in Seq(ValuesMessages) : SendsEveryone(g, Letters(g, vs), us, lost)
  BY <1>0, SendSays DEF Letters
<1>2. PICK r : r = Letters(g, vs)
  OBVIOUS
<1>3. /\ r \in Seq(Messages) /\ r \in Seq(Packets) /\ us \in Seq(Messages) /\ us \in Seq(Packets) /\ OnlyValues(us)
      /\ \A p \in ToSet(r) : p.kind \notin {"Welcome", "Authority"}
  BY <1>0, <1>2, LettersAre, ValuesSayNothing, MessagesOnly DEF OnlyValues
<1>4. /\ events[g] = <<>> /\ phase' = [phase EXCEPT ![g] = "poll"]
      /\ UNCHANGED <<session, events, value, alive, wasClient, history, budget>>
  BY DEF send, Runs
<1>5. phase \in [Games -> {"poll", "frame"}] /\ nextPeer \in Nat
  BY <1>0 DEF TypeOK
<1>6. ASSUME NEW c \in Clients
      PROVE  known(c)' \subseteq known(c) \cup alive[c] /\ strays'[c] = strays[c]
  BY <1>0, <1>4, SendKnows, NewIs, GamesAre DEF history
<1>7. ASSUME NEW c \in Clients
      PROVE  Online(c) \/ wasClient[c] \/ (known(c)' \subseteq known(c) \cup strays'[c] /\ strays[c] \subseteq strays'[c])
  BY <1>6 DEF Inv, Remembered
<1>8. ASSUME NEW c \in Clients
      PROVE  /\ Wire(c)' \in {Wire(c), Wire(c) \o r}
             /\ OnlyValues(down'[c]["Unreliable"]) /\ OnlyValues(up'[c]["Unreliable"])
             /\ \A i \in Instances : c \in Reached /\ (Newcomer(c) \/ ~Online(c)) => Reports(c, i)' = Reports(c, i)
  <2>1. OnlyValues(down[c]["Unreliable"]) /\ OnlyValues(up[c]["Unreliable"])
    BY DEF SessionInv, Delivered
  <2>2. CASE g = Host
    <3>1. ToClients(Clients, r, us, lost) /\ up' = up
      BY <1>1, <1>2, <2>2 DEF SendsEveryone
    <3>2. /\ Wire(c)' \in {Wire(c), Wire(c) \o r}
          /\ ToSet(down'[c]["Unreliable"]) \subseteq ToSet(down[c]["Unreliable"]) \cup ToSet(us)
      BY <1>0, <1>3, <3>1, ToClientsWires
    <3> QED
      BY <1>3, <1>4, <2>1, <3>1, <3>2, ReportsStay DEF session, OnlyValues
  <2>3. CASE g # Host /\ ~Online(g)
    BY <1>1, <1>4, <2>1, <2>3, ReportsStay DEF Wire, session, SendsEveryone
  <2>4. CASE g # Host /\ Online(g)
    <3>1. g \in Clients
      BY <2>4 DEF Games
    <3>2. SendsEveryone(g, r, us, lost)
      BY <1>1, <1>2
    <3>3. /\ down' = down /\ \A d \in Clients \ {g} : up'[d] = up[d]
          /\ ToSet(up'[g]["Unreliable"]) \subseteq ToSet(up[g]["Unreliable"]) \cup ToSet(us)
      BY <1>0, <1>3, <2>4, <3>1, <3>2, GoesUp
    <3>4. ASSUME NEW i \in Instances, c \in Reached, Newcomer(c) \/ ~Online(c)
          PROVE  Reports(c, i)' = Reports(c, i)
      <4>1. Reports(c, i)' = IF c = g /\ client[g] # 0 THEN Reports(c, i) \o Only(r, About(i)) ELSE Reports(c, i)
        BY <1>0, <1>3, <1>4, <2>4, <3>1, <3>2, GoesUpReports DEF session
      <4>2. CASE c = g
        <5>1. \A i_1 \in Instances : ~isAuthority(c, SpawnerOf[i_1])
          BY <2>4, <3>1, <3>4, <4>2, GamesAre DEF Authorized, isAuthority, SessionInv, Fresh, Membership
        <5>2. ToSet(New(g)) = {} /\ ToSet(Gone(g)) = {}
          BY <1>0, <4>2, <5>1, NewIs, GoneIs, ToSetOfSeq DEF known, TypeOK
        <5>3. ToSet(r) \cap About(i) = {}
          <6>1. \A m \in About(i) : m = spawnMessage(m.instance) \/ m = despawnMessage(m.instance)
            BY DEF About, spawnMessage, despawnMessage
          <6> QED
            BY <1>0, <1>2, <5>2, <6>1, LettersAre
        <5>4. PICK before : before = Reports(c, i)
          OBVIOUS
        <5>5. before \o <<>> = before
          BY <1>0, <5>4, WordsTypes
        <5> QED
          BY <1>3, <4>1, <5>3, <5>4, <5>5, OnlyNone
      <4> QED
        BY <4>1, <4>2
    <3> QED
      BY <1>3, <2>1, <3>3, <3>4 DEF Wire, OnlyValues
  <2> QED
    BY <2>2, <2>3, <2>4
<1>9. ASSUME NEW c \in Clients
       PROVE  Steady(c, r)
  <2>1. phase'[c] = "poll" => events'[c] = <<>> \/ (phase[c] = "poll" /\ events'[c] = events[c])
    BY <1>4, <1>5, GamesAre
  <2>2. \A p \in ToSet(r) : p.kind # "Welcome" /\ p \notin Grants(c)
    BY <1>3 DEF Grants, AuthorityPacket
  <2>3. Newcomer(c)' <=> Newcomer(c)
    BY <1>4 DEF Newcomer, session
  <2> QED
    BY <1>3, <1>4, <1>5, <1>7, <1>8, <2>1, <2>2, <2>3 DEF Steady, session
<1> QED
  BY <1>0, <1>4, <1>9, AllSteady, HostSteady DEF SessionInv, session

\* The session is as it was after the host gave an entity to a game.
LEMMA SetAuthoritySession ==
  ASSUME TypeOK, SessionInv, NEW e \in Owned, NEW peer \in {hostPeer} \cup {client[c] : c \in Peers}, setAuthority(e, peer)
  PROVE  SessionInv'
<1>1. /\ events[Host] = <<>> /\ phase' = [phase EXCEPT ![Host] = "frame"]
      /\ UNCHANGED <<events, wasClient>>
      /\ authority' = [authority EXCEPT ![Host][e] = peer]
      /\ ToClients(Clients, <<AuthorityPacket(e, peer)>>, <<>>, {})
      /\ UNCHANGED <<number, linked, client, nextPeer, up, scenes, strays>>
  BY DEF setAuthority, Deed, Runs
<1>2. /\ peer \in Nat /\ nextPeer \in Nat /\ phase \in [Games -> {"poll", "frame"}]
      /\ authority \in [Games -> [Owned -> Nat]]
  BY DEF TypeOK, hostPeer, Peers
<1>3. PICK r, none : r = <<AuthorityPacket(e, peer)>> /\ none = <<>>
  OBVIOUS
<1>4. AuthorityPacket(e, peer) \in Packets
  BY <1>2 DEF AuthorityPacket, Packets
<1>5. /\ r \in Seq(Packets) /\ ToSet(r) = {AuthorityPacket(e, peer)} /\ none \in Seq(Packets) /\ ToSet(none) = {}
  BY <1>3, <1>4, OnePacket
<1>6. \A c \in Clients : /\ Wire(c)' \in {Wire(c), Wire(c) \o r}
                         /\ ToSet(down'[c]["Unreliable"]) \subseteq ToSet(down[c]["Unreliable"])
  BY <1>1, <1>3, <1>5, ToClientsWires
<1>7. ASSUME NEW c \in Clients
      PROVE  Steady(c, r)
  <2>1. phase'[c] = "poll" => phase[c] = "poll" /\ events'[c] = events[c]
    BY <1>1, <1>2, GamesAre
  <2>2. authority'[c] = authority[c]
    BY <1>1, <1>2, GamesAre
  <2>3. ~Newcomer(c) /\ ~Newcomer(c)'
    BY <1>1 DEF Newcomer, ToSet
  <2>4. \A i \in Instances : Reports(c, i)' = Reports(c, i)
    BY <1>1, ReportsStay
  <2>5. \A p \in ToSet(r) : p.kind # "Welcome"
    BY <1>5 DEF AuthorityPacket
  <2>6. OnlyValues(down'[c]["Unreliable"]) /\ OnlyValues(up'[c]["Unreliable"])
    BY <1>1, <1>6 DEF SessionInv, Delivered, OnlyValues
  <2> QED
    BY <1>1, <1>2, <1>5, <1>6, <2>1, <2>2, <2>3, <2>4, <2>5, <2>6 DEF Steady, known, scenes
<1> QED
  BY <1>1, <1>2, <1>7, AllSteady, GamesAre DEF SessionInv, HostSession, Peers

\* What the host read of a client it is yet to handle.
LEMMA RelayDoes ==
  ASSUME TypeOK, SessionInv, NEW c \in Clients, NEW d \in Deliveries, relay(c, d)
  PROVE  LET event == [kind |-> "Replication", peer |-> client[c], message |-> Head(up[c][d]), delivery |-> d]
         IN /\ event \in Events /\ (event.message \in Tidings => d = "Reliable")
            /\ events'[Host] = Append(events[Host], event) /\ \A g \in Clients : events'[g] = events[g]
            /\ ToSet(events'[Host]) = ToSet(events[Host]) \cup {event}
            /\ up'[c] = [up[c] EXCEPT ![d] = Tail(up[c][d])] /\ \A e \in Clients \ {c} : up'[e] = up[e]
            /\ ToSet(up'[c]["Unreliable"]) \subseteq ToSet(up[c]["Unreliable"])
            /\ UNCHANGED <<session, phase, scenes, history, down, wasClient, budget>>
            /\ client[c] # 0 /\ phase[Host] = "poll"
<1>1. PICK event, s, t : /\ event = [kind |-> "Replication", peer |-> client[c], message |-> Head(up[c][d]), delivery |-> d]
                         /\ s = up[c][d] /\ t = Tail(up[c][d])
  OBVIOUS
<1>2. /\ events' = [events EXCEPT ![Host] = Append(events[Host], event)]
      /\ up' = [up EXCEPT ![c][d] = t] /\ s # <<>>
      /\ UNCHANGED <<session, phase, scenes, history, down, wasClient, budget>>
      /\ client[c] # 0 /\ phase[Host] = "poll"
  BY <1>1 DEF relay, Polls
<1>3. /\ s \in Seq(Messages) /\ events \in [Games -> Seq(Events)] /\ up \in [Clients -> [Deliveries -> Seq(Messages)]]
      /\ client[c] \in Nat /\ up[c] \in [Deliveries -> Seq(Messages)] /\ events[Host] \in Seq(Events)
  BY <1>1, GamesAre DEF TypeOK
<1>4. Head(s) \in Messages /\ Head(s) \in ToSet(s) /\ t \in Seq(Messages) /\ ToSet(t) \subseteq ToSet(s)
  BY <1>1, <1>2, <1>3, ToSetTail
<1>5. event \in Events
  BY <1>1, <1>3, <1>4 DEF Events
<1>6. /\ events'[Host] = Append(events[Host], event) /\ \A g \in Clients : events'[g] = events[g]
  BY <1>2, <1>3, GamesAre
<1>7. ToSet(Append(events[Host], event)) = ToSet(events[Host]) \cup {event}
  BY <1>3, <1>5, ToSetAppend
<1>8. up'[c] = [up[c] EXCEPT ![d] = t] /\ \A e \in Clients \ {c} : up'[e] = up[e]
  BY <1>2, <1>3
<1>9. ToSet(up'[c]["Unreliable"]) \subseteq ToSet(up[c]["Unreliable"])
  BY <1>1, <1>3, <1>4, <1>8 DEF Deliveries
<1>10. Head(s) \in Tidings => d = "Reliable"
  BY <1>1, <1>4 DEF SessionInv, Delivered, OnlyValues, Tidings, Deliveries
<1> QED
  BY <1>1, <1>2, <1>5, <1>6, <1>7, <1>8, <1>9, <1>10

\* It is as much on its way as before.
LEMMA RelayReports ==
  ASSUME TypeOK, SessionInv, NEW c \in Clients, NEW d \in Deliveries, relay(c, d), NEW i, NEW e \in Clients
  PROVE  Reports(e, i)' = Reports(e, i)
<1>1. PICK event : event = [kind |-> "Replication", peer |-> client[c], message |-> Head(up[c][d]), delivery |-> d]
  OBVIOUS
<1>2. /\ event \in Events
      /\ events'[Host] = Append(events[Host], event)
      /\ up'[c] = [up[c] EXCEPT ![d] = Tail(up[c][d])] /\ \A g \in Clients \ {c} : up'[g] = up[g]
      /\ client' = client /\ client[c] # 0 /\ up[c][d] # <<>>
  BY <1>1, RelayDoes DEF session, relay
<1>3. PICK h, p, A, es : h = Heard(Host, p, i) /\ p = client[e] /\ A = About(i) /\ es = events[Host]
  OBVIOUS
<1>4. es \in Seq(Events) /\ h \in Seq(A) /\ up[c] \in [Deliveries -> Seq(Messages)] /\ up[e] \in [Deliveries -> Seq(Messages)]
  BY <1>3, WordsTypes, GamesAre DEF TypeOK
<1>5. HeardIn(Append(es, event), p, i) = IF event \in Carries(p, i) THEN h \o <<event.message>> ELSE h
  <2>1. HeardIn(Append(es, event), p, i)
          = IF event \in Carries(p, i) THEN HeardIn(es, p, i) \o <<event.message>> ELSE HeardIn(es, p, i)
    BY <1>2, <1>4, HeardAppend
  <2> QED
    BY <1>3, <2>1 DEF Heard
<1>6. client[e] # 0 => Reports(e, i)' = HeardIn(Append(es, event), p, i) \o Only(up'[e]["Reliable"], A)
  BY <1>2, <1>3 DEF Reports, Heard
<1>7. client[e] # 0 => Reports(e, i) = h \o Only(up[e]["Reliable"], A)
  BY <1>3 DEF Reports
<1>8. CASE client[e] = 0
  BY <1>2, <1>8 DEF Reports
<1>9. CASE client[e] # 0 /\ event \notin Carries(p, i)
  <2>1. Only(up'[e]["Reliable"], A) = Only(up[e]["Reliable"], A)
    <3>1. CASE e # c
      BY <1>2, <3>1
    <3>2. CASE e = c /\ d = "Reliable"
      <4>1. PICK s \in Seq(Messages) : s = up[c]["Reliable"]
        BY <1>4, <3>2
      <4>2. Head(s) \notin A
        BY <1>1, <1>3, <1>9, <3>2, <4>1 DEF Carries
      <4>3. s # <<>> /\ up'[c]["Reliable"] = Tail(s)
        BY <1>2, <1>4, <3>2, <4>1
      <4> QED
        BY <3>2, <4>1, <4>2, <4>3, OnlyTail
    <3>3. CASE e = c /\ d # "Reliable"
      BY <1>2, <1>4, <3>3 DEF Deliveries
    <3> QED
      BY <3>1, <3>2, <3>3
  <2> QED
    BY <1>5, <1>6, <1>7, <1>9, <2>1
<1>10. CASE client[e] # 0 /\ event \in Carries(p, i)
  <2>1. e = c /\ d = "Reliable"
    BY <1>1, <1>3, <1>10 DEF SessionInv, Membership, Carries
  <2>2. PICK s \in Seq(Messages), m \in {Head(up[c]["Reliable"])} : s = up[c]["Reliable"] /\ m = Head(up[c]["Reliable"])
    BY <1>4, <2>1
  <2>3. m \in A /\ event.message = m
    BY <1>1, <1>3, <1>10, <2>1, <2>2 DEF Carries
  <2>4. s # <<>> /\ up'[c]["Reliable"] = Tail(s) /\ Tail(s) \in Seq(Messages)
    BY <1>2, <1>4, <2>1, <2>2, ToSetTail
  <2>5. PICK k : k = Only(Tail(s), A)
    OBVIOUS
  <2>6. Only(s, A) = <<m>> \o k
    BY <2>2, <2>3, <2>4, <2>5, OnlyTail
  <2>7. k \in Seq(A)
    BY <2>4, <2>5, OnlyThem
  <2>8. (h \o <<m>>) \o k = h \o (<<m>> \o k)
    BY <1>4, <2>3, <2>7
  <2> QED
    BY <1>5, <1>6, <1>7, <1>10, <2>1, <2>2, <2>3, <2>4, <2>5, <2>6, <2>8
<1> QED
  BY <1>8, <1>9, <1>10

\* The session is as it was when the host read of a client.
LEMMA RelaySession ==
  ASSUME TypeOK, SessionInv, NEW c \in Clients, NEW d \in Deliveries, relay(c, d)
  PROVE  SessionInv'
<1>1. PICK event : event = [kind |-> "Replication", peer |-> client[c], message |-> Head(up[c][d]), delivery |-> d]
  OBVIOUS
<1>2. /\ event.message \in Tidings => d = "Reliable"
      /\ \A g \in Clients : events'[g] = events[g]
      /\ ToSet(events'[Host]) = ToSet(events[Host]) \cup {event}
      /\ \A e \in Clients \ {c} : up'[e] = up[e]
      /\ ToSet(up'[c]["Unreliable"]) \subseteq ToSet(up[c]["Unreliable"])
      /\ UNCHANGED <<session, phase, scenes, history, down, wasClient, budget>>
      /\ client[c] # 0
  BY <1>1, RelayDoes
<1>3. nextPeer \in Nat /\ client[c] \in Nat
  BY DEF TypeOK
<1>4. ASSUME NEW e \in Clients
      PROVE  Steady(e, <<>>)
  <2>1. <<>> \in Seq(Packets) /\ ToSet(<<>>) = {}
    BY EmptySeq, ToSetEmpty
  <2>2. Newcomer(e)' <=> Newcomer(e)
    BY <1>1, <1>2 DEF Newcomer, session
  <2>3. OnlyValues(down'[e]["Unreliable"]) /\ OnlyValues(up'[e]["Unreliable"])
    BY <1>2 DEF SessionInv, Delivered, OnlyValues
  <2> QED
    BY <1>2, <1>3, <2>1, <2>2, <2>3, RelayReports DEF Steady, session, scenes, history, known, Wire
<1> QED
  BY <1>1, <1>2, <1>3, <1>4, AllSteady DEF SessionInv, HostSession, session, Peers, Membership, hostPeer

\* What a client that is not in a step of its own keeps, when the session changes around it.
LEMMA OtherSteady ==
  ASSUME TypeOK, SessionInv, NEW c \in Clients, NEW r,
         number'[c] = number[c], linked'[c] = linked[c], client'[c] = client[c], wasClient'[c] = wasClient[c],
         authority'[c] = authority[c], nextPeer' \in Nat, nextPeer' >= nextPeer,
         \A d \in Clients : client'[d] \in {client[d], 0, nextPeer},
         events'[c] = events[c], phase'[c] \in {phase[c], "frame"}, spawned'[c] = spawned[c], strays'[c] = strays[c],
         r \in Seq(Packets), Wire(c)' \in {Wire(c), Wire(c) \o r}, up'[c] = up[c],
         \A p \in ToSet(r) : p.kind \notin {"Welcome", "Authority"},
         \A ev \in ToSet(events'[Host]) : ev \in ToSet(events[Host]) \/ ev.peer # client[c],
         \A i \in Instances : Heard(Host, client[c], i)' = Heard(Host, client[c], i),
         OnlyValues(down'[c]["Unreliable"])
  PROVE  Steady(c, r)
<1>1. Newcomer(c)' => Newcomer(c)
  BY DEF Newcomer
<1>2. known(c)' = known(c)
  BY DEF known
<1> QED
  BY <1>1, <1>2 DEF Steady, Grants, AuthorityPacket, Reports, SessionInv, Delivered

\* The silent wire carries nothing.
LEMMA SilentSays ==
  /\ Silent["Reliable"] = <<>> /\ Silent["Unreliable"] = <<>> /\ OnlyValues(<<>>) /\ ToSet(<<>>) = {}
  /\ <<>> \in Seq(Packets) /\ \A A : Only(<<>>, A) = <<>>
<1>1. Silent["Reliable"] = <<>> /\ Silent["Unreliable"] = <<>>
  BY DEF Silent, Deliveries
<1>2. ToSet(<<>>) = {} /\ <<>> \in Seq(Packets)
  BY EmptySeq, ToSetEmpty
<1> QED
  BY <1>1, <1>2, OnlyEmpty DEF OnlyValues

\* The session is as it was for the others when a client closes its own.
LEMMA ClosesSession ==
  ASSUME Inv, SessionInv, NEW c \in Clients, Closes(c), UNCHANGED <<scenes, history>>,
         \A g \in Games : phase'[g] \in {phase[g], "frame"}
  PROVE  SessionInv'
<1>1. /\ Online(c) /\ wasClient[c]
      /\ number' = [number EXCEPT ![c] = 0] /\ linked' = [linked EXCEPT ![c] = FALSE]
      /\ authority' = [authority EXCEPT ![c] = NoAuthority]
      /\ down' = [down EXCEPT ![c] = Silent]
      /\ UNCHANGED <<client, nextPeer, up, events, wasClient>>
  BY DEF Closes, Inv, Remembered
<1>2. /\ TypeOK /\ number \in [Games -> Nat] /\ linked \in [Clients -> BOOLEAN] /\ nextPeer \in Nat
      /\ authority \in [Games -> [Owned -> Nat]] /\ down \in [Clients -> [Deliveries -> Seq(Packets)]]
      /\ client \in [Clients -> Nat]
  BY DEF Inv, TypeOK
<1>3. HostSession'
  BY <1>1, <1>2, HostSteady, GamesAre DEF SessionInv
<1>4. ASSUME NEW d \in Clients \ {c}
      PROVE  Membership(d)' /\ Unread(d)' /\ Fresh(d)' /\ Delivered(d)'
  <2>1. /\ number'[d] = number[d] /\ linked'[d] = linked[d] /\ authority'[d] = authority[d] /\ down'[d] = down[d]
    BY <1>1, <1>2, GamesAre
  <2>2. OnlyValues(down'[d]["Unreliable"])
    BY <2>1 DEF SessionInv, Delivered
  <2>3. Wire(d)' = Wire(d)
    BY <2>1 DEF Wire
  <2>4. \A i \in Instances : Heard(Host, client[d], i)' = Heard(Host, client[d], i)
    BY <1>1 DEF Heard
  <2>5. phase'[d] \in {phase[d], "frame"}
    BY GamesAre
  <2>6. PICK r \in Seq(Packets) : r = <<>> /\ ToSet(r) = {}
    BY SilentSays
  <2>7. nextPeer' \in Nat /\ nextPeer' >= nextPeer /\ \A e \in Clients : client'[e] \in {client[e], 0, nextPeer}
    BY <1>1, <1>2
  <2>8. /\ client'[d] = client[d] /\ wasClient'[d] = wasClient[d] /\ events'[d] = events[d]
        /\ spawned'[d] = spawned[d] /\ strays'[d] = strays[d] /\ up'[d] = up[d]
    BY <1>1 DEF scenes, history
  <2>9. /\ \A p \in ToSet(r) : p.kind \notin {"Welcome", "Authority"}
        /\ \A ev \in ToSet(events'[Host]) : ev \in ToSet(events[Host]) \/ ev.peer # client[d]
    BY <1>1, <2>6
  <2>10. Steady(d, r)
    BY <1>2, <2>1, <2>2, <2>3, <2>4, <2>5, <2>7, <2>8, <2>9, OtherSteady
  <2> QED
    BY <1>2, <2>10, SteadySession DEF SessionInv
<1>5. /\ ~Online(c)' /\ ~linked'[c] /\ authority'[c] = NoAuthority /\ down'[c] = Silent
  BY <1>1, <1>2, GamesAre DEF Online
<1>6. Membership(c)'
  BY <1>1, <1>5 DEF Membership, NoAuthority, Joining, SessionInv
<1> QED
  BY <1>1, <1>3, <1>4, <1>5, <1>6, SilentSays DEF SessionInv, Unread, Fresh, Reached, Delivered

\* It is when a client put away the session that ended.
LEMMA LeftSessionSession ==
  ASSUME TypeOK, SessionInv, NEW c \in Clients, leftSession(c)
  PROVE  SessionInv'
<1>1. /\ wasClient' = [wasClient EXCEPT ![c] = FALSE] /\ spawned' = [spawned EXCEPT ![c] = <<>>]
      /\ phase' = [phase EXCEPT ![c] = "frame"] /\ UNCHANGED <<session, events, wires, value, history, budget>>
      /\ wasClient[c] /\ ~Online(c)
  BY DEF leftSession, Left
<1>2. /\ wasClient \in [Clients -> BOOLEAN] /\ spawned \in [Games -> Seq(Instances)] /\ nextPeer \in Nat
      /\ phase \in [Games -> {"poll", "frame"}] /\ c \in Games
  BY GamesAre DEF TypeOK
<1>3. ASSUME NEW d \in Clients \ {c}
      PROVE  Membership(d)' /\ Unread(d)' /\ Fresh(d)' /\ Delivered(d)'
  <2>1. /\ wasClient'[d] = wasClient[d] /\ spawned'[d] = spawned[d] /\ phase'[d] = phase[d]
    BY <1>1, <1>2, GamesAre
  <2>2. OnlyValues(down'[d]["Unreliable"]) /\ Wire(d)' = Wire(d)
    BY <1>1 DEF SessionInv, Delivered, wires, Wire
  <2>3. \A i \in Instances : Heard(Host, client[d], i)' = Heard(Host, client[d], i)
    BY <1>1 DEF Heard, session
  <2>4. PICK r \in Seq(Packets) : r = <<>> /\ ToSet(r) = {}
    BY SilentSays
  <2>5. nextPeer' \in Nat /\ nextPeer' >= nextPeer /\ \A e \in Clients : client'[e] \in {client[e], 0, nextPeer}
    BY <1>1, <1>2 DEF session
  <2>6. /\ client'[d] = client[d] /\ number'[d] = number[d] /\ linked'[d] = linked[d] /\ authority'[d] = authority[d]
        /\ events'[d] = events[d] /\ strays'[d] = strays[d] /\ up'[d] = up[d]
    BY <1>1 DEF session, wires, history
  <2>7. /\ \A p \in ToSet(r) : p.kind \notin {"Welcome", "Authority"}
        /\ \A ev \in ToSet(events'[Host]) : ev \in ToSet(events[Host]) \/ ev.peer # client[d]
    BY <1>1, <2>4
  <2>8. phase'[d] \in {phase[d], "frame"}
    BY <2>1
  <2>9. Steady(d, r)
    BY <2>1, <2>2, <2>3, <2>5, <2>6, <2>7, <2>8, OtherSteady
  <2> QED
    BY <2>9, SteadySession DEF SessionInv
<1>4. spawned'[c] = <<>> /\ phase'[c] = "frame"
  BY <1>1, <1>2
<1>5. Membership(c)'
  <2>1. known(c)' = {}
    BY <1>4, SilentSays DEF known
  <2> QED
    BY <1>1, <2>1 DEF Membership, NoAuthority, session, Online, Joining, SessionInv
<1>6. Fresh(c)'
  <2>1. /\ Newcomer(c)' <=> Newcomer(c)
        /\ Authorized(c)' <=> Authorized(c)
        /\ Wire(c)' = Wire(c) /\ Grants(c)' = Grants(c)
        /\ Online(c)' <=> Online(c)
        /\ c \in Reached' <=> c \in Reached
    BY <1>1 DEF Newcomer, Authorized, Wire, Grants, Online, Reached, Peers, session, wires
  <2> QED
    BY <1>1, <2>1, ReportsStay DEF Fresh, session, wires, SessionInv
<1> QED
  BY <1>1, <1>3, <1>4, <1>5, <1>6, HostSteady DEF SessionInv, Delivered, wires, session, Unread

\* It is when the host hears that a client is gone.
LEMMA ClientLeftSession ==
  ASSUME TypeOK, SessionInv, NEW c \in Clients, clientLeft(c)
  PROVE  SessionInv'
<1>1. /\ client[c] # 0 /\ ~linked[c]
      /\ client' = [client EXCEPT ![c] = 0]
      /\ authority' = [authority EXCEPT ![Host] = GivesBack(authority[Host], client[c])]
      /\ ToClients(Clients, <<[kind |-> "PeerLeft", peer |-> client[c]]>>, <<>>, {})
      /\ up' = [up EXCEPT ![c] = Silent]
      /\ UNCHANGED <<number, linked, nextPeer, events, wasClient, phase, scenes, history>>
  BY DEF clientLeft, Polls
<1>2. /\ client \in [Clients -> Nat] /\ nextPeer \in Nat /\ up \in [Clients -> [Deliveries -> Seq(Messages)]]
      /\ authority \in [Games -> [Owned -> Nat]] /\ client[c] \in Nat
  BY DEF TypeOK
<1>3. PICK packet, r, none : packet = [kind |-> "PeerLeft", peer |-> client[c]] /\ r = <<packet>> /\ none = <<>>
  OBVIOUS
<1>4. packet \in Packets /\ packet.kind = "PeerLeft"
  BY <1>2, <1>3 DEF Packets
<1>5. r \in Seq(Packets) /\ ToSet(r) = {packet} /\ none \in Seq(Packets) /\ ToSet(none) = {}
  BY <1>3, <1>4, OnePacket
<1>6. \A d \in Clients : /\ Wire(d)' \in {Wire(d), Wire(d) \o r}
                         /\ ToSet(down'[d]["Unreliable"]) \subseteq ToSet(down[d]["Unreliable"])
  BY <1>1, <1>3, <1>5, ToClientsWires
<1>7. \A d \in Clients : OnlyValues(down'[d]["Unreliable"])
  BY <1>6 DEF SessionInv, Delivered, OnlyValues
<1>8. HostSession'
  <2>1. ASSUME NEW e \in Owned
        PROVE  authority'[Host][e] \in {hostPeer} \cup {client'[d] : d \in Peers'}
    <3>1. PICK who : who = authority[Host]
      OBVIOUS
    <3>2. authority'[Host][e] = IF who[e] = client[c] THEN hostPeer ELSE who[e]
      BY <1>1, <1>2, <3>1, GamesAre DEF GivesBack
    <3>3. CASE who[e] = client[c] \/ who[e] = hostPeer
      BY <3>2, <3>3
    <3>4. CASE who[e] # client[c] /\ who[e] # hostPeer
      <4>1. PICK d \in Peers : who[e] = client[d]
        BY <3>1, <3>4 DEF SessionInv, HostSession
      <4> QED
        BY <1>1, <1>2, <3>2, <3>4, <4>1 DEF Peers
    <3> QED
      BY <3>3, <3>4
  <2> QED
    BY <1>1, <2>1 DEF SessionInv, HostSession
<1>9. ASSUME NEW d \in Clients \ {c}
       PROVE  Membership(d)' /\ Unread(d)' /\ Fresh(d)' /\ Delivered(d)'
  <2>1. /\ client'[d] = client[d] /\ authority'[d] = authority[d] /\ up'[d] = up[d]
        /\ \A e \in Clients : client'[e] \in {client[e], 0}
    BY <1>1, <1>2, GamesAre
  <2>2. \A i \in Instances : Heard(Host, client[d], i)' = Heard(Host, client[d], i)
    BY <1>1 DEF Heard
  <2>3. \A p \in ToSet(r) : p.kind \notin {"Welcome", "Authority"}
    BY <1>4, <1>5
  <2>4. nextPeer' \in Nat /\ nextPeer' >= nextPeer /\ \A e \in Clients : client'[e] \in {client[e], 0, nextPeer}
    BY <1>1, <1>2, <2>1
  <2>5. /\ number'[d] = number[d] /\ linked'[d] = linked[d] /\ wasClient'[d] = wasClient[d] /\ phase'[d] = phase[d]
        /\ events'[d] = events[d] /\ strays'[d] = strays[d] /\ spawned'[d] = spawned[d]
    BY <1>1 DEF scenes, history
  <2>6. \A ev \in ToSet(events'[Host]) : ev \in ToSet(events[Host]) \/ ev.peer # client[d]
    BY <1>1
  <2>7. phase'[d] \in {phase[d], "frame"}
    BY <2>5
  <2>8. Steady(d, r)
    BY <1>5, <1>6, <1>7, <2>1, <2>2, <2>3, <2>4, <2>5, <2>6, <2>7, OtherSteady
  <2> QED
    BY <1>5, <2>8, SteadySession DEF SessionInv
<1>10. client'[c] = 0 /\ up'[c] = Silent /\ authority'[c] = authority[c]
  BY <1>1, <1>2, GamesAre
<1>11. Membership(c)'
  <2>1. Membership(c) /\ nextPeer > hostPeer
    BY DEF SessionInv, HostSession
  <2>2. ~Online(c)' /\ ~Joining(c)' /\ ~linked'[c] /\ ~Online(c)
    BY <1>1, <2>1 DEF Membership, Joining, Online
  <2> QED
    BY <1>1, <1>2, <1>10, <2>1, <2>2 DEF Membership, NoAuthority, hostPeer, known, scenes, history
<1>12. Fresh(c)'
  BY <1>10 DEF Fresh, Reached, Peers
<1>13. Delivered(c)'
  BY <1>1, <1>7, <1>10, SilentSays DEF Delivered, SessionInv
<1> QED
  BY <1>1, <1>8, <1>9, <1>11, <1>12, <1>13 DEF SessionInv, Unread, Online, Heard

\* What a newcomer is told of who decides names games of the session, other than it.
LEMMA DecidedHas ==
  ASSUME TypeOK, SessionInv
  PROVE  /\ Decided \in Seq(Packets)
         /\ \A p \in ToSet(Decided) : p.kind = "Authority" /\ p.peer < nextPeer
<1> DEFINE others == {o \in Owned : authority[Host][o] # hostPeer}
           packets == {AuthorityPacket(e, authority[Host][e]) : e \in others}
<1>1. IsFiniteSet(packets)
  <2> DEFINE packet == [o \in others |-> AuthorityPacket(o, authority[Host][o])]
  <2>1. packets = {packet[o] : o \in others} /\ DOMAIN packet = others
    OBVIOUS
  <2>2. IsFiniteSet(others)
    BY ReplicationAssumption, FS_Subset
  <2> HIDE DEF others, packets, packet
  <2> QED
    BY <2>1, <2>2, ImageIsFinite
<1>2. Decided = SetToSeq(packets)
  BY DEF Decided
<1>3. \A p \in packets : p.kind = "Authority" /\ p.peer < nextPeer
  <2> SUFFICES ASSUME NEW e \in Owned, authority[Host][e] # hostPeer
               PROVE  authority[Host][e] < nextPeer
    BY DEF AuthorityPacket
  <2>1. PICK d \in Peers : authority[Host][e] = client[d]
    BY DEF SessionInv, HostSession
  <2> QED
    BY <2>1 DEF SessionInv, Membership, Peers
<1> HIDE DEF packets
<1> QED
  BY <1>1, <1>2, <1>3, DecidedIs, SetToSeqLists

\* A newcomer gets a connection, a number, a welcome and who decides for what.
LEMMA ClientConnectedDoes ==
  ASSUME TypeOK, SessionInv, NEW c \in Clients, clientConnected(c)
  PROVE  /\ ~linked[c] /\ client[c] = 0 /\ ~wasClient[c] /\ ~Online(c) /\ linked'[c]
         /\ client'[c] = nextPeer /\ nextPeer' = nextPeer + 1 /\ nextPeer \in Nat /\ nextPeer > hostPeer
         /\ Wire(c)' = <<[kind |-> "Welcome", number |-> nextPeer]>> \o Decided
         /\ down'[c]["Unreliable"] = <<>> /\ up'[c] = Silent
         /\ events'[Host] = Append(events[Host], [kind |-> "PeerJoined", peer |-> nextPeer])
         /\ [kind |-> "PeerJoined", peer |-> nextPeer] \in Events
         /\ \A d \in Clients \ {c} : /\ linked'[d] = linked[d] /\ client'[d] = client[d]
                                     /\ down'[d] = down[d] /\ up'[d] = up[d]
         /\ \A d \in Clients : events'[d] = events[d]
         /\ UNCHANGED <<number, authority, wasClient, phase, scenes, history>>
<1>1. PICK first, event : /\ first = <<[kind |-> "Welcome", number |-> nextPeer]>> \o Decided
                          /\ event = [kind |-> "PeerJoined", peer |-> nextPeer]
  OBVIOUS
<1>2. PICK wire : wire = [Silent EXCEPT !["Reliable"] = first]
  OBVIOUS
<1>3. /\ linked' = [linked EXCEPT ![c] = TRUE] /\ client' = [client EXCEPT ![c] = nextPeer]
      /\ nextPeer' = nextPeer + 1 /\ down' = [down EXCEPT ![c] = wire] /\ up' = [up EXCEPT ![c] = Silent]
      /\ events' = [events EXCEPT ![Host] = Append(events[Host], event)]
      /\ UNCHANGED <<number, authority, wasClient, phase, scenes, history>>
      /\ ~linked[c] /\ client[c] = 0 /\ ~wasClient[c]
  BY <1>1, <1>2 DEF clientConnected, Polls
<1>4. /\ linked \in [Clients -> BOOLEAN] /\ client \in [Clients -> Nat] /\ nextPeer \in Nat
      /\ down \in [Clients -> [Deliveries -> Seq(Packets)]] /\ up \in [Clients -> [Deliveries -> Seq(Messages)]]
      /\ events \in [Games -> Seq(Events)]
  BY DEF TypeOK
<1>5. wire["Reliable"] = first /\ wire["Unreliable"] = <<>>
  BY <1>2 DEF Silent, Deliveries
<1>6. ~Online(c) /\ nextPeer > hostPeer
  BY <1>3 DEF SessionInv, Membership, HostSession
<1>7. event \in Events
  BY <1>1, <1>4 DEF Events
<1>8. /\ linked'[c] /\ client'[c] = nextPeer /\ down'[c] = wire /\ up'[c] = Silent
      /\ \A d \in Clients \ {c} : /\ linked'[d] = linked[d] /\ client'[d] = client[d]
                                  /\ down'[d] = down[d] /\ up'[d] = up[d]
  BY <1>3, <1>4
<1>9. events'[Host] = Append(events[Host], event) /\ \A d \in Clients : events'[d] = events[d]
  BY <1>3, <1>4, GamesAre
<1> QED
  BY <1>1, <1>3, <1>4, <1>5, <1>6, <1>7, <1>8, <1>9 DEF Wire

\* Nothing is on its way about an instance because of it.
LEMMA ClientConnectedWords ==
  ASSUME TypeOK, SessionInv, NEW c \in Clients, clientConnected(c), NEW i, NEW d \in Clients
  PROVE  /\ News(d, i)' = News(d, i) /\ Reports(d, i)' = Reports(d, i)
         /\ d = c => News(c, i) = <<>> /\ Reports(c, i) = <<>>
         /\ d # c => Heard(Host, client[d], i)' = Heard(Host, client[d], i)
<1>1. PICK event, es, all : /\ event = [kind |-> "PeerJoined", peer |-> nextPeer] /\ es = events[Host]
                           /\ all = Append(es, event)
  OBVIOUS
<1>2. event \in Events /\ es \in Seq(Events) /\ events'[Host] = all
  BY <1>1, ClientConnectedDoes, GamesAre DEF TypeOK
<1>3. \A p : HeardIn(events'[Host], p, i) = HeardIn(events[Host], p, i)
  <2> SUFFICES ASSUME NEW p PROVE HeardIn(all, p, i) = HeardIn(es, p, i)
    BY <1>1, <1>2
  <2>1. event \notin Carries(p, i)
    BY <1>1 DEF Carries
  <2>2. HeardIn(Append(es, event), p, i)
          = IF event \in Carries(p, i) THEN HeardIn(es, p, i) \o <<event.message>> ELSE HeardIn(es, p, i)
    BY <1>2, HeardAppend
  <2> QED
    BY <1>1, <2>1, <2>2, Zenon
<1>4. CASE d # c
  <2>1. /\ linked'[d] = linked[d] /\ client'[d] = client[d] /\ down'[d] = down[d] /\ up'[d] = up[d]
        /\ events'[d] = events[d] /\ number' = number
    BY <1>4, ClientConnectedDoes
  <2>2. News(d, i)' = News(d, i)
    BY <2>1 DEF News, Reached, Peers, Online, Heard, Wire
  <2> QED
    BY <1>3, <1>4, <2>1, <2>2 DEF Reports, Heard
<1>5. CASE d = c
  <2>1. Reports(c, i)' = <<>>
    <3>1. client'[c] = nextPeer /\ up'[c] = Silent
      BY ClientConnectedDoes
    <3>2. Heard(Host, client[c], i)' = <<>>
      BY <1>1, <1>2, <1>3, <3>1, HeardNothing, ClientConnectedDoes DEF Heard, SessionInv, HostSession, Carries
    <3> QED
      BY <3>1, <3>2, SilentSays DEF Reports
  <2>2. News(c, i)' = <<>>
    <3>1. PICK first, w : first = [kind |-> "Welcome", number |-> nextPeer] /\ w = Wire(c)'
      OBVIOUS
    <3>2. first \in Packets /\ Decided \in Seq(Packets)
      BY <3>1, ClientConnectedDoes, DecidedIs DEF Packets
    <3>3. w = <<first>> \o Decided
      BY <3>1, ClientConnectedDoes, Zenon
    <3>4. w \in Seq(Packets) /\ ToSet(w) = {first} \cup ToSet(Decided)
      BY <3>2, <3>3, OneThen
    <3>5. Only(w, About(i)) = <<>>
      <4>1. ToSet(w) \cap About(i) = {}
        BY <3>1, <3>4, DecidedHas DEF About
      <4> QED
        BY <3>4, <4>1, OnlyNone
    <3> QED
      BY <3>1, <3>5, ClientConnectedDoes DEF News, Online
  <2> QED
    BY <1>5, <2>1, <2>2, ClientConnectedDoes DEF News, Reports, Reached, Peers
<1> QED
  BY <1>4, <1>5

\* The session is as it was for the others when a client joins.
LEMMA ClientConnectedSession ==
  ASSUME TypeOK, SessionInv, NEW c \in Clients, clientConnected(c)
  PROVE  SessionInv'
<1>1. PICK event : event = [kind |-> "PeerJoined", peer |-> nextPeer]
  OBVIOUS
<1>2. ToSet(events'[Host]) = ToSet(events[Host]) \cup {event}
  <2>1. events[Host] \in Seq(Events) /\ event \in Events /\ events'[Host] = Append(events[Host], event)
    BY <1>1, ClientConnectedDoes, GamesAre DEF TypeOK
  <2> QED
    BY <2>1, ToSetAppend
<1>3. client \in [Clients -> Nat] /\ \A d \in Clients : client[d] < nextPeer
  BY DEF TypeOK, SessionInv, Membership
<1>4. HostSession'
  <2>1. /\ number'[Host] = hostPeer /\ nextPeer' = nextPeer + 1 /\ nextPeer \in Nat /\ nextPeer > hostPeer
        /\ authority' = authority
    BY ClientConnectedDoes DEF SessionInv, HostSession
  <2>2. \A d \in Peers : d \in Peers' /\ client'[d] = client[d]
    BY ClientConnectedDoes DEF Peers
  <2>3. \A ev \in ToSet(events'[Host]) :
          /\ ev.peer > hostPeer /\ ev.peer < nextPeer'
          /\ ev.kind = "Replication" /\ ev.message \in Tidings => ev.delivery = "Reliable"
    <3>1. ASSUME NEW ev \in ToSet(events[Host])
          PROVE  ev.peer > hostPeer /\ ev.peer < nextPeer'
      <4>1. ev.peer \in Nat /\ ev.peer > hostPeer /\ ev.peer < nextPeer
        BY ToSetOfSeq, GamesAre DEF SessionInv, HostSession, Events, TypeOK
      <4> QED
        BY <2>1, <4>1
    <3> QED
      BY <1>1, <1>2, <2>1, <3>1 DEF SessionInv, HostSession
  <2> QED
    BY <2>1, <2>2, <2>3 DEF HostSession, hostPeer, SessionInv
<1>5. ASSUME NEW d \in Clients \ {c}
      PROVE  Membership(d)' /\ Unread(d)' /\ Fresh(d)' /\ Delivered(d)'
  <2>1. PICK r \in Seq(Packets) : r = <<>> /\ ToSet(r) = {}
    BY SilentSays
  <2>2. /\ linked'[d] = linked[d] /\ client'[d] = client[d] /\ down'[d] = down[d] /\ up'[d] = up[d]
        /\ events'[d] = events[d]
    BY ClientConnectedDoes
  <2>3. /\ number'[d] = number[d] /\ wasClient'[d] = wasClient[d] /\ authority'[d] = authority[d]
        /\ phase'[d] = phase[d] /\ spawned'[d] = spawned[d] /\ strays'[d] = strays[d]
    BY ClientConnectedDoes DEF scenes, history
  <2>4. nextPeer' \in Nat /\ nextPeer' >= nextPeer /\ \A e \in Clients : client'[e] \in {client[e], 0, nextPeer}
    BY ClientConnectedDoes
  <2>5. OnlyValues(down'[d]["Unreliable"]) /\ Wire(d)' = Wire(d)
    BY <2>2 DEF SessionInv, Delivered, Wire
  <2>6. \A i \in Instances : Heard(Host, client[d], i)' = Heard(Host, client[d], i)
    BY ClientConnectedWords
  <2>7. \A ev \in ToSet(events'[Host]) : ev \in ToSet(events[Host]) \/ ev.peer # client[d]
    BY <1>1, <1>2, <1>3, ClientConnectedDoes
  <2>8. phase'[d] \in {phase[d], "frame"} /\ \A p \in ToSet(r) : p.kind \notin {"Welcome", "Authority"}
    BY <2>1, <2>3
  <2>9. Steady(d, r)
    BY <2>2, <2>3, <2>4, <2>5, <2>6, <2>7, <2>8, OtherSteady
  <2> QED
    BY <2>9, SteadySession DEF SessionInv
<1>6. PICK first, w : first = [kind |-> "Welcome", number |-> nextPeer] /\ w = Wire(c)'
  OBVIOUS
<1>7. /\ first \in Packets /\ Decided \in Seq(Packets) /\ w = <<first>> \o Decided
  BY <1>6, ClientConnectedDoes, DecidedIs DEF Packets
<1>8. w # <<>> /\ Head(w) = first /\ Tail(w) = Decided /\ ToSet(w) = {first} \cup ToSet(Decided)
  BY <1>7, OneThen
<1>9. ~Online(c)' /\ ~wasClient'[c] /\ authority'[c] = authority[c] /\ client'[c] = nextPeer /\ phase' = phase
  BY ClientConnectedDoes DEF Online
<1>10. Membership(c)'
  <2>1. /\ ~wasClient'[c] /\ Wire(c)' # <<>>
        /\ Head(Wire(c)') = [kind |-> "Welcome", number |-> client'[c]]
        /\ \A p \in ToSet(Tail(Wire(c)')) : p.kind # "Welcome"
    BY <1>6, <1>8, <1>9, DecidedHas
  <2>2. authority'[c] = NoAuthority /\ known(c)' \subseteq strays'[c]
    BY ClientConnectedDoes DEF SessionInv, Membership, known, scenes, history
  <2> QED
    BY <1>3, <1>9, <2>1, <2>2, ClientConnectedDoes DEF Membership, NoAuthority, hostPeer
<1>11. Unread(c)'
  BY <1>9, ClientConnectedDoes DEF Unread, SessionInv, Heard
<1>12. Fresh(c)'
  BY <1>6, <1>8, <1>9, ClientConnectedWords, ClientConnectedDoes, DecidedHas DEF Fresh, Authorized, Grants,
     AuthorityPacket
<1>13. Delivered(c)'
  BY ClientConnectedDoes, SilentSays DEF Delivered, SessionInv
<1> QED
  BY <1>4, <1>5, <1>10, <1>11, <1>12, <1>13 DEF SessionInv

\* What a client read of the host, and how what was on its way is left.
LEMMA ReceivedDoes ==
  ASSUME TypeOK, SessionInv, NEW c \in Clients, NEW d \in Deliveries, received(c, d)
  PROVE  LET packet == Head(down[c][d])
         IN /\ packet \in Packets /\ phase[c] = "poll" /\ linked[c] /\ c \in Reached
            /\ Wire(c) \in Seq(Packets) /\ OnlyValues(down'[c]["Unreliable"])
            /\ d = "Reliable" => Wire(c) # <<>> /\ packet = Head(Wire(c)) /\ Wire(c)' = Tail(Wire(c))
            /\ d # "Reliable" => packet.kind = "Values" /\ Wire(c)' = Wire(c)
            /\ packet.kind = "Welcome" => Joining(c) /\ d = "Reliable" /\ packet.number = client[c]
            /\ packet.kind # "Welcome" => Online(c) \/ d # "Reliable"
            /\ \A e \in Clients \ {c} : down'[e] = down[e]
            /\ UNCHANGED <<linked, client, nextPeer, up, budget, phase, scenes, history>>
<1>1. PICK packet, s, t : packet = Head(down[c][d]) /\ s = down[c][d] /\ t = Tail(down[c][d])
  OBVIOUS
<1>2. /\ down' = [down EXCEPT ![c][d] = t] /\ s # <<>> /\ linked[c] /\ phase[c] = "poll"
      /\ UNCHANGED <<linked, client, nextPeer, up, budget, phase, scenes, history>>
  BY <1>1 DEF received, Polls
<1>3. /\ down \in [Clients -> [Deliveries -> Seq(Packets)]] /\ down[c] \in [Deliveries -> Seq(Packets)]
      /\ s \in Seq(Packets) /\ client \in [Clients -> Nat]
  BY <1>1 DEF TypeOK
<1>4. packet \in Packets /\ packet \in ToSet(s) /\ ToSet(t) \subseteq ToSet(s) /\ packet = Head(s)
  BY <1>1, <1>2, <1>3, ToSetTail
<1>5. /\ down'[c] = [down[c] EXCEPT ![d] = t] /\ \A e \in Clients \ {c} : down'[e] = down[e]
  BY <1>2, <1>3
<1>6. OnlyValues(down[c]["Unreliable"])
  BY DEF SessionInv, Delivered
<1>7. OnlyValues(down'[c]["Unreliable"])
  BY <1>1, <1>3, <1>4, <1>5, <1>6 DEF OnlyValues, Deliveries
<1>8. c \in Reached /\ (Online(c) \/ Joining(c))
  BY <1>2 DEF SessionInv, Membership, Reached, Peers, Joining
<1>9. d = "Reliable" => Wire(c) # <<>> /\ packet = Head(Wire(c)) /\ Wire(c)' = Tail(Wire(c)) /\ packet \in ToSet(Wire(c))
  BY <1>1, <1>2, <1>3, <1>4, <1>5 DEF Wire, Deliveries
<1>10. d # "Reliable" => packet.kind = "Values" /\ Wire(c)' = Wire(c)
  BY <1>1, <1>3, <1>4, <1>5, <1>6 DEF Wire, Deliveries, OnlyValues
<1>11. packet.kind = "Welcome" => Joining(c) /\ d = "Reliable" /\ packet.number = client[c]
  BY <1>8, <1>9, <1>10 DEF SessionInv, Membership
<1>12. packet.kind # "Welcome" => Online(c) \/ d # "Reliable"
  BY <1>8, <1>9 DEF SessionInv, Membership
<1>13. Wire(c) \in Seq(Packets)
  BY <1>3 DEF Wire, Deliveries
<1> QED
  BY <1>1, <1>2, <1>4, <1>5, <1>7, <1>8, <1>9, <1>10, <1>11, <1>12, <1>13

\* What a client makes of what it read: it is in the session, or sees who decides, or has yet to handle it.
Joins(c) ==
  /\ number' = [number EXCEPT ![c] = client[c]] /\ authority' = [authority EXCEPT ![c] = NoAuthority]
  /\ wasClient' = [wasClient EXCEPT ![c] = TRUE] /\ events' = events
Sees(c, who) ==
  /\ authority' = [authority EXCEPT ![c] = who] /\ number' = number /\ wasClient' = wasClient /\ events' = events
Keeps(c, event) ==
  /\ events' = [events EXCEPT ![c] = Append(events[c], event)]
  /\ number' = number /\ wasClient' = wasClient /\ authority' = authority

\* What the packet makes of the client that read it: a member, one that decides, or one with an event more.
LEMMA ReceivedMakes ==
  ASSUME TypeOK, SessionInv, NEW c \in Clients, NEW d \in Deliveries, received(c, d)
  PROVE  LET packet == Head(down[c][d])
         IN \/ packet.kind = "Welcome" /\ Joins(c)
            \/ /\ packet.kind \in {"Authority", "PeerLeft"} /\ Online(c)
               /\ \E who \in [Owned -> Nat] :
                    /\ Sees(c, who)
                    /\ \A e \in Owned : who[e] \in {authority[c][e], hostPeer} \/ packet = AuthorityPacket(e, who[e])
            \/ /\ packet \in Messages /\ (packet \in Tidings => d = "Reliable")
               /\ Keeps(c, [kind |-> "Replication", peer |-> hostPeer, message |-> packet, delivery |-> d])
<1>1. PICK packet : packet = Head(down[c][d])
  OBVIOUS
<1>2. /\ packet \in Packets
      /\ d # "Reliable" => packet.kind = "Values"
      /\ packet.kind = "Welcome" => packet.number = client[c]
      /\ packet.kind # "Welcome" => Online(c) \/ d # "Reliable"
  BY <1>1, ReceivedDoes
<1>3. authority \in [Games -> [Owned -> Nat]] /\ c \in Games /\ authority[c] \in [Owned -> Nat]
  BY GamesAre DEF TypeOK
<1>4. CASE packet.kind = "Welcome"
  BY <1>1, <1>2, <1>4 DEF received, Joins
<1>5. CASE packet.kind = "Authority"
  <2>1. packet.entity \in Owned /\ packet.peer \in Nat /\ packet = AuthorityPacket(packet.entity, packet.peer)
    BY <1>2, <1>5 DEF Packets, Messages, AuthorityPacket
  <2>2. PICK who : who = [authority[c] EXCEPT ![packet.entity] = packet.peer]
    OBVIOUS
  <2>3. Sees(c, who)
    BY <1>1, <1>3, <1>5, <2>2 DEF Sees, received
  <2>4. who \in [Owned -> Nat] /\ \A e \in Owned : who[e] = authority[c][e] \/ (e = packet.entity /\ who[e] = packet.peer)
    BY <1>3, <2>1, <2>2
  <2> QED
    BY <1>1, <1>2, <1>5, <2>1, <2>3, <2>4
<1>6. CASE packet.kind = "PeerLeft"
  <2>1. PICK who : who = GivesBack(authority[c], packet.peer)
    OBVIOUS
  <2>2. who \in [Owned -> Nat]
    BY <1>3, <2>1, GivesBackIs
  <2> QED
    BY <1>1, <1>2, <1>6, <2>1, <2>2 DEF GivesBack, received, Sees
<1>7. CASE packet.kind \notin {"Welcome", "Authority", "PeerLeft"}
  BY <1>1, <1>2, <1>7 DEF received, Keeps, Tidings, Packets
<1> QED
  BY <1>4, <1>5, <1>6, <1>7

\* As much is on its way about an instance as before.
LEMMA ReceivedWords ==
  ASSUME TypeOK, SessionInv, NEW c \in Clients, NEW d \in Deliveries, received(c, d), NEW i \in Instances, NEW e \in Clients
  PROVE  News(e, i)' = News(e, i) /\ Reports(e, i)' = Reports(e, i)
<1>1. PICK packet, w : packet = Head(down[c][d]) /\ w = Wire(c)
  OBVIOUS
<1>2. /\ phase[c] = "poll" /\ linked[c] /\ c \in Reached /\ w \in Seq(Packets)
      /\ d = "Reliable" => w # <<>> /\ packet = Head(w) /\ Wire(c)' = Tail(w)
      /\ d # "Reliable" => packet.kind = "Values" /\ Wire(c)' = w
      /\ packet.kind = "Welcome" => Joining(c) /\ d = "Reliable"
      /\ packet.kind # "Welcome" => Online(c) \/ d # "Reliable"
      /\ \A g \in Clients \ {c} : down'[g] = down[g]
      /\ linked' = linked /\ client' = client /\ up' = up
  BY <1>1, ReceivedDoes
<1>3. /\ events \in [Games -> Seq(Events)] /\ number \in [Games -> Nat] /\ client \in [Clients -> Nat]
      /\ authority \in [Games -> [Owned -> Nat]] /\ wasClient \in [Clients -> BOOLEAN] /\ c \in Games
  BY GamesAre DEF TypeOK
<1>4. /\ \A g \in Clients \ {c} : number'[g] = number[g] /\ events'[g] = events[g]
      /\ events'[Host] = events[Host]
  BY <1>3, GamesAre, ReceivedMakes DEF Joins, Sees, Keeps
<1>5. Reports(e, i)' = Reports(e, i)
  BY <1>2, <1>4, ReportsStay
<1>6. CASE e # c
  BY <1>2, <1>4, <1>5, <1>6 DEF News, Reached, Peers, Online, Heard, Wire
<1>7. c \in Reached'
  BY <1>2 DEF Reached, Peers
<1>8. PICK A, h : A = About(i) /\ h = Heard(c, hostPeer, i)
  OBVIOUS
<1>9. h \in Seq(A) /\ Only(w, A) \in Seq(A)
  BY <1>1, <1>3, <1>8, WordsTypes
<1>10. packet \notin A => Only(Wire(c)', A) = Only(w, A)
  BY <1>2, OnlyTail
<1>11. CASE packet.kind = "Welcome" /\ Joins(c)
  <2>1. ~Online(c) /\ ~wasClient[c] /\ client[c] # 0
    BY <1>2, <1>11 DEF Joining, SessionInv, Membership
  <2>2. Online(c)'
    BY <1>3, <1>11, <2>1 DEF Joins, Online
  <2>3. Heard(c, hostPeer, i)' = h /\ h = <<>>
    BY <1>2, <1>8, <1>11, <2>1 DEF Joins, Heard, SessionInv, Unread
  <2>4. packet \notin A
    BY <1>8, <1>11 DEF About
  <2>5. News(c, i) = <<>> \o Only(w, A) /\ News(c, i)' = h \o Only(Wire(c)', A)
    BY <1>1, <1>2, <1>7, <1>8, <2>1, <2>2, <2>3 DEF News
  <2> QED
    BY <1>5, <1>6, <1>10, <2>3, <2>4, <2>5
<1>12. CASE packet.kind \in {"Authority", "PeerLeft"} /\ Online(c) /\ \E who : Sees(c, who)
  <2>1. News(c, i) = h \o Only(w, A) /\ News(c, i)' = h \o Only(Wire(c)', A)
    BY <1>1, <1>2, <1>7, <1>8, <1>12 DEF News, Sees, Heard, Online
  <2> QED
    BY <1>5, <1>6, <1>8, <1>10, <1>12, <2>1 DEF About
<1>13. CASE /\ packet \in Messages /\ (packet \in Tidings => d = "Reliable")
            /\ Keeps(c, [kind |-> "Replication", peer |-> hostPeer, message |-> packet, delivery |-> d])
  <2>1. PICK event, es : /\ event = [kind |-> "Replication", peer |-> hostPeer, message |-> packet, delivery |-> d]
                         /\ es = events[c]
    OBVIOUS
  <2>2. event \in Events /\ event.message = packet /\ es \in Seq(Events)
    BY <1>3, <1>13, <2>1 DEF Events, hostPeer
  <2>3. events'[c] = Append(es, event) /\ (Online(c)' <=> Online(c))
    BY <1>3, <1>13, <2>1 DEF Keeps, Online
  <2>4. event \in Carries(hostPeer, i) <=> packet \in A
    BY <1>8, <1>13, <2>1 DEF Carries, About, Tidings, Over
  <2>5. Heard(c, hostPeer, i)' = IF packet \in A THEN h \o <<packet>> ELSE h
    <3>1. h = HeardIn(es, hostPeer, i) /\ Heard(c, hostPeer, i)' = HeardIn(Append(es, event), hostPeer, i)
      BY <1>8, <2>1, <2>3 DEF Heard
    <3> QED
      BY <2>2, <2>4, <3>1, HeardAppend
  <2>6. CASE packet \notin A
    <3>1. News(c, i)' = News(c, i)
      BY <1>1, <1>2, <1>7, <1>8, <1>10, <2>3, <2>5, <2>6 DEF News
    <3> QED
      BY <1>5, <1>6, <3>1
  <2>7. CASE packet \in A
    <3>1. d = "Reliable" /\ Online(c)
      BY <1>2, <1>8, <2>7 DEF About
    <3>2. PICK k : k = Only(Tail(w), A)
      OBVIOUS
    <3>3. Only(w, A) = <<packet>> \o k /\ Wire(c)' = Tail(w) /\ w # <<>>
      BY <1>2, <2>7, <3>1, <3>2, OnlyTail
    <3>4. k \in Seq(A)
      BY <1>2, <3>2, <3>3, OnlyThem, ToSetTail
    <3>5. News(c, i) = h \o (<<packet>> \o k)
      BY <1>1, <1>2, <1>8, <3>1, <3>3 DEF News
    <3>6. News(c, i)' = (h \o <<packet>>) \o k
      BY <1>7, <1>8, <2>3, <2>5, <2>7, <3>1, <3>2, <3>3 DEF News
    <3>7. News(c, i)' = News(c, i)
      BY <1>9, <2>7, <3>4, <3>5, <3>6
    <3> QED
      BY <1>5, <1>6, <3>7
  <2> QED
    BY <2>6, <2>7
<1> QED
  BY <1>1, <1>11, <1>12, <1>13, ReceivedMakes

\* The session is as it should be when a client read of the host.
LEMMA ReceivedSession ==
  ASSUME TypeOK, SessionInv, NEW c \in Clients, NEW d \in Deliveries, received(c, d)
  PROVE  SessionInv'
<1>1. PICK packet, w : packet = Head(down[c][d]) /\ w = Wire(c)
  OBVIOUS
<1>2. /\ packet \in Packets /\ phase[c] = "poll" /\ linked[c] /\ c \in Reached /\ w \in Seq(Packets)
      /\ OnlyValues(down'[c]["Unreliable"])
      /\ d = "Reliable" => w # <<>> /\ packet = Head(w) /\ Wire(c)' = Tail(w)
      /\ d # "Reliable" => packet.kind = "Values" /\ Wire(c)' = w
      /\ packet.kind = "Welcome" => Joining(c) /\ d = "Reliable"
      /\ packet.kind # "Welcome" => Online(c) \/ d # "Reliable"
      /\ \A g \in Clients \ {c} : down'[g] = down[g]
      /\ UNCHANGED <<linked, client, nextPeer, up, phase, scenes, history>>
  BY <1>1, ReceivedDoes
<1>3. /\ events \in [Games -> Seq(Events)] /\ number \in [Games -> Nat] /\ client \in [Clients -> Nat]
      /\ authority \in [Games -> [Owned -> Nat]] /\ wasClient \in [Clients -> BOOLEAN] /\ c \in Games
      /\ nextPeer \in Nat /\ client[c] # 0 /\ client[c] # hostPeer
  BY <1>2, GamesAre DEF TypeOK, SessionInv, Membership, Reached, Peers
<1>4. /\ \A g \in Clients \ {c} : /\ number'[g] = number[g] /\ events'[g] = events[g]
                                  /\ authority'[g] = authority[g] /\ wasClient'[g] = wasClient[g]
      /\ number'[Host] = number[Host] /\ events'[Host] = events[Host] /\ authority'[Host] = authority[Host]
  <2>1. Joins(c) \/ (\E who : Sees(c, who)) \/ (\E ev : Keeps(c, ev))
    BY ReceivedMakes
  <2> QED
    BY <1>3, <2>1, GamesAre DEF Joins, Sees, Keeps
<1>5. HostSession'
  BY <1>2, <1>4, HostSteady DEF SessionInv
<1>6. ASSUME NEW e \in Clients \ {c}
      PROVE  Membership(e)' /\ Unread(e)' /\ Fresh(e)' /\ Delivered(e)'
  <2>1. PICK r \in Seq(Packets) : r = <<>> /\ ToSet(r) = {}
    BY SilentSays
  <2>2. /\ number'[e] = number[e] /\ events'[e] = events[e]
        /\ authority'[e] = authority[e] /\ wasClient'[e] = wasClient[e]
    BY <1>4
  <2>3. /\ linked'[e] = linked[e] /\ client'[e] = client[e] /\ up'[e] = up[e] /\ phase'[e] = phase[e]
        /\ spawned'[e] = spawned[e] /\ strays'[e] = strays[e]
    BY <1>2 DEF scenes, history
  <2>4. nextPeer' \in Nat /\ nextPeer' >= nextPeer /\ \A g \in Clients : client'[g] \in {client[g], 0, nextPeer}
    BY <1>2, <1>3
  <2>5. OnlyValues(down'[e]["Unreliable"]) /\ Wire(e)' = Wire(e)
    BY <1>2 DEF SessionInv, Delivered, Wire
  <2>6. \A i \in Instances : Heard(Host, client[e], i)' = Heard(Host, client[e], i)
    BY <1>2, <1>4 DEF Heard
  <2>7. \A ev \in ToSet(events'[Host]) : ev \in ToSet(events[Host]) \/ ev.peer # client[e]
    BY <1>4
  <2>8. phase'[e] \in {phase[e], "frame"} /\ \A p \in ToSet(r) : p.kind \notin {"Welcome", "Authority"}
    BY <2>1, <2>3
  <2>9. Steady(e, r)
    BY <2>2, <2>3, <2>4, <2>5, <2>6, <2>7, <2>8, OtherSteady
  <2> QED
    BY <2>9, SteadySession DEF SessionInv
<1>7. ToSet(Wire(c)') \subseteq ToSet(w)
  BY <1>2, ToSetTail
<1>8. packet.kind = "Welcome" => Joins(c)
  <2>1. packet.kind = "Welcome" => packet \notin Messages
    BY DEF Messages
  <2> QED
    BY <1>1, <2>1, ReceivedMakes
<1>9. packet.kind # "Welcome" =>
        /\ number' = number /\ wasClient' = wasClient
        /\ authority'[c] = authority[c] \/ Online(c)
  <2>1. packet.kind # "Welcome" => (Online(c) /\ \E who : Sees(c, who)) \/ \E ev : Keeps(c, ev)
    BY <1>1, ReceivedMakes
  <2> QED
    BY <2>1 DEF Sees, Keeps
<1>10. (Newcomer(c)' <=> Newcomer(c)) /\ (c \in Reached') /\ Grants(c)' = Grants(c)
  BY <1>2, <1>4 DEF Newcomer, Reached, Peers, Grants
<1>11. CASE packet.kind = "Welcome"
  <2>1. /\ Joins(c) /\ ~Online(c) /\ ~wasClient[c] /\ d = "Reliable"
        /\ \A p \in ToSet(Tail(w)) : p.kind # "Welcome"
    BY <1>1, <1>2, <1>8, <1>11 DEF Joining, SessionInv, Membership
  <2>2. /\ number'[c] = client[c] /\ authority'[c] = NoAuthority /\ wasClient'[c] /\ events' = events /\ Online(c)'
    BY <1>3, <2>1 DEF Joins, Online
  <2>3. Membership(c)'
    <3>1. /\ client'[c] # hostPeer /\ client'[c] < nextPeer'
          /\ \A g \in Clients \ {c} : client'[c] = client'[g] => client'[c] = 0
          /\ linked'[c] => client'[c] # 0
      BY <1>2 DEF SessionInv, Membership
    <3>2. linked'[c] /\ number'[c] = client'[c] /\ ~Joining(c)'
      BY <1>2, <2>2 DEF Joining
    <3>3. \A p \in ToSet(Wire(c)') : p.kind # "Welcome"
      BY <1>2, <2>1
    <3> QED
      BY <2>2, <3>1, <3>2, <3>3 DEF Membership, NoAuthority
  <2>4. Unread(c)'
    BY <2>2 DEF Unread
  <2>5. Fresh(c)'
    <3>1. ~Authorized(c)'
      BY <1>2, <1>3, <2>2 DEF Authorized, NoAuthority
    <3>2. Newcomer(c)' => ToSet(Wire(c)') \cap Grants(c)' = {}
      BY <1>1, <1>2, <1>7, <1>10 DEF SessionInv, Fresh
    <3>3. Newcomer(c)' => \A i \in Instances : Reports(c, i)' = <<>>
      BY <1>2, <1>10, ReceivedWords DEF SessionInv, Fresh
    <3> QED
      BY <2>2, <3>1, <3>2, <3>3 DEF Fresh
  <2>6. Delivered(c)'
    BY <1>2, <2>2 DEF SessionInv, Delivered
  <2> QED
    BY <1>5, <1>6, <2>3, <2>4, <2>5, <2>6 DEF SessionInv
<1>12. CASE packet.kind # "Welcome"
  <2>1. (Online(c)' <=> Online(c)) /\ (Joining(c)' <=> Joining(c)) /\ number' = number /\ wasClient' = wasClient
    BY <1>2, <1>9, <1>12 DEF Online, Joining
  <2>2. Membership(c)'
    <3>1. /\ client'[c] # hostPeer /\ client'[c] < nextPeer'
          /\ \A g \in Clients \ {c} : client'[c] = client'[g] => client'[c] = 0
          /\ linked'[c] => client'[c] # 0
          /\ Online(c)' => linked'[c] /\ number'[c] = client'[c]
      BY <1>2, <2>1 DEF SessionInv, Membership
    <3>2. Joining(c)' => Wire(c)' = Wire(c)
      <4>1. Joining(c)' => ~Online(c)
        BY <2>1 DEF Joining
      <4> QED
        BY <1>1, <1>2, <1>12, <4>1
    <3>3. Online(c)' => \A p \in ToSet(Wire(c)') : p.kind # "Welcome"
      BY <1>1, <1>7, <2>1 DEF SessionInv, Membership
    <3>4. ~Online(c)' => authority'[c] = NoAuthority
      BY <1>9, <1>12, <2>1 DEF SessionInv, Membership
    <3>5. known(c)' = known(c) /\ strays' = strays
      BY <1>2 DEF known, scenes, history
    <3> QED
      BY <1>2, <2>1, <3>1, <3>2, <3>3, <3>4, <3>5 DEF SessionInv, Membership, NoAuthority
  <2>3. \A i \in Instances : ~Online(c) => Heard(c, hostPeer, i)' = Heard(c, hostPeer, i)
    <3> SUFFICES ASSUME NEW i \in Instances, ~Online(c)
                 PROVE  Heard(c, hostPeer, i)' = Heard(c, hostPeer, i)
      OBVIOUS
    <3>1. PICK event, es, all : /\ event = [kind |-> "Replication", peer |-> hostPeer, message |-> packet, delivery |-> d]
                                /\ es = events[c] /\ all = Append(es, event)
      OBVIOUS
    <3>2. packet \in Messages /\ Keeps(c, event) /\ d # "Reliable"
      <4>1. ~(packet.kind \in {"Authority", "PeerLeft"} /\ Online(c)) /\ packet.kind # "Welcome"
        BY <1>12
      <4>2. /\ packet \in Messages
            /\ Keeps(c, [kind |-> "Replication", peer |-> hostPeer, message |-> packet, delivery |-> d])
        BY <1>1, <4>1, ReceivedMakes
      <4> QED
        BY <1>2, <1>12, <3>1, <4>2
    <3>3. event \in Events /\ es \in Seq(Events) /\ event \notin Carries(hostPeer, i)
      BY <1>3, <3>1, <3>2 DEF Events, hostPeer, Carries
    <3>4. HeardIn(Append(es, event), hostPeer, i)
            = IF event \in Carries(hostPeer, i) THEN HeardIn(es, hostPeer, i) \o <<event.message>>
              ELSE HeardIn(es, hostPeer, i)
      BY <3>3, HeardAppend, Zenon
    <3>5. events'[c] = all
      BY <1>3, <3>1, <3>2 DEF Keeps
    <3>6. HeardIn(all, hostPeer, i) = HeardIn(es, hostPeer, i)
      BY <3>1, <3>3, <3>4, Zenon
    <3> QED
      BY <3>1, <3>5, <3>6 DEF Heard
  <2>4. Unread(c)'
    <3> SUFFICES ASSUME NEW i \in Instances, ~Online(c)', ~wasClient'[c], phase'[c] = "poll"
                 PROVE  Heard(c, hostPeer, i)' = <<>>
      BY DEF Unread
    <3>1. ~Online(c) /\ ~wasClient[c]
      BY <2>1
    <3> QED
      BY <1>2, <2>3, <3>1 DEF SessionInv, Unread
  <2>5. Newcomer(c) => ~Authorized(c)'
    <3> SUFFICES ASSUME Newcomer(c), Online(c) PROVE ~Authorized(c)'
      BY <2>1 DEF Authorized
    <3>1. /\ ToSet(w) \cap Grants(c) = {}
          /\ \A e \in Owned : authority[c][e] # client[c]
      BY <1>1, <1>2 DEF SessionInv, Fresh, Authorized
    <3>2. ASSUME NEW e \in Owned
          PROVE  authority'[c][e] # client[c]
      <4>1. CASE \E ev : Keeps(c, ev)
        BY <3>1, <4>1 DEF Keeps
      <4>2. CASE packet.kind \in {"Authority", "PeerLeft"}
        <5>1. packet \notin Messages
          BY <4>2 DEF Messages
        <5>2. PICK who \in [Owned -> Nat] :
                /\ Sees(c, who)
                /\ \A o \in Owned : who[o] \in {authority[c][o], hostPeer} \/ packet = AuthorityPacket(o, who[o])
          BY <1>1, <1>12, <5>1, ReceivedMakes
        <5>3. authority'[c] = who
          BY <1>3, <5>2 DEF Sees
        <5>4. packet \in ToSet(w)
          BY <1>2, <4>2, ToSetTail
        <5>5. packet # AuthorityPacket(e, client[c])
          BY <3>1, <5>4 DEF Grants
        <5> QED
          BY <1>3, <3>1, <5>2, <5>3, <5>5
      <4> QED
        BY <1>1, <1>12, <4>1, <4>2, ReceivedMakes
    <3> QED
      BY <1>2, <3>2 DEF Authorized
  <2>6. Fresh(c)'
    <3>1. Newcomer(c)' => ToSet(Wire(c)') \cap Grants(c)' = {}
      BY <1>1, <1>2, <1>7, <1>10 DEF SessionInv, Fresh
    <3>2. Newcomer(c)' \/ ~Online(c)' => \A i \in Instances : Reports(c, i)' = <<>>
      BY <1>2, <1>10, <2>1, ReceivedWords DEF SessionInv, Fresh
    <3> QED
      BY <1>10, <2>5, <3>1, <3>2 DEF Fresh
  <2>7. Delivered(c)'
    <3>1. OnlyValues(up'[c]["Unreliable"])
      BY <1>2 DEF SessionInv, Delivered
    <3>2. \A ev \in ToSet(events'[c]) :
            ev \in ToSet(events[c]) \/ (ev.kind = "Replication" /\ ev.peer = hostPeer /\ (ev.message \in Tidings => ev.delivery = "Reliable"))
      <4>1. CASE \E who : Sees(c, who)
        BY <4>1 DEF Sees
      <4>2. CASE /\ packet \in Messages /\ (packet \in Tidings => d = "Reliable")
                 /\ Keeps(c, [kind |-> "Replication", peer |-> hostPeer, message |-> packet, delivery |-> d])
        <5>1. PICK event, es : /\ event = [kind |-> "Replication", peer |-> hostPeer, message |-> packet, delivery |-> d]
                               /\ es = events[c]
          OBVIOUS
        <5>2. event \in Events /\ es \in Seq(Events) /\ events'[c] = Append(es, event)
          BY <1>3, <4>2, <5>1 DEF Events, hostPeer, Keeps
        <5>3. ToSet(Append(es, event)) = ToSet(es) \cup {event}
          BY <5>2, ToSetAppend
        <5> QED
          BY <4>2, <5>1, <5>2, <5>3
      <4> QED
        BY <1>1, <1>12, <4>1, <4>2, ReceivedMakes
    <3> QED
      BY <1>2, <3>1, <3>2 DEF SessionInv, Delivered
  <2> QED
    BY <1>5, <1>6, <2>2, <2>4, <2>6, <2>7 DEF SessionInv
<1> QED
  BY <1>11, <1>12

\* Nobody is in the session at first.
LEMMA InitSession == Init => SessionInv
<1> SUFFICES ASSUME Init PROVE SessionInv
  OBVIOUS
<1>1. /\ number = [g \in Games |-> IF g = Host THEN hostPeer ELSE 0]
      /\ linked = [c \in Clients |-> FALSE] /\ client = [c \in Clients |-> 0] /\ nextPeer = 2
      /\ authority = [g \in Games |-> NoAuthority] /\ events = [g \in Games |-> <<>>]
      /\ down = [c \in Clients |-> Silent] /\ up = [c \in Clients |-> Silent]
      /\ spawned = [g \in Games |-> <<>>]
  BY DEF Init
<1>2. \A ev : ev \notin ToSet(<<>>)
  BY SilentSays
<1>3. ASSUME NEW c \in Clients
      PROVE  Membership(c) /\ Unread(c) /\ Fresh(c) /\ Delivered(c)
  <2>1. /\ ~Online(c) /\ ~linked[c] /\ client[c] = 0 /\ authority[c] = NoAuthority /\ events[c] = <<>>
        /\ down[c] = Silent /\ up[c] = Silent /\ spawned[c] = <<>>
    BY <1>1, GamesAre DEF Online
  <2>2. Unread(c)
    BY <1>2, <2>1, HeardNothing, EmptySeq DEF Unread, Heard
  <2>3. Fresh(c)
    BY <2>1 DEF Fresh, Reached, Peers
  <2> QED
    BY <1>1, <1>2, <2>1, <2>2, <2>3, SilentSays DEF Membership, hostPeer, Joining, known, Delivered
<1> QED
  BY <1>1, <1>2, <1>3, GamesAre DEF SessionInv, HostSession, NoAuthority, hostPeer

\* Every step keeps the session as it should be.
LEMMA NextSession == Inv /\ SessionInv /\ [Next]_vars => SessionInv'
<1> SUFFICES ASSUME Inv, SessionInv, [Next]_vars PROVE SessionInv'
  OBVIOUS
<1>0. TypeOK
  BY DEF Inv
<1>1. ASSUME NEW c \in Clients,
             clientConnected(c) \/ clientLeft(c) \/ disconnected(c) \/ leftSession(c) \/ leave(c)
      PROVE  SessionInv'
  <2>1. CASE disconnected(c)
    BY <2>1, ClosesSession DEF disconnected, Polls
  <2>2. CASE leave(c)
    BY <1>0, <2>2, ClosesSession DEF TypeOK, leave
  <2>3. CASE clientConnected(c)
    BY <1>0, <2>3, ClientConnectedSession
  <2>4. CASE clientLeft(c)
    BY <1>0, <2>4, ClientLeftSession
  <2>5. CASE leftSession(c)
    BY <1>0, <2>5, LeftSessionSession
  <2> QED
    BY <1>1, <2>1, <2>2, <2>3, <2>4, <2>5
<1>2. ASSUME NEW c \in Clients, NEW d \in Deliveries, relay(c, d) \/ received(c, d)
      PROVE  SessionInv'
  BY <1>0, <1>2, RelaySession, ReceivedSession
<1>3. ASSUME NEW g \in Games, receiveSpawn(g) \/ receiveDespawn(g)
      PROVE  SessionInv'
  BY <1>0, <1>3, ReceiveSpawnSession, ReceiveDespawnSession
<1>4. ASSUME NEW g \in Games, NEW lost \in SUBSET Clients, receiveValues(g, lost)
      PROVE  SessionInv'
  BY <1>0, <1>4, ReceiveValuesSession
<1>5. ASSUME NEW g \in Games, NEW lost \in SUBSET Clients, NEW due \in SUBSET Synced, send(g, due, lost)
      PROVE  SessionInv'
  BY <1>5, SendSession
<1>6. ASSUME NEW g \in Games, NEW e \in Synced, write(g, e)
      PROVE  SessionInv'
  BY <1>0, <1>6, CodeSession
<1>7. ASSUME NEW g \in Games, NEW i \in Instances, place(g, i) \/ destroy(g, i)
      PROVE  SessionInv'
  BY <1>0, <1>7, CodeSession
<1>8. CASE welcome
  BY <1>0, <1>8, WelcomeSession
<1>9. ASSUME NEW e \in Owned, NEW peer \in {hostPeer} \cup {client[c] : c \in Peers}, setAuthority(e, peer)
      PROVE  SessionInv'
  BY <1>0, <1>9, SetAuthoritySession
<1>10. CASE UNCHANGED vars
  <2>1. UNCHANGED <<number, linked, client, nextPeer, authority, phase, events, down, up, spawned, wasClient, strays>>
    BY <1>10 DEF vars, session, wires, scenes, history
  <2>2. ASSUME NEW c \in Clients
        PROVE  Membership(c)' /\ Unread(c)' /\ Fresh(c)' /\ Delivered(c)'
    <3>1. Steady(c, <<>>)
      <4>1. \A i \in Instances : Reports(c, i)' = Reports(c, i)
        BY <2>1, ReportsStay
      <4> QED
        BY <1>0, <2>1, <4>1, SilentSays DEF Steady, SessionInv, Delivered, Newcomer, known, Wire, TypeOK
    <3> QED
      BY <1>0, <3>1, SteadySession DEF SessionInv
  <2> QED
    BY <2>1, <2>2 DEF SessionInv, HostSession, Peers
<1> QED
  BY <1>1, <1>2, <1>3, <1>4, <1>5, <1>6, <1>7, <1>8, <1>9, <1>10 DEF Next

\* Members of the session know their numbers, and what came before they joined is not read after.
THEOREM SessionKept == Spec => []SessionInv
<1>1. Inv /\ SessionInv /\ [Next]_vars => SessionInv'
  BY NextSession
<1> QED
  BY InitSession, Invariance, <1>1, PTL DEF Spec

-----------------------------------------------------------------------------
(* Every step of Replication is of those kinds. *)

\* What is not disputed is not, nor is what it is in.
LEMMA ClearIs ==
  ASSUME NEW i \in Clear
  PROVE  i \in Instances /\ \A j \in Over(i) : j \notin untold /\ \A c \in Clients : j \notin strays[c]
BY DEF Clear, Disputed, Over, Above, Below

\* The same of what will not be disputed after a step.
LEMMA ClearNext ==
  ASSUME NEW i \in Clear'
  PROVE  i \in Instances /\ \A j \in Over(i) : j \notin untold' /\ \A c \in Clients : j \notin strays'[c]
BY DEF Clear, Disputed, Over, Above, Below

\* What is not disputed was not.
LEMMA ClearWas ==
  ASSUME untold \subseteq untold', \A c \in Clients : strays[c] \subseteq strays'[c], NEW i \in Clear'
  PROVE  i \in Clear
BY DEF Clear, Disputed

\* A game whose scene, and number, stays has what it had.
LEMMA StillScenes ==
  ASSUME NEW g, number'[g] = number[g], alive'[g] = alive[g], spawned'[g] = spawned[g]
  PROVE  \A j : (In(g, j)' <=> In(g, j)) /\ (Knows(g, j)' <=> Knows(g, j))
BY DEF In, Knows, Online, known

\* A game that decides as before is still about to tell.
LEMMA StillDoing ==
  ASSUME NEW g, number'[g] = number[g], alive'[g] = alive[g], spawned'[g] = spawned[g], authority'[g] = authority[g],
         phase[g] = "frame" => phase'[g] = "frame"
  PROVE  \A j : /\ Going(g, j) => Going(g, j)'
                /\ events'[g] = events[g] /\ Placing(g, j) => Placing(g, j)'
BY DEF In, Knows, Online, known, Going, Placing, isAuthority

\* Nor is a game that has not yet handled what it found, nor run.
LEMMA PollingIsNot ==
  ASSUME NEW g, phase[g] = "poll"
  PROVE  \A j : ~Going(g, j) /\ ~Placing(g, j)
BY DEF Going, Placing

\* Nothing changes for a client whose wires and session stay.
LEMMA StillWords ==
  ASSUME NEW c \in Clients, number'[c] = number[c], linked'[c] = linked[c], client'[c] = client[c],
         authority'[c] = authority[c], down'[c] = down[c], up'[c] = up[c], events'[c] = events[c],
         events'[Host] = events[Host]
  PROVE  /\ \A i : News(c, i)' = News(c, i) /\ Reports(c, i)' = Reports(c, i)
         /\ (Online(c)' <=> Online(c)) /\ (Newcomer(c)' <=> Newcomer(c)) /\ (c \in Reached' <=> c \in Reached)
         /\ \A j : HearsEarly(c, j)' <=> HearsEarly(c, j)
<1>1. (Online(c)' <=> Online(c)) /\ (c \in Reached' <=> c \in Reached) /\ Wire(c)' = Wire(c)
  BY DEF Online, Reached, Peers, Wire
<1>2. Newcomer(c)' <=> Newcomer(c)
  BY DEF Newcomer
<1> QED
  BY <1>1, <1>2 DEF HearsEarly, Authorized, Grants, Reports, Heard, News

\* What comes down to a client that says nothing of j leaves it as early as it was.
LEMMA StillEarly ==
  ASSUME NEW c \in Clients, NEW r \in Seq(Packets), Wire(c) \in Seq(Packets), Wire(c)' \in {Wire(c), Wire(c) \o r},
         client'[c] = client[c], Authorized(c)' => Authorized(c), NEW j, spawnMessage(j) \notin ToSet(r), HearsEarly(c, j)
  PROVE  HearsEarly(c, j)'
<1>1. PICK w, x, G, all : w = Wire(c) /\ x = spawnMessage(j) /\ G = Grants(c) /\ all = Wire(c)'
  OBVIOUS
<1>2. Never(w, G, x) /\ (Authorized(c) => x \notin ToSet(w))
  BY <1>1 DEF HearsEarly
<1>3. Never(all, G, x) /\ (x \in ToSet(all) => x \in ToSet(w))
  <2>1. CASE all = w
    BY <1>2, <2>1
  <2>2. CASE all = w \o r
    <3>1. w \in Seq(Packets) /\ x \notin ToSet(r)
      BY <1>1
    <3>2. Never(all, G, x)
      BY <1>1, <1>2, <2>2, <3>1, NeverConcat, NeverNone
    <3> QED
      BY <2>2, <3>1, <3>2, ToSetConcat
  <2> QED
    BY <1>1, <2>1, <2>2
<1> QED
  BY <1>1, <1>2, <1>3 DEF HearsEarly, Grants

\* What was heard of once still is, and what was heard of early.
LEMMA HeardOnceStays ==
  ASSUME NEW i, HeardOnce(i), SameNews(i),
         \A c \in Clients, j \in Over(i) :
           /\ Knows(c, j)' => Knows(c, j)
           /\ \/ c \notin Reached'
              \/ c \in Reached /\ (HearsEarly(c, j) => HearsEarly(c, j)')
              \/ HearsEarly(c, j)'
  PROVE  HeardOnce(i)'
<1> SUFFICES ASSUME NEW j \in Over(i), NEW c \in Clients, c \in Reached'
             PROVE  HearsOnce(i, c, j)' \/ HearsEarly(c, j)'
  BY DEF HeardOnce, Over, Above
<1>1. HearsOnce(i, c, j) => HearsOnce(i, c, j)'
  BY DEF HearsOnce, Hears, SameNews
<1> QED
  BY <1>1 DEF HeardOnce

\* The host has things in the order it had.
LEMMA HostOrderStays ==
  ASSUME NEW i, HostOrder(i), spawned'[Host] = spawned[Host], \A j \in Over(i) : In(Host, j)' => In(Host, j)
  PROVE  HostOrder(i)'
BY DEF HostOrder

\* What may be placed is what could be, unless that is what a step does.
LEMMA StillFree ==
  ASSUME TypeOK, Spends("joins") \/ Spends("leaves") \/ Spends("writes") \/ (\E e : Uses("grants", e))
                   \/ (\E j : Uses("destroys", j)) \/ budget' = budget
  PROVE  \A j : Free(j)' <=> Free(j)
<1>1. budget \in Budget
  BY DEF TypeOK
<1>2. budget'["places"] = budget["places"]
  <2>1. ASSUME NEW deed \in {"joins", "leaves", "writes", "grants", "destroys"}, NEW v, budget' = [budget EXCEPT ![deed] = v]
        PROVE  budget'["places"] = budget["places"]
    BY <1>1, <2>1 DEF Budget
  <2>2. \/ \E deed \in {"joins", "leaves", "writes", "grants", "destroys"} : \E v : budget' = [budget EXCEPT ![deed] = v]
        \/ budget' = budget
    BY DEF Spends, Uses
  <2> QED
    BY <2>1, <2>2
<1> QED
  BY <1>2 DEF Free

\* The games agree when a client closes its session.
LEMMA ClosesAgreed ==
  ASSUME Inv, SessionInv, NEW c \in Clients, Closes(c), UNCHANGED <<scenes, history>>,
         \A g \in Games \ {c} : phase'[g] = phase[g], NEW i \in Instances, Agreed(i)
  PROVE  Agreed(i)'
<1>1. /\ number' = [number EXCEPT ![c] = 0] /\ linked' = [linked EXCEPT ![c] = FALSE]
      /\ authority' = [authority EXCEPT ![c] = NoAuthority] /\ down' = [down EXCEPT ![c] = Silent]
      /\ UNCHANGED <<client, nextPeer, up, events, wasClient>> /\ Spends("leaves")
  BY DEF Closes
<1>2. TypeOK /\ number \in [Games -> Nat] /\ linked \in [Clients -> BOOLEAN] /\ authority \in [Games -> [Owned -> Nat]]
      /\ down \in [Clients -> [Deliveries -> Seq(Packets)]] /\ c \in Games /\ c # Host
  BY GamesAre DEF Inv, TypeOK
<1>3. ~Online(c)' /\ c \notin Reached'
  BY <1>1, <1>2 DEF Online, Reached
<1>4. ASSUME NEW d \in Clients \ {c}
      PROVE  /\ News(d, i)' = News(d, i) /\ Reports(d, i)' = Reports(d, i)
             /\ (Online(d)' <=> Online(d)) /\ (Newcomer(d)' <=> Newcomer(d)) /\ (d \in Reached' <=> d \in Reached)
             /\ \A j : HearsEarly(d, j)' <=> HearsEarly(d, j)
  BY <1>1, <1>2, StillWords, GamesAre
<1>5. \A j : Free(j)' <=> Free(j)
  BY <1>1, <1>2, StillFree
<1>6. ASSUME NEW g \in Games \ {c}, NEW j
      PROVE  /\ In(g, j)' <=> In(g, j)
             /\ Knows(g, j)' <=> Knows(g, j)
             /\ Going(g, j) => Going(g, j)'
             /\ Placing(g, j) => Placing(g, j)'
  BY <1>1, <1>2, StillScenes, StillDoing DEF scenes
<1>7. Departs(c, i)
  BY <1>1, <1>3, <1>4, <1>5, <1>6, ReportsStay DEF Departs
<1>8. HostOrder(i)'
  BY <1>2, <1>6, HostOrderStays, GamesAre DEF Agreed, scenes
<1>9. HeardOnce(i)'
  <2> SUFFICES ASSUME NEW j \in Over(i), NEW d \in Clients, d \in Reached'
               PROVE  HearsOnce(i, d, j)' \/ HearsEarly(d, j)'
    BY DEF HeardOnce, Over, Above
  <2> QED
    BY <1>3, <1>4, <1>6, GamesAre DEF Agreed, HeardOnce, HearsOnce, Hears
<1> QED
  BY <1>7, <1>8, <1>9, DepartAgreed

\* They do when the host hears that a client is gone.
LEMMA ClientLeftAgreed ==
  ASSUME Inv, SessionInv, NEW c \in Clients, clientLeft(c), NEW i \in Instances, Agreed(i)
  PROVE  Agreed(i)'
<1>1. /\ client[c] # 0 /\ ~linked[c] /\ client' = [client EXCEPT ![c] = 0]
      /\ authority' = [authority EXCEPT ![Host] = GivesBack(authority[Host], client[c])]
      /\ ToClients(Clients, <<[kind |-> "PeerLeft", peer |-> client[c]]>>, <<>>, {})
      /\ up' = [up EXCEPT ![c] = Silent]
      /\ UNCHANGED <<number, linked, nextPeer, events, wasClient, budget, phase, scenes, history>> /\ phase[Host] = "poll"
  BY DEF clientLeft, Polls
<1>2. TypeOK /\ client \in [Clients -> Nat] /\ up \in [Clients -> [Deliveries -> Seq(Messages)]]
      /\ authority \in [Games -> [Owned -> Nat]] /\ client[c] \in Nat /\ c \in Games /\ c # Host
  BY GamesAre DEF Inv, TypeOK
<1>3. PICK packet, r, none : packet = [kind |-> "PeerLeft", peer |-> client[c]] /\ r = <<packet>> /\ none = <<>>
  OBVIOUS
<1>4. packet \in Packets /\ packet.kind = "PeerLeft"
  BY <1>2, <1>3 DEF Packets
<1>5. r \in Seq(Packets) /\ ToSet(r) = {packet} /\ none \in Seq(Packets) /\ ToSet(none) = {}
  BY <1>3, <1>4, OnePacket
<1>6. ToClients(Clients, r, none, {})
  BY <1>1, <1>3
<1>7. ~Online(c)' /\ c \notin Reached' /\ Reports(c, i)' = <<>>
  BY <1>1, <1>2 DEF Online, Reached, Peers, Reports, SessionInv, Membership
<1>8. ASSUME NEW d \in Clients \ {c}
      PROVE  /\ News(d, i)' = News(d, i) /\ Reports(d, i)' = Reports(d, i)
             /\ (Online(d)' <=> Online(d)) /\ (Newcomer(d)' <=> Newcomer(d)) /\ (d \in Reached' <=> d \in Reached)
             /\ \A j : HearsEarly(d, j) => HearsEarly(d, j)'
  <2>1. client'[d] = client[d] /\ up'[d] = up[d] /\ authority'[d] = authority[d]
    BY <1>1, <1>2, GamesAre
  <2>2. (Online(d)' <=> Online(d)) /\ (Newcomer(d)' <=> Newcomer(d)) /\ (d \in Reached' <=> d \in Reached)
    BY <1>1, <2>1 DEF Online, Newcomer, Reached, Peers
  <2>3. News(d, i)' = News(d, i)
    <3>1. ToSet(r) \cap About(i) = {} /\ events'[d] = events[d]
      BY <1>1, <1>4, <1>5 DEF About
    <3> QED
      BY <1>2, <1>5, <1>6, <2>2, <3>1, ToClientsNothing
  <2>4. ASSUME NEW j, HearsEarly(d, j)
        PROVE  HearsEarly(d, j)'
    <3>1. Wire(d) \in Seq(Packets) /\ Wire(d)' \in {Wire(d), Wire(d) \o r}
      BY <1>2, <1>5, <1>6, ToClientsWires, WordsTypes
    <3>2. Authorized(d)' => Authorized(d)
      BY <2>1, <2>2 DEF Authorized
    <3>3. spawnMessage(j) \notin ToSet(r)
      BY <1>4, <1>5 DEF spawnMessage
    <3> QED
      BY <1>5, <2>1, <2>4, <3>1, <3>2, <3>3, StillEarly
  <2> QED
    BY <1>1, <2>1, <2>2, <2>3, <2>4, ReportsStay
<1>9. ASSUME NEW g \in Games \ {c}, NEW j
       PROVE  /\ In(g, j)' <=> In(g, j)
              /\ Knows(g, j)' <=> Knows(g, j)
              /\ Going(g, j) => Going(g, j)'
              /\ Placing(g, j) => Placing(g, j)'
  BY <1>1, <1>2, StillScenes, StillDoing, PollingIsNot DEF scenes
<1>10. Departs(c, i)
  BY <1>1, <1>7, <1>8, <1>9 DEF Departs, Free
<1>11. HostOrder(i)'
  BY <1>1, <1>2, <1>9, HostOrderStays, GamesAre DEF Agreed, scenes
<1>12. HeardOnce(i)'
  <2> SUFFICES ASSUME NEW j \in Over(i), NEW d \in Clients, d \in Reached'
               PROVE  HearsOnce(i, d, j)' \/ HearsEarly(d, j)'
    BY DEF HeardOnce, Over, Above
  <2> QED
    BY <1>7, <1>8, <1>9, GamesAre DEF Agreed, HeardOnce, HearsOnce, Hears
<1> QED
  BY <1>10, <1>11, <1>12, DepartAgreed

\* They do when a client puts away the session that ended.
LEMMA LeftSessionAgreed ==
  ASSUME Inv, SessionInv, NEW c \in Clients, leftSession(c), NEW i \in Instances, Agreed(i)
  PROVE  Agreed(i)'
<1>1. PICK scene : scene = {j \in alive[c] : j \notin known(c) /\ \A k \in known(c) : j \notin Below(k)}
  OBVIOUS
<1>2. /\ alive' = [alive EXCEPT ![c] = scene] /\ spawned' = [spawned EXCEPT ![c] = <<>>]
      /\ phase' = [phase EXCEPT ![c] = "frame"] /\ UNCHANGED <<session, events, wires, value, history, budget>>
      /\ phase[c] = "poll" /\ ~Online(c)
  BY <1>1 DEF leftSession, Left
<1>3. TypeOK /\ alive \in [Games -> SUBSET Instances] /\ spawned \in [Games -> Seq(Instances)]
      /\ phase \in [Games -> {"poll", "frame"}] /\ c \in Games /\ c # Host
  BY GamesAre DEF Inv, TypeOK
<1>4. ASSUME NEW d \in Clients
      PROVE  /\ News(d, i)' = News(d, i) /\ Reports(d, i)' = Reports(d, i)
             /\ (Online(d)' <=> Online(d)) /\ (Newcomer(d)' <=> Newcomer(d)) /\ (d \in Reached' <=> d \in Reached)
             /\ \A j : HearsEarly(d, j)' <=> HearsEarly(d, j)
  BY <1>2, StillWords DEF session, wires
<1>5. ASSUME NEW g \in Games, NEW j
      PROVE  /\ In(g, j)' <=> In(g, j)
             /\ Knows(g, j)' <=> Knows(g, j)
             /\ Going(g, j) => Going(g, j)'
             /\ Placing(g, j) /\ In(g, j) => Placing(g, j)'
  <2>1. CASE g = c
    BY <1>2, <2>1 DEF In, Knows, Going, session, Online
  <2>2. CASE g # c
    BY <1>2, <1>3, <2>2, StillScenes, StillDoing DEF session
  <2> QED
    BY <2>1, <2>2
<1>6. SameScenes(i) /\ SameNews(i) /\ SameReports(i) /\ StillAtIt(i) /\ SameMembers(i)
  BY <1>2, <1>4, <1>5 DEF SameNews, SameReports, SameMembers, SameScenes, StillAtIt, Free
<1>7. HostOrder(i)'
  BY <1>2, <1>3, <1>5, HostOrderStays, GamesAre DEF Agreed
<1>8. HeardOnce(i)'
  BY <1>4, <1>5, <1>6, GamesAre, HeardOnceStays DEF Agreed
<1> QED
  BY <1>6, <1>7, <1>8, CalmAgreed

\* The games agree when a client joins.
LEMMA ClientConnectedAgreed ==
  ASSUME Inv, SessionInv, NEW c \in Clients, clientConnected(c), NEW i \in Instances, Agreed(i)
  PROVE  Agreed(i)'
<1>1. PICK event : event = [kind |-> "PeerJoined", peer |-> nextPeer]
  OBVIOUS
<1>2. /\ client[c] = 0 /\ client'[c] = nextPeer /\ ~Online(c)
      /\ nextPeer \in Nat /\ nextPeer > hostPeer
      /\ events'[Host] = Append(events[Host], event) /\ event \in Events
      /\ \A d \in Clients \ {c} : /\ linked'[d] = linked[d] /\ client'[d] = client[d]
                                  /\ down'[d] = down[d] /\ up'[d] = up[d]
      /\ \A d \in Clients : events'[d] = events[d]
      /\ UNCHANGED <<number, authority, phase, scenes, history>>
  BY <1>1, ClientConnectedDoes DEF Inv
<1>3. TypeOK /\ events[Host] \in Seq(Events) /\ phase[Host] = "poll" /\ Spends("joins")
  BY GamesAre DEF Inv, TypeOK, clientConnected, Polls
<1>4. ToSet(events'[Host]) = ToSet(events[Host]) \cup {event}
  BY <1>2, <1>3, ToSetAppend
<1>5. SameNews(i) /\ SameReports(i) /\ News(c, i) = <<>>
  BY <1>3, ClientConnectedWords DEF SameNews, SameReports
<1>6. ASSUME NEW g \in Games, NEW j
      PROVE  /\ In(g, j)' <=> In(g, j)
             /\ Knows(g, j)' <=> Knows(g, j)
             /\ Going(g, j) => Going(g, j)'
             /\ Placing(g, j) => Placing(g, j)'
  BY <1>2, <1>3, StillScenes, StillDoing, PollingIsNot DEF scenes, Games
<1>7. SameScenes(i) /\ StillAtIt(i)
  BY <1>3, <1>6, StillFree DEF SameScenes, StillAtIt
<1>8. ASSUME NEW d \in Clients \ {c}
       PROVE  /\ Newcomer(d)' <=> Newcomer(d)
              /\ d \in Reached' <=> d \in Reached
              /\ \A j : HearsEarly(d, j) => HearsEarly(d, j)'
  <2>1. Newcomer(d)' <=> Newcomer(d)
    BY <1>1, <1>2, <1>3, <1>4 DEF Newcomer, SessionInv, Membership, TypeOK
  <2>2. d \in Reached' <=> d \in Reached
    BY <1>2 DEF Reached, Peers
  <2> QED
    BY <1>2, <2>1, <2>2 DEF HearsEarly, Wire, Authorized, Online, Grants
<1>9. SameMembers(i)
  BY <1>1, <1>2, <1>4, <1>5, <1>8 DEF SameMembers, Online, Newcomer, hostPeer, SessionInv, HostSession
<1>10. ASSUME NEW j
       PROVE  HearsEarly(c, j)'
  <2>1. PICK first, w, x : first = [kind |-> "Welcome", number |-> nextPeer] /\ w = Wire(c)' /\ x = spawnMessage(j)
    OBVIOUS
  <2>2. first \in Packets /\ Decided \in Seq(Packets) /\ w = <<first>> \o Decided
    BY <1>3, <2>1, ClientConnectedDoes, DecidedIs DEF Packets
  <2>3. w \in Seq(Packets) /\ ToSet(w) = {first} \cup ToSet(Decided)
    BY <2>2, OneThen
  <2> QED
    BY <1>2, <1>3, <2>1, <2>3, NeverNone, DecidedHas DEF HearsEarly, spawnMessage, Authorized, Online
<1>11. HeardOnce(i)'
  BY <1>5, <1>6, <1>8, <1>10, GamesAre, HeardOnceStays DEF Agreed
<1>12. HostOrder(i)'
  BY <1>2, <1>6, HostOrderStays, GamesAre DEF Agreed, scenes
<1> QED
  BY <1>5, <1>7, <1>9, <1>11, <1>12, CalmAgreed

\* They do when the host reads of a client.
LEMMA RelayAgreed ==
  ASSUME Inv, SessionInv, NEW c \in Clients, NEW d \in Deliveries, relay(c, d), NEW i \in Instances, Agreed(i)
  PROVE  Agreed(i)'
<1>1. PICK event : event = [kind |-> "Replication", peer |-> client[c], message |-> Head(up[c][d]), delivery |-> d]
  OBVIOUS
<1>2. /\ \A g \in Clients : events'[g] = events[g]
      /\ ToSet(events'[Host]) = ToSet(events[Host]) \cup {event}
      /\ UNCHANGED <<session, phase, scenes, history, down, wasClient, budget>> /\ phase[Host] = "poll"
  BY <1>1, RelayDoes DEF Inv
<1>3. ASSUME NEW e \in Clients
      PROVE  /\ News(e, i)' = News(e, i) /\ Reports(e, i)' = Reports(e, i)
             /\ (Online(e)' <=> Online(e)) /\ (Newcomer(e)' <=> Newcomer(e)) /\ (e \in Reached' <=> e \in Reached)
             /\ \A j : HearsEarly(e, j)' <=> HearsEarly(e, j)
  <2>1. (Online(e)' <=> Online(e)) /\ (e \in Reached' <=> e \in Reached) /\ Wire(e)' = Wire(e)
    BY <1>2 DEF Online, Reached, Peers, Wire, session
  <2>2. News(e, i)' = News(e, i)
    BY <1>2, <2>1 DEF News, Heard
  <2> QED
    BY <1>1, <1>2, <2>1, <2>2, RelayReports DEF HearsEarly, Authorized, Grants, session, Newcomer, Inv
<1>4. ASSUME NEW g \in Games, NEW j
      PROVE  /\ In(g, j)' <=> In(g, j)
             /\ Knows(g, j)' <=> Knows(g, j)
             /\ Going(g, j) => Going(g, j)'
             /\ Placing(g, j) => Placing(g, j)'
  BY <1>2, StillScenes, StillDoing, PollingIsNot DEF scenes, session, Games
<1>5. SameScenes(i) /\ StillAtIt(i) /\ SameNews(i) /\ SameReports(i) /\ SameMembers(i)
  BY <1>2, <1>3, <1>4 DEF SameNews, SameReports, SameMembers, SameScenes, StillAtIt, Free
<1>6. HeardOnce(i)'
  BY <1>3, <1>4, <1>5, GamesAre, HeardOnceStays DEF Agreed
<1>7. HostOrder(i)'
  BY <1>2, <1>4, HostOrderStays, GamesAre DEF Agreed, scenes
<1> QED
  BY <1>5, <1>6, <1>7, CalmAgreed

\* A client reading of the host hears as early as it did.
LEMMA ReceivedEarly ==
  ASSUME TypeOK, SessionInv, NEW c \in Clients, NEW d \in Deliveries, received(c, d), NEW j, HearsEarly(c, j)
  PROVE  HearsEarly(c, j)'
<1>1. PICK packet, w, x, G : packet = Head(down[c][d]) /\ w = Wire(c) /\ x = spawnMessage(j) /\ G = Grants(c)
  OBVIOUS
<1>2. /\ w \in Seq(Packets) /\ client' = client /\ c \in Reached
      /\ d = "Reliable" => w # <<>> /\ packet = Head(w) /\ Wire(c)' = Tail(w)
      /\ d # "Reliable" => packet.kind = "Values" /\ Wire(c)' = w
      /\ packet.kind = "Welcome" => Joining(c) /\ d = "Reliable"
  BY <1>1, ReceivedDoes
<1>3. Never(w, G, x) /\ (Authorized(c) => x \notin ToSet(w)) /\ Grants(c)' = G
  BY <1>1, <1>2 DEF HearsEarly, Grants
<1>4. /\ Never(Wire(c)', G, x) /\ ToSet(Wire(c)') \subseteq ToSet(w)
      /\ packet \in G => x \notin ToSet(Wire(c)')
  <2>1. CASE d = "Reliable"
    <3>1. w # <<>> /\ packet = Head(w) /\ Wire(c)' = Tail(w)
      BY <1>2, <2>1
    <3> QED
      BY <1>2, <1>3, <3>1, NeverTail, ToSetTail
  <2>2. CASE d # "Reliable"
    BY <1>1, <1>2, <1>3, <2>2 DEF Grants, AuthorityPacket
  <2> QED
    BY <2>1, <2>2
<1>5. Authorized(c)' => Authorized(c) \/ packet \in G
  <2>0. /\ client[c] # hostPeer /\ client[c] # 0 /\ c \in Games
        /\ authority \in [Games -> [Owned -> Nat]]
    BY <1>2, GamesAre DEF SessionInv, Membership, Reached, Peers, TypeOK
  <2>1. CASE packet.kind = "Welcome"
    <3>1. authority'[c] = NoAuthority
      BY <1>1, <2>0, <2>1, ReceivedMakes DEF Joins, Messages
    <3> QED
      BY <1>2, <2>0, <3>1 DEF Authorized, NoAuthority
  <2>2. CASE packet.kind \in {"Authority", "PeerLeft"}
    <3>1. /\ Online(c)
          /\ \E who \in [Owned -> Nat] :
               /\ Sees(c, who)
               /\ \A o \in Owned : who[o] \in {authority[c][o], hostPeer} \/ packet = AuthorityPacket(o, who[o])
      BY <1>1, <2>2, ReceivedMakes DEF Messages
    <3>2. PICK who \in [Owned -> Nat] :
            /\ Sees(c, who)
            /\ \A o \in Owned : who[o] \in {authority[c][o], hostPeer} \/ packet = AuthorityPacket(o, who[o])
      BY <3>1
    <3> SUFFICES ASSUME NEW o \in Owned, who[o] = client[c] PROVE Authorized(c) \/ packet \in G
      BY <1>2, <2>0, <3>2 DEF Authorized, Sees
    <3> QED
      BY <1>1, <2>0, <3>1, <3>2 DEF Authorized, Grants
  <2>3. CASE packet.kind \notin {"Welcome", "Authority", "PeerLeft"}
    BY <1>1, <1>2, <2>3, ReceivedMakes DEF Keeps, Authorized, Online
  <2> QED
    BY <2>1, <2>2, <2>3
<1> QED
  BY <1>1, <1>3, <1>4, <1>5 DEF HearsEarly

\* The games agree when a client reads of the host: one that joins has nothing of before.
LEMMA ReceivedAgreed ==
  ASSUME Inv, SessionInv, NEW c \in Clients, NEW d \in Deliveries, received(c, d), NEW i \in Clear, Agreed(i)
  PROVE  Agreed(i)'
<1>0. TypeOK /\ i \in Instances
  BY ClearIs DEF Inv
<1>1. PICK packet : packet = Head(down[c][d])
  OBVIOUS
<1>2. /\ phase[c] = "poll" /\ linked[c] /\ c \in Reached
      /\ packet.kind = "Welcome" => Joining(c)
      /\ \A g \in Clients \ {c} : down'[g] = down[g]
      /\ UNCHANGED <<linked, client, nextPeer, up, budget, phase, scenes, history>>
  BY <1>0, <1>1, ReceivedDoes
<1>3. /\ events \in [Games -> Seq(Events)] /\ number \in [Games -> Nat]
      /\ authority \in [Games -> [Owned -> Nat]] /\ c \in Games /\ c # Host
  BY <1>0, GamesAre DEF TypeOK
<1>4. \A g \in Games \ {c} : number'[g] = number[g] /\ events'[g] = events[g] /\ authority'[g] = authority[g]
  BY <1>0, <1>3, ReceivedMakes DEF Joins, Sees, Keeps
<1>5. SameNews(i) /\ SameReports(i)
  BY <1>0, ReceivedWords DEF SameNews, SameReports
<1>6. ASSUME NEW e \in Clients \ {c}
      PROVE  /\ (Online(e)' <=> Online(e)) /\ (Newcomer(e)' <=> Newcomer(e)) /\ (e \in Reached' <=> e \in Reached)
             /\ \A j : HearsEarly(e, j)' <=> HearsEarly(e, j)
  BY <1>2, <1>3, <1>4, StillWords, GamesAre
<1>7. (Online(c)' => Online(c) \/ Joining(c)) /\ (Newcomer(c)' <=> Newcomer(c)) /\ (c \in Reached' <=> c \in Reached)
  BY <1>2, <1>3, <1>4, GamesAre DEF Reached, Peers, Joining, Newcomer
<1>8. Joining(c) => /\ ~Online(c) /\ Reports(c, i) = <<>>
                    /\ \A j \in Over(i) : j \notin alive[c] /\ j \notin known(c)
  <2> SUFFICES ASSUME Joining(c)
               PROVE  /\ ~Online(c) /\ Reports(c, i) = <<>>
                      /\ \A j \in Over(i) : j \notin alive[c] /\ j \notin known(c)
    OBVIOUS
  <2> QED
    BY <1>0, <1>2, ClearIs DEF Inv, Remembered, SessionInv, Membership, Fresh, Joining
<1>9. ASSUME NEW g \in Games, NEW j \in Over(i)
      PROVE  /\ In(g, j)' <=> In(g, j)
             /\ Knows(g, j)' <=> Knows(g, j)
             /\ Going(g, j) => Going(g, j)'
             /\ Placing(g, j) => Placing(g, j)'
  <2>1. alive'[g] = alive[g] /\ spawned'[g] = spawned[g] /\ phase'[g] = phase[g]
    BY <1>2 DEF scenes
  <2>2. CASE g # c
    BY <1>4, <2>1, <2>2, StillScenes, StillDoing
  <2>3. CASE g = c
    <3>1. ~Going(c, j) /\ ~Placing(c, j)
      BY <1>2, PollingIsNot
    <3>2. known(c)' = known(c)
      BY <2>1, <2>3 DEF known
    <3>3. CASE Joining(c)
      BY <1>8, <2>1, <2>3, <3>1, <3>2, <3>3 DEF In, Knows
    <3>4. CASE ~Joining(c)
      <4>1. number' = number
        BY <1>0, <1>1, <1>2, <3>4, ReceivedMakes DEF Sees, Keeps
      <4> QED
        BY <2>1, <2>3, <3>1, <3>2, <4>1 DEF In, Knows, Online
    <3> QED
      BY <3>3, <3>4
  <2> QED
    BY <2>2, <2>3
<1>10. SameScenes(i) /\ StillAtIt(i)
  BY <1>2, <1>9 DEF SameScenes, StillAtIt, Free
<1>11. SameMembers(i)
  BY <1>6, <1>7, <1>8 DEF SameMembers
<1>12. HeardOnce(i)'
  BY <1>0, <1>5, <1>6, <1>7, <1>9, GamesAre, ReceivedEarly, HeardOnceStays DEF Agreed
<1>13. HostOrder(i)'
  BY <1>2, <1>9, HostOrderStays, GamesAre DEF Agreed, scenes
<1> QED
  BY <1>0, <1>5, <1>10, <1>11, <1>12, <1>13, CalmAgreed

\* What is on its way stays when a game does something on its own.
LEMMA OwnWords ==
  ASSUME UNCHANGED <<session, wires, events>>, NEW i
  PROVE  /\ SameNews(i) /\ SameReports(i) /\ SameMembers(i)
         /\ \A c \in Clients :
              /\ News(c, i)' = News(c, i) /\ Reports(c, i)' = Reports(c, i)
              /\ (Online(c)' <=> Online(c)) /\ (Newcomer(c)' <=> Newcomer(c)) /\ (c \in Reached' <=> c \in Reached)
              /\ \A j : HearsEarly(c, j)' <=> HearsEarly(c, j)
<1>1. ASSUME NEW c \in Clients
      PROVE  /\ News(c, i)' = News(c, i) /\ Reports(c, i)' = Reports(c, i)
             /\ (Online(c)' <=> Online(c)) /\ (Newcomer(c)' <=> Newcomer(c)) /\ (c \in Reached' <=> c \in Reached)
             /\ \A j : HearsEarly(c, j)' <=> HearsEarly(c, j)
  BY StillWords DEF session, wires
<1> QED
  BY <1>1 DEF SameNews, SameReports, SameMembers

\* The games agree when one changes what it decides for.
LEMMA WriteAgreed ==
  ASSUME Inv, SessionInv, NEW g \in Games, NEW e \in Synced, write(g, e), NEW i \in Instances, Agreed(i)
  PROVE  Agreed(i)'
<1>1. /\ UNCHANGED <<session, wires, alive, spawned, events>> /\ phase' = [phase EXCEPT ![g] = "frame"] /\ Spends("writes")
  BY DEF write, Deed
<1>2. TypeOK /\ phase \in [Games -> {"poll", "frame"}]
  BY DEF Inv, TypeOK
<1>3. SameNews(i) /\ SameReports(i) /\ SameMembers(i) /\ \A c \in Clients : \A j : HearsEarly(c, j)' <=> HearsEarly(c, j)
  BY <1>1, OwnWords
<1>4. ASSUME NEW h \in Games, NEW j
      PROVE  /\ In(h, j)' <=> In(h, j)
             /\ Knows(h, j)' <=> Knows(h, j)
             /\ Going(h, j) => Going(h, j)'
             /\ Placing(h, j) => Placing(h, j)'
  BY <1>1, <1>2, StillScenes, StillDoing DEF session
<1>5. SameScenes(i) /\ StillAtIt(i)
  BY <1>1, <1>2, <1>4, StillFree DEF SameScenes, StillAtIt
<1>6. HeardOnce(i)'
  BY <1>1, <1>3, <1>4, GamesAre, HeardOnceStays DEF Agreed, Reached, Peers, session
<1>7. HostOrder(i)'
  BY <1>1, <1>4, GamesAre, HostOrderStays DEF Agreed
<1> QED
  BY <1>3, <1>5, <1>6, <1>7, CalmAgreed

\* They do when one places an instance.
LEMMA PlaceStepAgreed ==
  ASSUME Inv, SessionInv, NEW g \in Games, NEW j0 \in Instances, place(g, j0), NEW i \in Instances, Agreed(i)
  PROVE  Agreed(i)'
<1>1. /\ UNCHANGED <<session, wires, spawned, events>> /\ phase' = [phase EXCEPT ![g] = "frame"] /\ events[g] = <<>>
      /\ alive' = [alive EXCEPT ![g] = @ \cup {j0}] /\ Uses("places", j0) /\ Online(g)
      /\ Exists(g, SpawnerOf[j0]) /\ isAuthority(g, SpawnerOf[j0])
  BY DEF place, Deed, Runs
<1>2. TypeOK /\ phase \in [Games -> {"poll", "frame"}] /\ alive \in [Games -> SUBSET Instances] /\ budget \in Budget
  BY DEF Inv, TypeOK
<1>3. /\ SameNews(i) /\ SameReports(i) /\ SameMembers(i)
      /\ \A c \in Clients :
           /\ News(c, i)' = News(c, i) /\ Reports(c, i)' = Reports(c, i)
           /\ (Online(c)' <=> Online(c)) /\ (Newcomer(c)' <=> Newcomer(c)) /\ (c \in Reached' <=> c \in Reached)
           /\ \A j : HearsEarly(c, j)' <=> HearsEarly(c, j)
  BY <1>1, OwnWords
<1>4. \A h \in Games : /\ number'[h] = number[h] /\ authority'[h] = authority[h] /\ events'[h] = events[h]
                       /\ spawned'[h] = spawned[h] /\ (phase[h] = "frame" => phase'[h] = "frame")
                       /\ alive'[h] = IF h = g THEN alive[h] \cup {j0} ELSE alive[h]
  BY <1>1, <1>2 DEF session
<1>5. ASSUME NEW h \in Games, NEW j
      PROVE  /\ In(h, j)' <=> In(h, j) \/ (h = g /\ j = j0)
             /\ Knows(h, j)' <=> Knows(h, j)
             /\ Going(h, j) /\ j # j0 => Going(h, j)'
             /\ Placing(h, j) => Placing(h, j)'
  <2>1. In(h, j)' <=> In(h, j) \/ (h = g /\ j = j0)
    <3>1. Online(g) /\ (Online(h)' <=> Online(h))
      BY <1>1, <1>4 DEF Online
    <3> QED
      BY <1>4, <3>1 DEF In
  <2> QED
    BY <1>4, <2>1 DEF Going, isAuthority, Online, Placing, Knows, known
<1>6. Free(j0) /\ ~Free(j0)' /\ \A j : j # j0 => (Free(j)' <=> Free(j))
  BY <1>1, <1>2 DEF Uses, Free, Budget
<1>7. HeardOnce(i)'
  BY <1>3, <1>5, GamesAre, HeardOnceStays DEF Agreed
<1>8. CASE j0 \notin Over(i)
  <2>1. SameScenes(i) /\ StillAtIt(i)
    BY <1>5, <1>6, <1>8 DEF SameScenes, StillAtIt
  <2>2. HostOrder(i)'
    BY <1>1, <1>5, <1>8, GamesAre, HostOrderStays DEF Agreed
  <2> QED
    BY <1>3, <1>7, <2>1, <2>2, CalmAgreed
<1>9. CASE j0 \in Over(i)
  <2>1. Placing(g, j0)'
    BY <1>1, <1>2, <1>4 DEF Placing, isAuthority, Online
  <2>2. Places(g, j0, i)
    BY <1>1, <1>3, <1>5, <1>6, <2>1, ReplicationAssumption DEF Places, Over, Above, Exists, In
  <2>3. HostOrder(i)'
    <3> SUFFICES ASSUME NEW j \in Over(i), NEW k \in Over(j) \ {j}, In(Host, j)'
                 PROVE  Leads(spawned'[Host], k, j)
      BY DEF HostOrder, Over, Above
    <3>1. spawned'[Host] = spawned[Host] /\ (In(Host, j) \/ j = j0)
      BY <1>4, <1>5, GamesAre
    <3>2. CASE In(Host, j)
      BY <3>1, <3>2 DEF Agreed, HostOrder
    <3>3. CASE j = j0
      <4>1. Online(Host)
        BY DEF SessionInv, HostSession, Online, hostPeer
      <4> QED
        BY <1>6, <3>1, <3>3, <4>1, GamesAre, OverIs DEF Leads, ToSet, Knows, known, Agreed, Unplaced
    <3> QED
      BY <3>1, <3>2, <3>3
  <2> QED
    BY <1>7, <1>9, <2>2, <2>3, PlaceAgreed
<1> QED
  BY <1>8, <1>9

\* They do when one destroys an instance.
LEMMA DestroyStepAgreed ==
  ASSUME Inv, SessionInv, NEW g \in Games, NEW j0 \in Instances, destroy(g, j0), NEW i \in Instances, Agreed(i)
  PROVE  Agreed(i)'
<1>1. /\ UNCHANGED <<session, wires, spawned, events>> /\ phase' = [phase EXCEPT ![g] = "frame"] /\ events[g] = <<>>
      /\ alive' = [alive EXCEPT ![g] = @ \ ({j0} \cup Below(j0))] /\ Uses("destroys", j0) /\ Online(g)
      /\ isAuthority(g, SpawnerOf[j0])
  BY DEF destroy, Deed, Runs
<1>2. TypeOK /\ phase \in [Games -> {"poll", "frame"}] /\ alive \in [Games -> SUBSET Instances]
  BY DEF Inv, TypeOK
<1>3. /\ SameNews(i) /\ SameReports(i) /\ SameMembers(i)
      /\ \A c \in Clients :
           /\ News(c, i)' = News(c, i) /\ Reports(c, i)' = Reports(c, i)
           /\ (Online(c)' <=> Online(c)) /\ (Newcomer(c)' <=> Newcomer(c)) /\ (c \in Reached' <=> c \in Reached)
           /\ \A j : HearsEarly(c, j)' <=> HearsEarly(c, j)
  BY <1>1, OwnWords
<1>4. \A h \in Games : /\ number'[h] = number[h] /\ authority'[h] = authority[h] /\ events'[h] = events[h]
                       /\ spawned'[h] = spawned[h] /\ (phase[h] = "frame" => phase'[h] = "frame")
                       /\ alive'[h] = IF h = g THEN alive[h] \ ({j0} \cup Below(j0)) ELSE alive[h]
  BY <1>1, <1>2 DEF session
<1>5. ASSUME NEW h \in Games, NEW j \in Instances
      PROVE  /\ In(h, j)' <=> In(h, j) /\ ~(h = g /\ j0 \in Over(j))
             /\ Knows(h, j)' <=> Knows(h, j)
             /\ Going(h, j) => Going(h, j)'
             /\ Placing(h, j) => Placing(h, j)'
  <2>1. In(h, j)' <=> In(h, j) /\ ~(h = g /\ j0 \in Over(j))
    BY <1>4 DEF In, Online, Below, Over, Above
  <2> QED
    BY <1>4, <2>1 DEF Going, isAuthority, Online, Placing, Knows, known
<1>6. \A j : Free(j)' <=> Free(j)
  BY <1>1, <1>2, StillFree
<1>7. Over(i) \subseteq Instances
  BY OverIs
<1>8. HeardOnce(i)'
  BY <1>7, <1>3, <1>5, GamesAre, HeardOnceStays DEF Agreed
<1>9. HostOrder(i)'
  BY <1>7, <1>1, <1>5, GamesAre, HostOrderStays DEF Agreed
<1>10. CASE j0 \notin Over(i)
  <2>1. SameScenes(i) /\ StillAtIt(i)
    BY <1>7, <1>5, <1>6, <1>10, OverIs DEF SameScenes, StillAtIt
  <2> QED
    BY <1>3, <1>8, <1>9, <2>1, CalmAgreed
<1>11. CASE j0 \in Over(i)
  <2>1. Knows(g, j0) => Going(g, j0)'
    BY <1>1, <1>2, <1>4, <1>5, OverIs DEF Going, isAuthority, Online
  <2>2. ASSUME g \in Clients, NEW j \in Over(i), Knows(g, j)
        PROVE  ~Hears(i, g, j)
    <3>1. Authorized(g) /\ g \in Reached
      <4>1. SpawnerOf[j0] \in Owned
        BY ReplicationAssumption DEF Owned
      <4> QED
        BY <1>1, <2>2, <4>1 DEF Authorized, isAuthority, Reached, Peers, SessionInv, Membership
    <3>2. ASSUME HearsEarly(g, j)
          PROVE  ~Hears(i, g, j)
      <4>1. ToSet(Only(Wire(g), About(i))) \subseteq ToSet(Wire(g))
        BY <1>2, <2>2, OnlyIs, WordsTypes
      <4>2. News(g, i) = Only(Wire(g), About(i))
        <5>1. PICK k : k = Only(Wire(g), About(i))
          OBVIOUS
        <5>2. News(g, i) = <<>> \o k
          BY <1>1, <3>1, <5>1, HeardNothing, SilentSays, EmptySeq DEF News, Heard
        <5> QED
          BY <1>2, <2>2, <5>1, <5>2, WordsTypes
      <4> QED
        BY <3>1, <3>2, <4>1, <4>2 DEF Hears, HearsEarly
    <3> QED
      BY <2>2, <3>1, <3>2 DEF HearsOnce, Agreed, HeardOnce
  <2>3. Destroys(g, j0, i)
    BY <1>7, <1>1, <1>3, <1>5, <1>6, <2>1, <2>2 DEF Destroys
  <2> QED
    BY <1>8, <1>9, <1>11, <2>3, DestroyAgreed
<1> QED
  BY <1>10, <1>11

\* They do when the host gives an entity to a game, when it told of everything it had to of it.
LEMMA SetAuthorityAgreed ==
  ASSUME Inv, SessionInv, NEW e \in Owned, NEW peer \in {hostPeer} \cup {client[c] : c \in Peers},
         setAuthority(e, peer), NEW i \in Clear', Agreed(i)
  PROVE  Agreed(i)'
<1>1. PICK packet, r, none : packet = AuthorityPacket(e, peer) /\ r = <<packet>> /\ none = <<>>
  OBVIOUS
<1>2. /\ authority' = [authority EXCEPT ![Host][e] = peer] /\ ToClients(Clients, r, none, {})
      /\ untold' = untold \cup {j \in Instances : SpawnerOf[j] = e /\ (j \in alive[Host]) # (j \in known(Host))}
      /\ UNCHANGED <<number, linked, client, nextPeer, up, scenes, strays, events, wasClient>>
      /\ phase' = [phase EXCEPT ![Host] = "frame"] /\ Uses("grants", e)
  BY <1>1 DEF setAuthority, Deed
<1>3. /\ TypeOK /\ phase \in [Games -> {"poll", "frame"}] /\ authority \in [Games -> [Owned -> Nat]]
      /\ client \in [Clients -> Nat] /\ i \in Instances /\ Host \in Games
  BY GamesAre, ClearNext DEF Inv, TypeOK
<1>4. packet \in Packets /\ packet.kind = "Authority"
  BY <1>1, <1>3 DEF Packets, AuthorityPacket, hostPeer, Peers
<1>5. r \in Seq(Packets) /\ ToSet(r) = {packet} /\ none \in Seq(Packets) /\ ToSet(none) = {}
  BY <1>1, <1>4, OnePacket
<1>6. ASSUME NEW c \in Clients
      PROVE  /\ News(c, i)' = News(c, i) /\ Reports(c, i)' = Reports(c, i)
             /\ (Online(c)' <=> Online(c)) /\ (Newcomer(c)' <=> Newcomer(c)) /\ (c \in Reached' <=> c \in Reached)
             /\ \A j : HearsEarly(c, j) => HearsEarly(c, j)'
  <2>1. (Online(c)' <=> Online(c)) /\ (Newcomer(c)' <=> Newcomer(c)) /\ (c \in Reached' <=> c \in Reached)
    BY <1>2 DEF Online, Newcomer, Reached, Peers
  <2>2. News(c, i)' = News(c, i)
    BY <1>2, <1>3, <1>4, <1>5, <2>1, ToClientsNothing DEF About
  <2>3. ASSUME NEW j, HearsEarly(c, j)
        PROVE  HearsEarly(c, j)'
    <3>1. Wire(c) \in Seq(Packets) /\ Wire(c)' \in {Wire(c), Wire(c) \o r}
      BY <1>2, <1>3, <1>5, ToClientsWires, WordsTypes
    <3>2. Authorized(c)' => Authorized(c)
      BY <1>2, <1>3, <2>1, GamesAre DEF Authorized
    <3>3. spawnMessage(j) \notin ToSet(r) /\ client'[c] = client[c]
      BY <1>2, <1>4, <1>5 DEF spawnMessage
    <3> QED
      BY <1>5, <2>3, <3>1, <3>2, <3>3, StillEarly
  <2> QED
    BY <1>2, <2>1, <2>2, <2>3, ReportsStay
<1>7. ASSUME NEW g \in Games, NEW j
      PROVE  (In(g, j)' <=> In(g, j)) /\ (Knows(g, j)' <=> Knows(g, j))
  BY <1>2, StillScenes DEF scenes
<1>8. ASSUME NEW g \in Games, NEW j \in Over(i)
      PROVE  /\ Going(g, j) => Going(g, j)'
             /\ Placing(g, j) /\ In(g, j) /\ ~Knows(g, j) => Placing(g, j)'
  <2>1. /\ number'[g] = number[g] /\ events'[g] = events[g] /\ alive'[g] = alive[g] /\ spawned'[g] = spawned[g]
        /\ (phase[g] = "frame" => phase'[g] = "frame")
    BY <1>2, <1>3 DEF scenes
  <2>2. CASE g # Host
    BY <1>2, <1>3, <2>1, <2>2, StillDoing
  <2>3. CASE g = Host /\ SpawnerOf[j] # e
    BY <1>2, <1>3, <1>7, <2>1, <2>3 DEF Going, Placing, isAuthority, Online
  <2>4. CASE g = Host /\ SpawnerOf[j] = e
    BY <1>2, <2>4, ClearNext DEF Going, In, Knows, Over
  <2> QED
    BY <2>2, <2>3, <2>4
<1>9. SameNews(i) /\ SameReports(i) /\ SameMembers(i) /\ SameScenes(i) /\ StillAtIt(i)
  BY <1>2, <1>3, <1>6, <1>7, <1>8, StillFree DEF SameNews, SameReports, SameMembers, SameScenes, StillAtIt
<1>10. HeardOnce(i)'
  BY <1>6, <1>7, <1>9, GamesAre, HeardOnceStays DEF Agreed
<1>11. HostOrder(i)'
  BY <1>2, <1>3, <1>7, HostOrderStays DEF Agreed, scenes
<1> QED
  BY <1>3, <1>9, <1>10, <1>11, CalmAgreed

\* Handling an event changes nothing of who is in the session, nor what is to be told elsewhere.
LEMMA HandleAlike ==
  ASSUME TypeOK, NEW g \in Games, Handles(g, "Replication")
  PROVE  /\ \A d \in Clients :
              /\ (Online(d)' <=> Online(d)) /\ (Newcomer(d)' <=> Newcomer(d)) /\ (d \in Reached' <=> d \in Reached)
              /\ (Authorized(d)' <=> Authorized(d)) /\ client'[d] = client[d]
         /\ \A j : (Free(j)' <=> Free(j)) /\ ~Placing(g, j)
         /\ \A h \in Games : \A j :
              /\ h # g /\ alive'[h] = alive[h] /\ spawned'[h] = spawned[h] =>
                   /\ (In(h, j)' <=> In(h, j)) /\ (Knows(h, j)' <=> Knows(h, j))
                   /\ (Going(h, j) => Going(h, j)') /\ (Placing(h, j) => Placing(h, j)')
              /\ (In(h, j)' => In(h, j)) /\ (Knows(h, j) => Knows(h, j)') /\ Going(h, j) => Going(h, j)'
         /\ \A h \in Games : Online(h)' <=> Online(h)
<1>1. /\ \A h \in Games \ {g} : events'[h] = events[h] /\ phase'[h] = phase[h]
      /\ phase'[g] = "frame" /\ events[g] # <<>> /\ UNCHANGED <<session, wasClient, budget>>
      /\ ToSet(events[g]) = {Head(events[g])} \cup ToSet(events'[g]) /\ Head(events[g]).kind = "Replication"
  BY HandlesEvents
<1>2. ASSUME NEW d \in Clients
      PROVE  /\ (Online(d)' <=> Online(d)) /\ (Newcomer(d)' <=> Newcomer(d)) /\ (d \in Reached' <=> d \in Reached)
             /\ (Authorized(d)' <=> Authorized(d)) /\ client'[d] = client[d]
  <2>1. Newcomer(d)' <=> Newcomer(d)
    <3>1. CASE g = Host
      BY <1>1, <3>1 DEF Newcomer, session
    <3>2. CASE g # Host
      BY <1>1, <3>2, GamesAre DEF Newcomer, session
    <3> QED
      BY <3>1, <3>2
  <2> QED
    BY <1>1, <2>1 DEF Online, Reached, Peers, Authorized, session
<1>3. ASSUME NEW j
      PROVE  (Free(j)' <=> Free(j)) /\ ~Placing(g, j)
  BY <1>1 DEF Free, Placing
<1>4. ASSUME NEW h \in Games, NEW j, h # g, alive'[h] = alive[h], spawned'[h] = spawned[h]
      PROVE  /\ (In(h, j)' <=> In(h, j)) /\ (Knows(h, j)' <=> Knows(h, j))
             /\ (Going(h, j) => Going(h, j)') /\ (Placing(h, j) => Placing(h, j)')
  BY <1>1, <1>4, StillScenes, StillDoing DEF session
<1>5. ASSUME NEW h \in Games, NEW j, In(h, j)' => In(h, j), Knows(h, j) => Knows(h, j)', Going(h, j)
      PROVE  Going(h, j)'
  BY <1>1, <1>5 DEF Going, isAuthority, Online, session
<1> QED
  BY <1>1, <1>2, <1>3, <1>4, <1>5 DEF Online, session

\* The games agree when one handles what says nothing of i.
LEMMA HandleCalm ==
  ASSUME TypeOK, NEW g \in Games, Handles(g, "Replication"), NEW i \in Instances, Agreed(i), SameNews(i), SameReports(i),
         \A h \in Games \ {g} : alive'[h] = alive[h] /\ spawned'[h] = spawned[h],
         \A j \in Over(i) : (In(g, j)' <=> In(g, j)) /\ (Knows(g, j)' <=> Knows(g, j)),
         \A c \in Clients, j \in Over(i) : HearsEarly(c, j) => HearsEarly(c, j)', HostOrder(i)'
  PROVE  Agreed(i)'
<1>1. /\ \A d \in Clients :
           (Online(d)' <=> Online(d)) /\ (Newcomer(d)' <=> Newcomer(d)) /\ (d \in Reached' <=> d \in Reached)
      /\ \A j : (Free(j)' <=> Free(j)) /\ ~Placing(g, j)
  BY HandleAlike
<1>2. ASSUME NEW h \in Games, NEW j \in Over(i)
      PROVE  /\ (In(h, j)' <=> In(h, j)) /\ (Knows(h, j)' <=> Knows(h, j))
             /\ (Going(h, j) => Going(h, j)') /\ (Placing(h, j) => Placing(h, j)')
  <2>1. CASE h = g
    BY <1>1, <2>1, HandleAlike
  <2>2. CASE h # g
    BY <2>2, HandleAlike
  <2> QED
    BY <2>1, <2>2
<1> QED
  BY <1>1, <1>2, CalmAgreed, GamesAre, HeardOnceStays DEF SameScenes, StillAtIt, Agreed, SameMembers

\* What the host is still to hear of once an event was handled.
LEMMA HandledReports ==
  ASSUME TypeOK, SessionInv, NEW g \in Games, Handles(g, "Replication"), up' = up, NEW i \in Instances, NEW d \in Clients
  PROVE  LET event == Head(events[g])
         IN IF g = Host /\ event.peer = client[d] /\ event.message \in About(i)
            THEN Reports(d, i) = <<event.message>> \o Reports(d, i)'
            ELSE Reports(d, i)' = Reports(d, i)
<1>1. PICK event : event = Head(events[g])
  OBVIOUS
<1>2. /\ event \in [kind : {"Replication"}, peer : Nat, message : Messages, delivery : Deliveries]
      /\ event.message \in Tidings => event.delivery = "Reliable"
      /\ g = Host => event.peer > hostPeer
  BY <1>1, EventsAre
<1>3. event \in Carries(client[d], i) <=> event.peer = client[d] /\ event.message \in About(i)
  BY <1>2, OverIs DEF Carries, About, Tidings
<1>4. g = Host /\ event.peer = client[d] => client[d] # 0
  BY <1>2 DEF hostPeer
<1>5. Reports(d, i) = IF g = Host /\ client[d] # 0 /\ event \in Carries(client[d], i)
                      THEN <<event.message>> \o Reports(d, i)' ELSE Reports(d, i)'
  BY <1>1, ReportsHandled
<1> QED
  BY <1>1, <1>3, <1>4, <1>5, Zenon

\* Members of the session are connected.
LEMMA OnlineReached ==
  ASSUME SessionInv, NEW c \in Clients, Online(c)
  PROVE  c \in Reached /\ number[c] = client[c]
BY DEF SessionInv, Membership, Reached, Peers

\* What clients are still to hear of once an event was handled that is passed on, or not.
LEMMA HandledNews ==
  ASSUME TypeOK, SessionInv, NEW g \in Games, Handles(g, "Replication"), up' = up, NEW i \in Instances, NEW d \in Clients,
         NEW lost, NEW passed \in BOOLEAN,
         passed => passOn(g, Head(events[g]), lost), ~passed => UNCHANGED wires
  PROVE  LET event == Head(events[g])
         IN /\ g = Host =>
                 News(d, i)' = IF passed /\ event.message \in About(i) /\ client[d] # event.peer /\ d \in Reached
                               THEN News(d, i) \o <<event.message>> ELSE News(d, i)
            /\ g # Host => IF g = d /\ Online(d) /\ event.message \in About(i)
                           THEN News(d, i) = <<event.message>> \o News(d, i)'
                           ELSE News(d, i)' = News(d, i)
            /\ \A j : HearsEarly(d, j) /\ (g # Host \/ ~passed \/ event.message # spawnMessage(j)) => HearsEarly(d, j)'
<1>1. PICK event : event = Head(events[g])
  OBVIOUS
<1>2. /\ event \in [kind : {"Replication"}, peer : Nat, message : Messages, delivery : Deliveries]
      /\ event.message \in Messages /\ event.delivery \in Deliveries
      /\ event.message \in Tidings => event.delivery = "Reliable"
      /\ g # Host => event.peer = hostPeer
  BY <1>1, EventsAre
<1>3. About(i) \subseteq Tidings
  BY OverIs DEF About, Tidings
<1>4. /\ (Online(d)' <=> Online(d)) /\ (d \in Reached' <=> d \in Reached)
      /\ (Authorized(d)' <=> Authorized(d)) /\ client'[d] = client[d]
  BY HandleAlike
<1>5. d # g => events'[d] = events[d]
  BY HandlesEvents, GamesAre
<1>6. CASE g = Host /\ passed
  <2>1. PICK r \in Seq(Packets), u \in Seq(Packets) :
           /\ ToClients(PassedTo(event), r, u, lost)
           /\ r \in {<<>>, <<event.message>>} /\ (event.delivery = "Reliable" => r = <<event.message>>)
    BY <1>1, <1>2, <1>6, PassOnDoes
  <2>2. News(d, i)' = IF d \in PassedTo(event) \cap Reached THEN News(d, i) \o Only(r, About(i)) ELSE News(d, i)
    BY <1>4, <1>5, <1>6, <2>1, GamesAre, ToClientsNews
  <2>3. Wire(d)' \in {Wire(d), Wire(d) \o r}
    BY <2>1, ToClientsWires
  <2>4. ToSet(r) \subseteq {event.message}
    <3>1. PICK one : one = <<event.message>>
      OBVIOUS
    <3> QED
      BY <1>2, <2>1, <3>1, OnePacket
  <2>5. ASSUME NEW j, HearsEarly(d, j), event.message # spawnMessage(j)
        PROVE  HearsEarly(d, j)'
    BY <1>4, <2>3, <2>4, <2>5, StillEarly, WordsTypes
  <2>6. CASE event.message \in About(i)
    <3>1. News(d, i)' = IF client[d] # event.peer /\ d \in Reached THEN News(d, i) \o <<event.message>> ELSE News(d, i)
      BY <1>2, <1>3, <2>1, <2>2, <2>6, OnlyOne DEF PassedTo, Packets
    <3> QED
      BY <1>1, <1>6, <2>5, <2>6, <3>1
  <2>7. CASE event.message \notin About(i)
    <3>1. News(d, i)' = News(d, i)
      BY <1>4, <1>5, <1>6, <2>1, <2>4, <2>7, GamesAre, ToClientsNothing
    <3> QED
      BY <1>1, <1>6, <2>5, <2>7, <3>1
  <2> QED
    BY <2>6, <2>7
<1>7. CASE g # Host \/ ~passed
  <2>1. down' = down
    <3>1. CASE ~passed
      BY <3>1 DEF wires
    <3>2. CASE passed
      BY <1>7, <3>2 DEF passOn, wires
    <3> QED
      BY <3>1, <3>2
  <2>2. Wire(d)' = Wire(d)
    BY <2>1 DEF Wire
  <2>3. ASSUME NEW j, HearsEarly(d, j)
        PROVE  HearsEarly(d, j)'
    BY <1>4, <2>2, <2>3 DEF HearsEarly, Grants
  <2>4. d # g => News(d, i)' = News(d, i)
    BY <1>4, <1>5, <2>2, NewsStay
  <2>5. CASE d = g
    <3>1. CASE Online(d)
      <4>1. event \in Carries(hostPeer, i) <=> event.message \in About(i)
        BY <1>2, <1>3, <2>5, GamesAre DEF Carries
      <4>2. News(d, i) = IF event \in Carries(hostPeer, i)
                         THEN <<event.message>> \o News(d, i)' ELSE News(d, i)'
        BY <1>1, <2>1, <2>5, <3>1, OnlineReached, NewsHandled
      <4>3. g # Host
        BY <2>5, GamesAre
      <4> QED
        BY <1>1, <2>3, <2>5, <3>1, <4>1, <4>2, <4>3, Zenon
    <3>2. CASE ~Online(d)
      BY <1>1, <1>4, <1>7, <2>2, <2>3, <3>2 DEF News
    <3> QED
      BY <3>1, <3>2
  <2> QED
    BY <1>1, <1>7, <2>3, <2>4, <2>5
<1> QED
  BY <1>6, <1>7

\* Which instances a message is about.
LEMMA AboutIs ==
  ASSUME NEW m \in Messages, NEW i \in Instances
  PROVE  /\ m.kind = "Spawn" => /\ m.instance \in Instances /\ m = spawnMessage(m.instance)
                                /\ (m \in About(i) <=> m.instance \in Over(i))
         /\ m.kind = "Despawn" => /\ m.instance \in Instances /\ m = despawnMessage(m.instance)
                                  /\ (m \in About(i) <=> m.instance \in Over(i))
         /\ m.kind = "Values" => m \notin About(i)
BY DEF Messages, About, spawnMessage, despawnMessage

\* The games agree when one handles values.
LEMMA ReceiveValuesAgreed ==
  ASSUME Inv, SessionInv, NEW g \in Games, NEW lost, receiveValues(g, lost), NEW i \in Instances, Agreed(i)
  PROVE  Agreed(i)'
<1>1. PICK event : event = Head(events[g])
  OBVIOUS
<1>2. /\ TypeOK /\ Handles(g, "Replication") /\ event.message.kind = "Values" /\ UNCHANGED <<alive, spawned, history>>
      /\ passOn(g, event, lost) \/ UNCHANGED wires
  BY <1>1 DEF receiveValues, Inv
<1>3. event.message \in Messages /\ event.message \notin About(i) /\ \A j : event.message # spawnMessage(j)
  BY <1>1, <1>2, EventsAre, AboutIs DEF spawnMessage
<1>4. up' = up
  BY <1>2 DEF passOn, wires
<1>5. \A d \in Clients : /\ Reports(d, i)' = Reports(d, i) /\ News(d, i)' = News(d, i)
                         /\ \A j : HearsEarly(d, j) => HearsEarly(d, j)'
  <2> SUFFICES ASSUME NEW d \in Clients
               PROVE  /\ Reports(d, i)' = Reports(d, i) /\ News(d, i)' = News(d, i)
                      /\ \A j : HearsEarly(d, j) => HearsEarly(d, j)'
    OBVIOUS
  <2>1. PICK passed \in BOOLEAN : (passed => passOn(g, event, lost)) /\ (~passed => UNCHANGED wires)
    <3>1. CASE passOn(g, event, lost)
      BY <3>1
    <3>2. CASE UNCHANGED wires
      BY <3>2
    <3> QED
      BY <1>2, <3>1, <3>2
  <2>2. News(d, i)' = News(d, i) /\ \A j : HearsEarly(d, j) => HearsEarly(d, j)'
    BY <1>1, <1>2, <1>3, <1>4, <2>1, HandledNews
  <2> QED
    BY <1>1, <1>2, <1>3, <1>4, <2>2, HandledReports
<1>6. HostOrder(i)'
  BY <1>2, HostOrderStays, HandleAlike, GamesAre DEF Agreed, In
<1> QED
  BY <1>2, <1>5, <1>6, HandleCalm, StillScenes, HandlesEvents DEF SameNews, SameReports, session

\* What the host hears of it hears from a client that decides for it.
LEMMA HostHears ==
  ASSUME Inv, SessionInv, Handles(Host, "Replication"), NEW e \in Owned, mayDecide(Host, Head(events[Host]), e)
  PROVE  /\ \E c \in Peers : Head(events[Host]).peer = client[c]
         /\ ~isAuthority(Host, e) /\ Online(Host)
<1>1. TypeOK /\ Host \in Games
  BY GamesAre DEF Inv
<1>2. Head(events[Host]).peer = authority[Host][e] /\ Head(events[Host]).peer > hostPeer
  BY <1>1, EventsAre DEF mayDecide
<1>3. authority[Host][e] \in {hostPeer} \cup {client[c] : c \in Peers} /\ number[Host] = hostPeer
  BY DEF SessionInv, HostSession
<1> QED
  BY <1>2, <1>3 DEF isAuthority, Online, hostPeer

\* Who is told of what the host passes on for a client.
LEMMA OthersAre ==
  ASSUME SessionInv, NEW c \in Peers, NEW d \in Clients
  PROVE  client[d] = client[c] <=> d = c
BY DEF SessionInv, Membership, Peers

\* One that speaks of something is welcome.
LEMMA SpeakersAre ==
  ASSUME SessionInv, NEW i \in Instances, NEW c \in Clients, Reports(c, i) # <<>>
  PROVE  c \in Reached => Online(c) /\ ~Newcomer(c)
BY DEF SessionInv, Fresh

\* What is on its way next is of its type, too.
LEMMA WordsNext ==
  ASSUME TypeOK', NEW i, NEW c \in Clients
  PROVE  News(c, i)' \in Seq(About(i)) /\ Reports(c, i)' \in Seq(About(i))
<1>1. /\ down'[c]["Reliable"] \in Seq(Packets) /\ up'[c]["Reliable"] \in Seq(Messages)
      /\ \A g \in Games : events'[g] \in Seq(Events)
  BY DEF TypeOK, Deliveries
<1>2. PICK w, u : w = Only(down'[c]["Reliable"], About(i)) /\ u = Only(up'[c]["Reliable"], About(i))
  OBVIOUS
<1>3. w \in Seq(About(i)) /\ u \in Seq(About(i))
  BY <1>1, <1>2, OnlyThem
<1>4. PICK a, b : a = HeardIn(events'[c], hostPeer, i) /\ b = HeardIn(events'[Host], client'[c], i)
  OBVIOUS
<1>5. a \in Seq(About(i)) /\ b \in Seq(About(i)) /\ <<>> \in Seq(About(i))
  BY <1>1, <1>4, HeardIs, GamesAre
<1>6. a \o w \in Seq(About(i)) /\ <<>> \o w \in Seq(About(i)) /\ b \o u \in Seq(About(i))
  BY <1>3, <1>5
<1> QED
  BY <1>2, <1>4, <1>5, <1>6 DEF News, Reports, Heard, Wire

\* What hearing of an instance does to the game that hears it.
LEMMA ReceiveSpawnDoes ==
  ASSUME Inv, SessionInv, NEW g \in Games, receiveSpawn(g), NEW j0, j0 = Head(events[g]).message.instance
  PROVE  /\ Handles(g, "Replication") /\ j0 \in Instances /\ Head(events[g]).message = spawnMessage(j0) /\ up' = up
         /\ \A h \in Games \ {g} : alive'[h] = alive[h] /\ spawned'[h] = spawned[h]
         /\ \E passed \in BOOLEAN :
              /\ passed <=> mayDecide(g, Head(events[g]), SpawnerOf[j0]) /\ Exists(g, SpawnerOf[j0]) /\ j0 \notin known(g)
              /\ \E lost : passed => passOn(g, Head(events[g]), lost)
              /\ ~passed => UNCHANGED wires
              /\ alive'[g] = IF passed THEN alive[g] \cup {j0} ELSE alive[g]
              /\ spawned'[g] = IF passed THEN Append(spawned[g], j0) ELSE spawned[g]
         /\ g = Host /\ ~(mayDecide(g, Head(events[g]), SpawnerOf[j0]) /\ Exists(g, SpawnerOf[j0])) => j0 \in untold'
         /\ ~Online(g) /\ g # Host => j0 \in strays'[g]
<1>1. PICK event, may, exists : /\ event = Head(events[g]) /\ may = mayDecide(g, event, SpawnerOf[j0])
                                /\ exists = Exists(g, SpawnerOf[j0])
  OBVIOUS
<1>2. /\ Handles(g, "Replication") /\ event.message.kind = "Spawn"
      /\ IF may /\ exists /\ j0 \notin known(g)
         THEN /\ alive' = [alive EXCEPT ![g] = @ \cup {j0}]
              /\ spawned' = [spawned EXCEPT ![g] = Append(@, j0)]
              /\ passOn(g, event, {})
         ELSE UNCHANGED <<alive, spawned, wires>>
      /\ untold' = untold \cup (IF g = Host /\ ~(may /\ exists) THEN {j0} ELSE {})
      /\ strays' = IF Online(g) THEN strays ELSE [strays EXCEPT ![g] = @ \cup {j0}]
  BY <1>1, Zenon DEF receiveSpawn
<1>3. /\ TypeOK /\ alive \in [Games -> SUBSET Instances] /\ spawned \in [Games -> Seq(Instances)]
      /\ strays \in [Clients -> SUBSET Instances]
  BY DEF Inv, TypeOK
<1>4. j0 \in Instances /\ event.message = spawnMessage(j0)
  BY <1>1, <1>2, <1>3, EventsAre DEF Messages, spawnMessage
<1>5. up' = up
  BY <1>2 DEF passOn, wires
<1>6. \A h \in Games \ {g} : alive'[h] = alive[h] /\ spawned'[h] = spawned[h]
  BY <1>2, <1>3
<1>7. \E passed \in BOOLEAN :
        /\ passed <=> may /\ exists /\ j0 \notin known(g)
        /\ \E lost : passed => passOn(g, event, lost)
        /\ ~passed => UNCHANGED wires
        /\ alive'[g] = IF passed THEN alive[g] \cup {j0} ELSE alive[g]
        /\ spawned'[g] = IF passed THEN Append(spawned[g], j0) ELSE spawned[g]
  <2>1. CASE may /\ exists /\ j0 \notin known(g)
    <3> WITNESS TRUE \in BOOLEAN
    <3> QED
      BY <1>2, <1>3, <2>1
  <2>2. CASE ~(may /\ exists /\ j0 \notin known(g))
    <3> WITNESS FALSE \in BOOLEAN
    <3> QED
      BY <1>2, <2>2
  <2> QED
    BY <2>1, <2>2
<1>8. g = Host /\ ~(may /\ exists) => j0 \in untold'
  BY <1>2
<1>9. ~Online(g) /\ g # Host => j0 \in strays'[g]
  BY <1>2, <1>3 DEF Games
<1> QED
  BY <1>1, <1>2, <1>4, <1>5, <1>6, <1>7, <1>8, <1>9

\* The games agree when one hears of an instance.
LEMMA ReceiveSpawnAgreed ==
  ASSUME Inv, SessionInv, NEW g \in Games, receiveSpawn(g), NEW i \in Clear', Agreed(i)
  PROVE  Agreed(i)'
<1>1. PICK event, j0 : event = Head(events[g]) /\ j0 = event.message.instance
  OBVIOUS
<1>2. /\ Handles(g, "Replication") /\ j0 \in Instances /\ event.message = spawnMessage(j0) /\ up' = up
      /\ \A h \in Games \ {g} : alive'[h] = alive[h] /\ spawned'[h] = spawned[h]
      /\ g = Host /\ ~(mayDecide(g, event, SpawnerOf[j0]) /\ Exists(g, SpawnerOf[j0])) => j0 \in untold'
      /\ ~Online(g) /\ g # Host => j0 \in strays'[g]
  BY <1>1, ReceiveSpawnDoes
<1>3. PICK passed \in BOOLEAN :
        /\ passed <=> mayDecide(g, event, SpawnerOf[j0]) /\ Exists(g, SpawnerOf[j0]) /\ j0 \notin known(g)
        /\ \E lost : passed => passOn(g, event, lost)
        /\ ~passed => UNCHANGED wires
        /\ alive'[g] = IF passed THEN alive[g] \cup {j0} ELSE alive[g]
        /\ spawned'[g] = IF passed THEN Append(spawned[g], j0) ELSE spawned[g]
  BY <1>1, ReceiveSpawnDoes
<1>4. PICK lost : passed => passOn(g, event, lost)
  BY <1>3
<1>5. TypeOK /\ i \in Instances /\ spawned \in [Games -> Seq(Instances)] /\ spawned[g] \in Seq(Instances)
  BY ClearNext DEF Inv, TypeOK
<1>6. event.message \in Messages /\ (event.message \in About(i) <=> j0 \in Over(i))
      /\ \A j : event.message = spawnMessage(j) <=> j = j0
  <2>1. event.message \in Messages /\ event.message.kind = "Spawn"
    BY <1>1, <1>2, <1>5, EventsAre DEF spawnMessage
  <2> QED
    BY <1>1, <1>2, <1>5, <2>1, AboutIs DEF spawnMessage
<1>7. \A d \in Clients : IF g = Host /\ event.peer = client[d] /\ event.message \in About(i)
                         THEN Reports(d, i) = <<event.message>> \o Reports(d, i)'
                         ELSE Reports(d, i)' = Reports(d, i)
  BY <1>1, <1>2, <1>5, HandledReports
<1>8. \A d \in Clients :
        /\ g = Host =>
             News(d, i)' = IF passed /\ event.message \in About(i) /\ client[d] # event.peer /\ d \in Reached
                           THEN News(d, i) \o <<event.message>> ELSE News(d, i)
        /\ g # Host => IF g = d /\ Online(d) /\ event.message \in About(i)
                       THEN News(d, i) = <<event.message>> \o News(d, i)'
                       ELSE News(d, i)' = News(d, i)
        /\ \A j : HearsEarly(d, j) /\ (g # Host \/ ~passed \/ event.message # spawnMessage(j)) => HearsEarly(d, j)'
  BY <1>1, <1>2, <1>3, <1>4, <1>5, HandledNews
<1>9. (Online(g)' <=> Online(g)) /\ known(g)' = IF passed THEN known(g) \cup {j0} ELSE known(g)
  <2>1. known(g)' = ToSet(spawned'[g])
    BY DEF known
  <2>2. ToSet(Append(spawned[g], j0)) = ToSet(spawned[g]) \cup {j0}
    BY <1>2, <1>5, ToSetAppend
  <2> QED
    BY <1>2, <1>3, <1>5, <2>1, <2>2, HandleAlike DEF known
<1>10. \A j : /\ In(g, j)' <=> In(g, j) \/ (Online(g) /\ passed /\ j = j0)
              /\ Knows(g, j)' <=> Knows(g, j) \/ (Online(g) /\ passed /\ j = j0)
  BY <1>3, <1>9 DEF In, Knows
<1>11. Exists(g, SpawnerOf[j0]) <=> \A k \in Over(j0) \ {j0} : k \in alive[g]
  <2>1. PICK s, k0 : s = SpawnerOf[j0] /\ k0 = Inside[s]
    OBVIOUS
  <2>2. s \in Spawners /\ s \in Owned /\ k0 \in Instances \cup {Root} /\ (k0 # Root => Inside[SpawnerOf[k0]] = Root)
    BY <1>2, <2>1, ReplicationAssumption DEF Owned
  <2>3. k0 # j0 /\ (k0 = Root <=> k0 \notin Instances)
    BY <1>2, <2>1, <2>2, ReplicationAssumption
  <2>4. Over(j0) \ {j0} = {k0} \cap Instances
    BY <1>2, <2>1, <2>3 DEF Over, Above
  <2> QED
    BY <2>1, <2>2, <2>3, <2>4 DEF Exists
<1>12. CASE j0 \notin Over(i)
  <2>1. event.message \notin About(i) /\ \A j \in Over(i) : event.message # spawnMessage(j)
    BY <1>6, <1>12
  <2>2. SameNews(i) /\ SameReports(i) /\ \A d \in Clients, j \in Over(i) : HearsEarly(d, j) => HearsEarly(d, j)'
    BY <1>7, <1>8, <2>1 DEF SameNews, SameReports
  <2>3. \A j \in Over(i) : (In(g, j)' <=> In(g, j)) /\ (Knows(g, j)' <=> Knows(g, j))
    BY <1>10, <1>12
  <2>4. HostOrder(i)'
    <3>1. CASE g # Host
      <4>1. \A j \in Over(i) : In(Host, j)' => In(Host, j)
        BY <1>2, <1>5, <3>1, GamesAre, HandleAlike
      <4> QED
        BY <1>2, <3>1, <4>1, GamesAre, HostOrderStays DEF Agreed
    <3>2. CASE g = Host
      <4> SUFFICES ASSUME NEW j \in Over(i), NEW k \in Over(j) \ {j}, In(Host, j)'
                   PROVE  Leads(spawned'[Host], k, j)
        BY DEF HostOrder, Over, Above
      <4>1. In(Host, j) /\ Leads(spawned[Host], k, j)
        BY <2>3, <3>2 DEF Agreed, HostOrder
      <4>2. j # j0
        BY <1>12
      <4>3. Leads(Append(spawned[Host], j0), k, j)
        BY <1>2, <1>5, <3>2, <4>1, <4>2, AppendLeads
      <4> QED
        BY <1>3, <3>2, <4>1, <4>3
    <3> QED
      BY <3>1, <3>2
  <2> QED
    BY <1>2, <1>5, <2>2, <2>3, <2>4, HandleCalm
<1>13. CASE j0 \in Over(i) /\ g # Host
  <2>1. g \in Clients /\ Online(g) /\ g \in Reached
    BY <1>2, <1>13, ClearNext, OnlineReached DEF Games
  <2>2. passed <=> Welcomed(g, j0)
    <3>1. mayDecide(g, event, SpawnerOf[j0])
      BY <1>13 DEF mayDecide
    <3> QED
      BY <1>3, <1>11, <2>1, <3>1 DEF Welcomed, In, Knows
  <2>3. Listens(g, spawnMessage(j0), i)
    <3>1. News(g, i) = <<spawnMessage(j0)>> \o News(g, i)'
      BY <1>2, <1>6, <1>8, <1>13, <2>1
    <3>2. News(g, i) \in Seq(About(i)) /\ News(g, i)' \in Seq(About(i))
      <4>1. TypeOK'
        BY <1>5, ReceiveSpawnTypes
      <4> QED
        BY <1>5, <2>1, <4>1, WordsTypes, WordsNext
    <3>3. News(g, i) # <<>> /\ Head(News(g, i)) = spawnMessage(j0) /\ Tail(News(g, i)) = News(g, i)'
      <4>1. PICK w \in About(i), s \in Seq(About(i)) : w = spawnMessage(j0) /\ s = News(g, i)'
        BY <1>2, <1>6, <1>13, <3>2
      <4>2. PICK all : all = News(g, i)
        OBVIOUS
      <4>3. all = <<w>> \o s
        BY <3>1, <4>1, <4>2
      <4> QED
        BY <4>1, <4>2, <4>3, OneThen
    <3>4. \A d \in Clients : /\ News(d, i)' = IF d = g THEN Tail(News(g, i)) ELSE News(d, i)
                             /\ Reports(d, i)' = Reports(d, i)
      BY <1>7, <1>8, <1>13, <3>3
    <3>5. \A d \in Clients : \A j : HearsEarly(d, j) => HearsEarly(d, j)'
      BY <1>8, <1>13
    <3> QED
      BY <1>2, <1>5, <2>1, <3>2, <3>3, <3>4, <3>5, HandleAlike DEF Listens
  <2>4. HeardSpawn(g, j0, i)
    <3>1. \A j \in Over(i) : Going(g, j) => Going(g, j)'
      <4> SUFFICES ASSUME NEW j \in Over(i), Going(g, j) PROVE Going(g, j)'
        OBVIOUS
      <4>1. Knows(g, j) /\ ~In(g, j)
        BY DEF Going
      <4>2. ~(passed /\ j = j0)
        BY <2>2, <4>1 DEF Welcomed
      <4> QED
        BY <1>2, <1>5, <1>10, <4>1, <4>2, HandleAlike
    <3> QED
      BY <1>10, <2>1, <2>2, <2>3, <3>1 DEF HeardSpawn
  <2>5. HostOrder(i)'
    <3>1. \A j \in Over(i) : In(Host, j)' => In(Host, j)
      BY <1>2, <1>5, <1>13, GamesAre, HandleAlike
    <3> QED
      BY <1>2, <1>13, <3>1, GamesAre, HostOrderStays DEF Agreed
  <2> QED
    BY <1>5, <1>13, <2>1, <2>4, <2>5, HeardSpawnAgreed
<1>14. CASE j0 \in Over(i) /\ g = Host
  <2>1. mayDecide(Host, event, SpawnerOf[j0]) /\ Exists(Host, SpawnerOf[j0])
    BY <1>2, <1>14, ClearNext
  <2>2. SpawnerOf[j0] \in Owned
    BY <1>2, ReplicationAssumption DEF Owned
  <2>3. /\ \E c \in Peers : event.peer = client[c]
        /\ ~isAuthority(Host, SpawnerOf[j0]) /\ Online(Host)
    BY <1>1, <1>2, <1>14, <2>1, <2>2, HostHears
  <2>4. PICK c \in Peers : event.peer = client[c]
    BY <2>3
  <2>5. c \in Clients
    BY DEF Peers
  <2>6. Reports(c, i) = <<spawnMessage(j0)>> \o Reports(c, i)'
    BY <1>2, <1>6, <1>7, <1>14, <2>4, <2>5
  <2>7. /\ Reports(c, i) \in Seq(About(i)) /\ Reports(c, i) # <<>> /\ Head(Reports(c, i)) = spawnMessage(j0)
        /\ Reports(c, i)' = Tail(Reports(c, i)) /\ Tells(i, c, j0)
    <3>1. TypeOK'
      BY <1>5, ReceiveSpawnTypes
    <3>2. Reports(c, i) \in Seq(About(i)) /\ Reports(c, i)' \in Seq(About(i))
      BY <1>5, <2>5, <3>1, WordsTypes, WordsNext
    <3>3. PICK w \in About(i), s \in Seq(About(i)) : w = spawnMessage(j0) /\ s = Reports(c, i)'
      BY <1>2, <1>6, <1>14, <3>2
    <3>4. PICK all : all = Reports(c, i)
      OBVIOUS
    <3>5. all = <<w>> \o s
      BY <2>6, <3>3, <3>4
    <3>6. all # <<>> /\ Head(all) = w /\ Tail(all) = s /\ ToSet(all) = {w} \cup ToSet(s)
      BY <3>5, OneThen, Zenon
    <3>7. Tells(i, c, j0)
      BY <3>3, <3>4, <3>6 DEF Tells
    <3> QED
      BY <3>2, <3>3, <3>4, <3>6, <3>7
  <2>8. ~Knows(Host, j0) /\ ~In(Host, j0)
    <3>1. j0 \in Over(j0) /\ Host # c
      BY <1>2, <2>5, GamesAre, OverIs
    <3> QED
      BY <1>14, <2>5, <2>7, <3>1, GamesAre DEF Agreed, Reported, Alone
  <2>9. passed
    BY <1>3, <1>14, <2>1, <2>3, <2>8 DEF Knows
  <2>10. \A k \in Over(j0) \ {j0} : In(Host, k)
    BY <1>11, <1>14, <2>1, <2>3 DEF In
  <2>11. Attends(c, spawnMessage(j0), i)
    <3>1. c \in Reached => Online(c) /\ ~Newcomer(c)
      BY <1>5, <2>5, <2>7, SpeakersAre
    <3>2. \A d \in Clients : /\ News(d, i) \in Seq(About(i))
                             /\ News(d, i)' = IF d \in Reached \ {c} THEN News(d, i) \o <<spawnMessage(j0)>> ELSE News(d, i)
                             /\ Reports(d, i)' = IF d = c THEN Tail(Reports(c, i)) ELSE Reports(d, i)
      <4> SUFFICES ASSUME NEW d \in Clients
                   PROVE  /\ News(d, i) \in Seq(About(i))
                          /\ News(d, i)' = IF d \in Reached \ {c} THEN News(d, i) \o <<spawnMessage(j0)>> ELSE News(d, i)
                          /\ Reports(d, i)' = IF d = c THEN Tail(Reports(c, i)) ELSE Reports(d, i)
        OBVIOUS
      <4>1. client[d] = event.peer <=> d = c
        BY <2>4, OthersAre
      <4>2. News(d, i) \in Seq(About(i))
        BY <1>5, WordsTypes
      <4>3. News(d, i)' = IF client[d] # event.peer /\ d \in Reached
                          THEN News(d, i) \o <<event.message>> ELSE News(d, i)
        BY <1>6, <1>8, <1>14, <2>9
      <4>4. Reports(d, i)' = IF d = c THEN Tail(Reports(c, i)) ELSE Reports(d, i)
        BY <1>7, <1>14, <2>7, <4>1
      <4> QED
        BY <1>2, <4>1, <4>2, <4>3, <4>4
    <3>3. \A d \in Clients : Online(d) => d \in Reached
      BY OnlineReached
    <3>4. \A j \in Over(i) : Going(Host, j) => Going(Host, j)'
      <4> SUFFICES ASSUME NEW j \in Over(i), Going(Host, j) PROVE Going(Host, j)'
        OBVIOUS
      <4>1. Knows(Host, j) /\ ~In(Host, j)
        BY DEF Going
      <4>2. j # j0
        BY <2>8, <4>1
      <4> QED
        BY <1>2, <1>5, <1>10, <1>14, <4>1, <4>2, GamesAre, HandleAlike
    <3>5. \A j \in Over(i) : /\ ~Placing(Host, j) /\ (Free(j)' <=> Free(j))
                             /\ \A d \in Clients : HearsEarly(d, j) /\ spawnMessage(j0) # spawnMessage(j) => HearsEarly(d, j)'
                             /\ \A h \in Games \ {Host} : /\ In(h, j)' <=> In(h, j)
                                                          /\ Knows(h, j)' <=> Knows(h, j)
                                                          /\ Going(h, j) => Going(h, j)'
                                                          /\ Placing(h, j) => Placing(h, j)'
      BY <1>2, <1>5, <1>8, <1>14, GamesAre, HandleAlike
    <3>6. \A d \in Clients : /\ (Online(d)' <=> Online(d)) /\ (Newcomer(d)' <=> Newcomer(d))
                             /\ (d \in Reached' <=> d \in Reached)
      BY <1>2, <1>5, HandleAlike
    <3> QED
      BY <2>3, <2>7, <3>1, <3>2, <3>3, <3>4, <3>5, <3>6 DEF Attends
  <2>12. AttendsSpawn(c, j0, i)
    BY <1>10, <1>14, <2>3, <2>9, <2>10, <2>11 DEF AttendsSpawn
  <2>13. HostOrder(i)'
    <3> SUFFICES ASSUME NEW j \in Over(i), NEW k \in Over(j) \ {j}, In(Host, j)'
                 PROVE  Leads(spawned'[Host], k, j)
      BY DEF HostOrder, Over, Above
    <3>1. spawned'[Host] = Append(spawned[Host], j0) /\ spawned[Host] \in Seq(Instances)
      BY <1>3, <1>5, <1>14, <2>9
    <3>2. Leads(spawned[Host], k, j)
      <4>1. CASE j # j0
        BY <1>10, <1>14, <4>1 DEF Agreed, HostOrder
      <4>2. CASE j = j0
        <5>1. j \notin ToSet(spawned[Host])
          BY <2>3, <2>8, <4>2 DEF Knows, known
        <5> QED
          BY <5>1 DEF Leads, ToSet
      <4> QED
        BY <4>1, <4>2
    <3>3. j = j0 => k \in ToSet(spawned[Host])
      <4> SUFFICES ASSUME j = j0, ~Knows(Host, k) PROVE FALSE
        BY DEF Knows, known
      <4>1. In(Host, k) /\ k \in Over(j0)
        BY <2>10
      <4>2. Silence(i, j0)
        BY <1>14, <4>1, GamesAre DEF Agreed, Placed
      <4> QED
        BY <2>5, <2>7, <4>2 DEF Silence
    <3> QED
      BY <1>2, <3>1, <3>2, <3>3, AppendLeads
  <2> QED
    BY <1>5, <1>14, <2>5, <2>12, <2>13, AttendsSpawnAgreed
<1> QED
  BY <1>12, <1>13, <1>14

\* What hearing that an instance is gone does to the game that hears it.
LEMMA ReceiveDespawnDoes ==
  ASSUME Inv, SessionInv, NEW g \in Games, receiveDespawn(g), NEW j0, j0 = Head(events[g]).message.instance
  PROVE  /\ Handles(g, "Replication") /\ j0 \in Instances /\ Head(events[g]).message = despawnMessage(j0) /\ up' = up
         /\ \A h \in Games \ {g} : alive'[h] = alive[h] /\ spawned'[h] = spawned[h]
         /\ \E passed \in BOOLEAN :
              /\ passed <=> mayDecide(g, Head(events[g]), SpawnerOf[j0])
              /\ \E lost : passed => passOn(g, Head(events[g]), lost)
              /\ ~passed => UNCHANGED wires
              /\ alive'[g] = IF passed THEN alive[g] \ ({j0} \cup Below(j0)) ELSE alive[g]
              /\ spawned'[g] = IF passed THEN Only(spawned[g], Instances \ {j0}) ELSE spawned[g]
              /\ ~passed => j0 \in untold'
<1>1. PICK event : event = Head(events[g])
  OBVIOUS
<1>2. /\ Handles(g, "Replication") /\ event.message.kind = "Despawn"
      /\ IF mayDecide(g, event, SpawnerOf[j0])
         THEN /\ alive' = [alive EXCEPT ![g] = @ \ ({j0} \cup Below(j0))]
              /\ Forgets(g, j0) /\ passOn(g, event, {})
         ELSE UNCHANGED <<alive, spawned, tracked, wires>>
      /\ untold' = untold \cup (IF mayDecide(g, event, SpawnerOf[j0]) THEN {} ELSE {j0})
  BY <1>1, Zenon DEF receiveDespawn
<1>3. TypeOK /\ alive \in [Games -> SUBSET Instances] /\ spawned \in [Games -> Seq(Instances)]
  BY DEF Inv, TypeOK
<1>4. j0 \in Instances /\ event.message = despawnMessage(j0)
  BY <1>1, <1>2, <1>3, EventsAre DEF Messages, despawnMessage
<1>5. PICK list : list = Only(spawned[g], Instances \ {j0})
  OBVIOUS
<1>6. mayDecide(g, event, SpawnerOf[j0]) => spawned' = [spawned EXCEPT ![g] = list]
  BY <1>2, <1>5 DEF Forgets
<1>7. \A h \in Games \ {g} : alive'[h] = alive[h] /\ spawned'[h] = spawned[h]
  BY <1>2, <1>3, <1>6
<1>8. \E passed \in BOOLEAN :
         /\ passed <=> mayDecide(g, event, SpawnerOf[j0])
         /\ \E lost : passed => passOn(g, event, lost)
         /\ ~passed => UNCHANGED wires
         /\ alive'[g] = IF passed THEN alive[g] \ ({j0} \cup Below(j0)) ELSE alive[g]
         /\ spawned'[g] = IF passed THEN list ELSE spawned[g]
         /\ ~passed => j0 \in untold'
  <2>1. CASE mayDecide(g, event, SpawnerOf[j0])
    <3> WITNESS TRUE \in BOOLEAN
    <3> QED
      BY <1>2, <1>3, <1>6, <2>1
  <2>2. CASE ~mayDecide(g, event, SpawnerOf[j0])
    <3> WITNESS FALSE \in BOOLEAN
    <3> QED
      BY <1>2, <2>2
  <2> QED
    BY <2>1, <2>2
<1> QED
  BY <1>1, <1>2, <1>4, <1>5, <1>7, <1>8 DEF passOn, wires

\* The games agree when one hears that an instance is gone.
LEMMA ReceiveDespawnAgreed ==
  ASSUME Inv, SessionInv, NEW g \in Games, receiveDespawn(g), NEW i \in Clear', Agreed(i)
  PROVE  Agreed(i)'
<1>1. PICK event, j0 : event = Head(events[g]) /\ j0 = event.message.instance
  OBVIOUS
<1>2. /\ Handles(g, "Replication") /\ j0 \in Instances /\ event.message = despawnMessage(j0) /\ up' = up
      /\ \A h \in Games \ {g} : alive'[h] = alive[h] /\ spawned'[h] = spawned[h]
  BY <1>1, ReceiveDespawnDoes
<1>3. PICK passed \in BOOLEAN :
        /\ passed <=> mayDecide(g, event, SpawnerOf[j0])
        /\ \E lost : passed => passOn(g, event, lost)
        /\ ~passed => UNCHANGED wires
        /\ alive'[g] = IF passed THEN alive[g] \ ({j0} \cup Below(j0)) ELSE alive[g]
        /\ spawned'[g] = IF passed THEN Only(spawned[g], Instances \ {j0}) ELSE spawned[g]
        /\ ~passed => j0 \in untold'
  BY <1>1, ReceiveDespawnDoes
<1>4. PICK lost : passed => passOn(g, event, lost)
  BY <1>3
<1>5. TypeOK /\ i \in Instances /\ spawned \in [Games -> Seq(Instances)] /\ spawned[g] \in Seq(Instances)
  BY ClearNext DEF Inv, TypeOK
<1>6. event.message \in Messages /\ (event.message \in About(i) <=> j0 \in Over(i))
      /\ \A j : event.message # spawnMessage(j)
  <2>1. event.message \in Messages /\ event.message.kind = "Despawn"
    BY <1>1, <1>2, <1>5, EventsAre DEF despawnMessage
  <2> QED
    BY <1>1, <1>2, <1>5, <2>1, AboutIs DEF spawnMessage, despawnMessage
<1>7. \A d \in Clients : IF g = Host /\ event.peer = client[d] /\ event.message \in About(i)
                         THEN Reports(d, i) = <<event.message>> \o Reports(d, i)'
                         ELSE Reports(d, i)' = Reports(d, i)
  BY <1>1, <1>2, <1>5, HandledReports
<1>8. \A d \in Clients :
        /\ g = Host =>
             News(d, i)' = IF passed /\ event.message \in About(i) /\ client[d] # event.peer /\ d \in Reached
                           THEN News(d, i) \o <<event.message>> ELSE News(d, i)
        /\ g # Host => IF g = d /\ Online(d) /\ event.message \in About(i)
                       THEN News(d, i) = <<event.message>> \o News(d, i)'
                       ELSE News(d, i)' = News(d, i)
        /\ \A j : HearsEarly(d, j) /\ (g # Host \/ ~passed \/ event.message # spawnMessage(j)) => HearsEarly(d, j)'
  BY <1>1, <1>2, <1>3, <1>4, <1>5, HandledNews
<1>9. (Online(g)' <=> Online(g)) /\ known(g)' = IF passed THEN known(g) \ {j0} ELSE known(g)
  <2>1. known(g)' = ToSet(spawned'[g])
    BY DEF known
  <2>2. ToSet(Only(spawned[g], Instances \ {j0})) = known(g) \cap (Instances \ {j0})
    BY <1>5, OnlyIs DEF known
  <2>3. known(g) \subseteq Instances
    BY <1>5, ToSetOfSeq DEF known
  <2> QED
    BY <1>2, <1>3, <1>5, <2>1, <2>2, <2>3, HandleAlike DEF known
<1>10. \A j \in Over(i) : /\ In(g, j)' <=> In(g, j) /\ ~(passed /\ j0 \in Over(j))
                          /\ Knows(g, j)' <=> Knows(g, j) /\ ~(passed /\ j = j0)
  <2> SUFFICES ASSUME NEW j \in Over(i)
               PROVE  /\ In(g, j)' <=> In(g, j) /\ ~(passed /\ j0 \in Over(j))
                      /\ Knows(g, j)' <=> Knows(g, j) /\ ~(passed /\ j = j0)
    BY DEF Over, Above
  <2>1. j \in {j0} \cup Below(j0) <=> j0 \in Over(j)
    <3>1. j \in Instances
      BY <1>5, OverIs
    <3> QED
      BY <1>2, <3>1 DEF Below, Over, Above
  <2>2. In(g, j)' <=> In(g, j) /\ ~(passed /\ j0 \in Over(j))
    BY <1>3, <1>9, <2>1 DEF In
  <2>3. Knows(g, j)' <=> Knows(g, j) /\ ~(passed /\ j = j0)
    BY <1>9 DEF Knows
  <2> QED
    BY <2>2, <2>3
<1>11. HostOrder(i)'
  <2> SUFFICES ASSUME NEW j \in Over(i), NEW k \in Over(j) \ {j}, In(Host, j)'
               PROVE  Leads(spawned'[Host], k, j)
    BY DEF HostOrder, Over, Above
  <2>1. CASE g # Host
    <3>1. In(Host, j)
      BY <1>2, <1>5, <2>1, GamesAre, HandleAlike
    <3> QED
      BY <1>2, <2>1, <3>1, GamesAre DEF Agreed, HostOrder
  <2>2. CASE g = Host
    <3>1. In(Host, j) /\ ~(passed /\ j0 \in Over(j))
      BY <1>10, <2>2
    <3>2. Leads(spawned[Host], k, j)
      BY <3>1 DEF Agreed, HostOrder
    <3>3. CASE passed
      <4>1. k \in Instances \ {j0}
        BY <3>1, <3>3 DEF Over
      <4>2. OrderKept(spawned[Host], Instances \ {j0}, {}, k, j)
        BY <1>5, <2>2, OnlyOrder
      <4>3. Leads(Only(spawned[Host], Instances \ {j0}), k, j)
        BY <3>2, <4>1, <4>2 DEF OrderKept
      <4> QED
        BY <1>3, <2>2, <3>3, <4>3
    <3>4. CASE ~passed
      BY <1>3, <2>2, <3>2, <3>4
    <3> QED
      BY <3>3, <3>4
  <2> QED
    BY <2>1, <2>2
<1>12. CASE j0 \notin Over(i) \/ (g # Host /\ ~Online(g))
  <2>1. SameNews(i) /\ SameReports(i) /\ \A d \in Clients, j \in Over(i) : HearsEarly(d, j) => HearsEarly(d, j)'
    <3>1. SameNews(i)
      BY <1>6, <1>8, <1>12 DEF SameNews
    <3>2. SameReports(i)
      BY <1>6, <1>7, <1>12 DEF SameReports
    <3> QED
      BY <1>6, <1>8, <3>1, <3>2
  <2>2. \A j \in Over(i) : (In(g, j)' <=> In(g, j)) /\ (Knows(g, j)' <=> Knows(g, j))
    <3>1. \A j \in Over(i) : j0 \notin Over(i) => j0 \notin Over(j) /\ j # j0
      BY <1>5, OverIs
    <3>2. \A j : ~Online(g) => ~In(g, j) /\ ~Knows(g, j)
      BY DEF In, Knows
    <3> QED
      BY <1>10, <1>12, <3>1, <3>2
  <2> QED
    BY <1>2, <1>5, <1>11, <2>1, <2>2, HandleCalm
<1>13. CASE j0 \in Over(i) /\ g # Host /\ Online(g)
  <2>1. g \in Clients /\ g \in Reached
    BY <1>13, OnlineReached DEF Games
  <2>2. passed
    BY <1>3, <1>13 DEF mayDecide
  <2>3. Listens(g, despawnMessage(j0), i)
    <3>1. News(g, i) = <<despawnMessage(j0)>> \o News(g, i)'
      BY <1>2, <1>6, <1>8, <1>13, <2>1
    <3>2. News(g, i) \in Seq(About(i)) /\ News(g, i)' \in Seq(About(i))
      <4>1. TypeOK'
        BY <1>5, ReceiveDespawnTypes
      <4> QED
        BY <1>5, <2>1, <4>1, WordsTypes, WordsNext
    <3>3. News(g, i) # <<>> /\ Head(News(g, i)) = despawnMessage(j0) /\ Tail(News(g, i)) = News(g, i)'
      <4>1. PICK w \in About(i), s \in Seq(About(i)) : w = despawnMessage(j0) /\ s = News(g, i)'
        BY <1>2, <1>6, <1>13, <3>2
      <4>2. PICK all : all = News(g, i)
        OBVIOUS
      <4>3. all = <<w>> \o s
        BY <3>1, <4>1, <4>2
      <4> QED
        BY <4>1, <4>2, <4>3, OneThen
    <3>4. \A d \in Clients : /\ News(d, i)' = IF d = g THEN Tail(News(g, i)) ELSE News(d, i)
                             /\ Reports(d, i)' = Reports(d, i)
      BY <1>7, <1>8, <1>13, <3>3
    <3>5. \A d \in Clients : \A j : HearsEarly(d, j) => HearsEarly(d, j)'
      BY <1>8, <1>13
    <3> QED
      BY <1>2, <1>5, <1>13, <2>1, <3>2, <3>3, <3>4, <3>5, HandleAlike DEF Listens
  <2>4. HeardGone(g, j0, i)
    <3>1. \A j \in Over(i) : Going(g, j) /\ j # j0 => Going(g, j)'
      <4> SUFFICES ASSUME NEW j \in Over(i), Going(g, j), j # j0 PROVE Going(g, j)'
        OBVIOUS
      <4>1. Knows(g, j) /\ ~In(g, j)
        BY DEF Going
      <4> QED
        BY <1>2, <1>5, <1>10, <4>1, HandleAlike
    <3> QED
      BY <1>10, <2>2, <2>3, <3>1 DEF HeardGone
  <2> QED
    BY <1>5, <1>11, <1>13, <2>1, <2>4, HeardGoneAgreed
<1>14. CASE j0 \in Over(i) /\ g = Host
  <2>1. passed /\ mayDecide(Host, event, SpawnerOf[j0])
    BY <1>3, <1>14, ClearNext
  <2>2. SpawnerOf[j0] \in Owned
    BY <1>2, ReplicationAssumption DEF Owned
  <2>3. /\ \E c \in Peers : event.peer = client[c]
        /\ ~isAuthority(Host, SpawnerOf[j0]) /\ Online(Host)
    BY <1>1, <1>2, <1>14, <2>1, <2>2, HostHears
  <2>4. PICK c \in Peers : event.peer = client[c]
    BY <2>3
  <2>5. c \in Clients
    BY DEF Peers
  <2>6. Reports(c, i) = <<despawnMessage(j0)>> \o Reports(c, i)'
    BY <1>2, <1>6, <1>7, <1>14, <2>4, <2>5
  <2>7. /\ Reports(c, i) \in Seq(About(i)) /\ Reports(c, i) # <<>> /\ Head(Reports(c, i)) = despawnMessage(j0)
        /\ Reports(c, i)' = Tail(Reports(c, i))
    <3>1. TypeOK'
      BY <1>5, ReceiveDespawnTypes
    <3>2. Reports(c, i) \in Seq(About(i)) /\ Reports(c, i)' \in Seq(About(i))
      BY <1>5, <2>5, <3>1, WordsTypes, WordsNext
    <3>3. PICK w \in About(i), s \in Seq(About(i)) : w = despawnMessage(j0) /\ s = Reports(c, i)'
      BY <1>2, <1>6, <1>14, <3>2
    <3>4. PICK all : all = Reports(c, i)
      OBVIOUS
    <3>5. all = <<w>> \o s
      BY <2>6, <3>3, <3>4
    <3>6. all # <<>> /\ Head(all) = w /\ Tail(all) = s
      BY <3>5, OneThen
    <3> QED
      BY <3>2, <3>3, <3>4, <3>6
  <2>8. ~Going(Host, j0)
    BY <2>3 DEF Going
  <2>9. \A j \in Over(i) : Going(Host, j) => Going(Host, j)'
    <3> SUFFICES ASSUME NEW j \in Over(i), Going(Host, j) PROVE Going(Host, j)'
      OBVIOUS
    <3>1. Knows(Host, j) /\ ~In(Host, j) /\ j # j0
      BY <2>8 DEF Going
    <3> QED
      BY <1>2, <1>5, <1>10, <1>14, <3>1, GamesAre, HandleAlike
  <2>10. Attends(c, despawnMessage(j0), i)
    <3>1. c \in Reached => Online(c) /\ ~Newcomer(c)
      BY <1>5, <2>5, <2>7, SpeakersAre
    <3>2. \A d \in Clients : /\ News(d, i) \in Seq(About(i))
                             /\ News(d, i)' = IF d \in Reached \ {c} THEN News(d, i) \o <<despawnMessage(j0)>> ELSE News(d, i)
                             /\ Reports(d, i)' = IF d = c THEN Tail(Reports(c, i)) ELSE Reports(d, i)
      <4> SUFFICES ASSUME NEW d \in Clients
                   PROVE  /\ News(d, i) \in Seq(About(i))
                          /\ News(d, i)' = IF d \in Reached \ {c} THEN News(d, i) \o <<despawnMessage(j0)>> ELSE News(d, i)
                          /\ Reports(d, i)' = IF d = c THEN Tail(Reports(c, i)) ELSE Reports(d, i)
        OBVIOUS
      <4>1. client[d] = event.peer <=> d = c
        BY <2>4, OthersAre
      <4>2. News(d, i) \in Seq(About(i))
        BY <1>5, WordsTypes
      <4>3. News(d, i)' = IF client[d] # event.peer /\ d \in Reached
                          THEN News(d, i) \o <<event.message>> ELSE News(d, i)
        BY <1>6, <1>8, <1>14, <2>1
      <4>4. Reports(d, i)' = IF d = c THEN Tail(Reports(c, i)) ELSE Reports(d, i)
        BY <1>7, <1>14, <2>7, <4>1
      <4> QED
        BY <1>2, <4>1, <4>2, <4>3, <4>4
    <3>3. \A d \in Clients : Online(d) => d \in Reached
      BY OnlineReached
    <3>4. \A j \in Over(i) : /\ ~Placing(Host, j) /\ (Free(j)' <=> Free(j))
                             /\ \A d \in Clients : HearsEarly(d, j) => HearsEarly(d, j)'
                             /\ \A h \in Games \ {Host} : /\ In(h, j)' <=> In(h, j)
                                                          /\ Knows(h, j)' <=> Knows(h, j)
                                                          /\ Going(h, j) => Going(h, j)'
                                                          /\ Placing(h, j) => Placing(h, j)'
      BY <1>2, <1>5, <1>6, <1>8, <1>14, GamesAre, HandleAlike
    <3>5. \A d \in Clients : /\ (Online(d)' <=> Online(d)) /\ (Newcomer(d)' <=> Newcomer(d))
                             /\ (d \in Reached' <=> d \in Reached)
      BY <1>2, <1>5, HandleAlike
    <3> QED
      BY <2>3, <2>7, <2>9, <3>1, <3>2, <3>3, <3>4, <3>5 DEF Attends
  <2>11. AttendsGone(c, j0, i)
    BY <1>10, <1>14, <2>1, <2>8, <2>9, <2>10 DEF AttendsGone
  <2> QED
    BY <1>5, <1>11, <1>14, <2>5, <2>11, AttendsGoneAgreed
<1> QED
  BY <1>12, <1>13, <1>14

\* What the host tells a newcomer of i: what it has, and knows of, each after what it is in.
LEMMA WelcomeTells ==
  ASSUME TypeOK, NEW i \in Instances, Online(Host), HostOrder(i), NEW vs \in Seq(ValuesMessages), NEW r,
         r = SpawnsOf(Only(spawned[Host], alive[Host])) \o vs, NEW X, X = Only(r, About(i))
  PROVE  /\ r \in Seq(Messages) /\ X \in Seq(About(i))
         /\ \A j \in Over(i) :
              /\ spawnMessage(j) \in ToSet(X) <=> In(Host, j) /\ Knows(Host, j)
              /\ despawnMessage(j) \notin ToSet(X)
              /\ \A k \in Over(j) \ {j} :
                   {spawnMessage(j), spawnMessage(k)} \subseteq ToSet(X) => After(X, spawnMessage(k), spawnMessage(j))
<1>1. PICK there, all : there = Only(spawned[Host], alive[Host]) /\ all = SpawnsOf(there)
  OBVIOUS
<1>2. spawned[Host] \in Seq(Instances)
  BY GamesAre DEF TypeOK
<1>3. there \in Seq(Instances) /\ ToSet(there) = known(Host) \cap alive[Host]
  BY <1>1, <1>2, OnlyIs DEF known
<1>4. /\ all \in Seq(Messages)
      /\ \A j : spawnMessage(j) \in ToSet(all) <=> j \in ToSet(there)
      /\ \A j : despawnMessage(j) \notin ToSet(all)
      /\ \A j, k : Leads(there, k, j) => Leads(all, spawnMessage(k), spawnMessage(j))
  BY <1>1, <1>3, SpawnsOfAre
<1>5. vs \in Seq(Messages) /\ \A j : spawnMessage(j) \notin ToSet(vs) /\ despawnMessage(j) \notin ToSet(vs)
  BY ValuesSayNothing
<1>6. r = all \o vs
  BY <1>1
<1>7. r \in Seq(Messages) /\ ToSet(r) = ToSet(all) \cup ToSet(vs)
  BY <1>4, <1>5, <1>6, ToSetConcat
<1>8. /\ X \in Seq(About(i))
      /\ \A j \in Over(i) : /\ spawnMessage(j) \in ToSet(X) <=> spawnMessage(j) \in ToSet(r)
                            /\ despawnMessage(j) \in ToSet(X) <=> despawnMessage(j) \in ToSet(r)
      /\ \A j \in Over(i) : \A b : Leads(r, spawnMessage(j), b) => Leads(X, spawnMessage(j), b)
  <2>1. PICK q \in Seq(Messages) : q = r
    BY <1>7
  <2>2. X = Only(q, About(i))
    BY <2>1
  <2>3. /\ X \in Seq(About(i))
        /\ \A j \in Over(i) : /\ spawnMessage(j) \in ToSet(X) <=> spawnMessage(j) \in ToSet(q)
                              /\ despawnMessage(j) \in ToSet(X) <=> despawnMessage(j) \in ToSet(q)
        /\ \A j \in Over(i) : \A b : Leads(q, spawnMessage(j), b) => Leads(X, spawnMessage(j), b)
    BY <2>2, OnlyAbout
  <2> QED
    BY <2>1, <2>3
<1>9. ASSUME NEW j \in Over(i), NEW k \in Over(j) \ {j}, spawnMessage(j) \in ToSet(X), spawnMessage(k) \in ToSet(X)
      PROVE  After(X, spawnMessage(k), spawnMessage(j))
  <2>1. k \in Over(i)
    BY OverIs
  <2>2. j \in ToSet(there) /\ k \in ToSet(there)
    BY <1>4, <1>5, <1>7, <1>8, <1>9, <2>1
  <2>3. Leads(there, k, j)
    BY <1>1, <1>2, <1>3, <2>2, OnlyOrder DEF OrderKept, HostOrder, In
  <2>4. Leads(r, spawnMessage(k), spawnMessage(j))
    BY <1>4, <1>5, <1>6, <2>3, LeadsConcat
  <2> QED
    BY <1>8, <1>9, <2>1, <2>4, AfterHas
<1> QED
  BY <1>3, <1>4, <1>5, <1>7, <1>8, <1>9 DEF In, Knows

\* The games agree when the host tells a newcomer of what there is.
LEMMA WelcomeAgreed ==
  ASSUME Inv, SessionInv, welcome, NEW i \in Instances, Agreed(i)
  PROVE  Agreed(i)'
<1>1. PICK peer, to : peer = Head(events[Host]).peer /\ to = {c \in Clients : client[c] = peer}
  OBVIOUS
<1>2. /\ TypeOK /\ Handles(Host, "PeerJoined") /\ UNCHANGED <<up, alive, spawned, history>> /\ Host \in Games
  BY GamesAre DEF Inv, welcome
<1>3. PICK vs \in Seq(ValuesMessages), none \in {<<>>} :
        none = <<>> /\ ToClients(to, SpawnsOf(Only(spawned[Host], alive[Host])) \o vs, none, {})
  BY <1>1, <1>2, WelcomeSays
<1>4. PICK r, X : r = SpawnsOf(Only(spawned[Host], alive[Host])) \o vs /\ X = Only(r, About(i))
  OBVIOUS
<1>5. ToClients(to, r, none, {})
  BY <1>3, <1>4
<1>6. Online(Host)
  BY DEF SessionInv, HostSession, Online, hostPeer
<1>7. /\ r \in Seq(Messages) /\ X \in Seq(About(i))
      /\ \A j \in Over(i) :
           /\ spawnMessage(j) \in ToSet(X) <=> In(Host, j) /\ Knows(Host, j)
           /\ despawnMessage(j) \notin ToSet(X)
           /\ \A k \in Over(j) \ {j} :
                {spawnMessage(j), spawnMessage(k)} \subseteq ToSet(X) => After(X, spawnMessage(k), spawnMessage(j))
  BY <1>2, <1>4, <1>6, WelcomeTells DEF Agreed
<1>8. r \in Seq(Packets) /\ (\A p \in ToSet(r) : p.kind \notin {"Welcome", "Authority"}) /\ none \in Seq(Packets)
  BY <1>3, <1>7, MessagesOnly, SilentSays
<1>9. /\ \A h \in Games \ {Host} : events'[h] = events[h] /\ phase'[h] = phase[h]
      /\ phase'[Host] = "frame" /\ events[Host] # <<>> /\ UNCHANGED <<session, wasClient, budget>>
      /\ ToSet(events[Host]) = {Head(events[Host])} \cup ToSet(events'[Host])
      /\ Head(events[Host]) \in Events /\ Head(events[Host]).kind = "PeerJoined" /\ Head(events[Host]) \in ToSet(events[Host])
  BY <1>2, HandlesEvents
<1>10. Head(events[Host]) = [kind |-> "PeerJoined", peer |-> peer] /\ peer > hostPeer
  BY <1>1, <1>9 DEF SessionInv, HostSession, Events
<1>11. ASSUME NEW d \in Clients
       PROVE  /\ (Online(d)' <=> Online(d)) /\ (d \in Reached' <=> d \in Reached)
              /\ (Authorized(d)' <=> Authorized(d)) /\ client'[d] = client[d]
              /\ (Newcomer(d)' => Newcomer(d)) /\ (Newcomer(d) /\ client[d] # peer => Newcomer(d)')
              /\ News(d, i)' = IF d \in to /\ d \in Reached THEN News(d, i) \o X ELSE News(d, i)
              /\ Reports(d, i)' = Reports(d, i)
              /\ News(d, i) \in Seq(About(i))
  <2>1. /\ (Online(d)' <=> Online(d)) /\ (d \in Reached' <=> d \in Reached)
        /\ (Authorized(d)' <=> Authorized(d)) /\ client'[d] = client[d]
    BY <1>9 DEF Online, Reached, Peers, Authorized, session
  <2>2. (Newcomer(d)' => Newcomer(d)) /\ (Newcomer(d) /\ client[d] # peer => Newcomer(d)')
    BY <1>9, <1>10, <2>1 DEF Newcomer
  <2>3. events'[d] = events[d]
    BY <1>9, GamesAre
  <2>4. News(d, i)' = IF d \in to \cap Reached THEN News(d, i) \o Only(r, About(i)) ELSE News(d, i)
    BY <1>2, <1>5, <1>8, <2>1, <2>3, ToClientsNews
  <2>5. Reports(d, i) = IF Host = Host /\ client[d] # 0 /\ Head(events[Host]) \in Carries(client[d], i)
                        THEN <<Head(events[Host]).message>> \o Reports(d, i)' ELSE Reports(d, i)'
    BY <1>2, ReportsHandled
  <2>6. Head(events[Host]) \notin Carries(client[d], i)
    BY <1>9 DEF Carries
  <2>7. News(d, i) \in Seq(About(i))
    BY <1>2, WordsTypes
  <2> QED
    BY <1>4, <2>1, <2>2, <2>4, <2>5, <2>6, <2>7
<1>12. ASSUME NEW h \in Games, NEW j
       PROVE  /\ In(h, j)' <=> In(h, j)
              /\ Knows(h, j)' <=> Knows(h, j)
              /\ Going(h, j) => Going(h, j)'
              /\ h # Host /\ Placing(h, j) => Placing(h, j)'
  BY <1>2, <1>9, StillScenes, StillDoing DEF session
<1>13. \A j : (Free(j)' <=> Free(j)) /\ ~Placing(Host, j)
  BY <1>9 DEF Free, Placing
<1>14. HostOrder(i)'
  BY <1>2, <1>12, HostOrderStays DEF Agreed
<1>15. ASSUME NEW d \in Clients, d \notin to, NEW j, HearsEarly(d, j)
       PROVE  HearsEarly(d, j)'
  <2>1. Wire(d)' = Wire(d)
    BY <1>2, <1>5, <1>8, <1>15, ToClientsWires
  <2> QED
    BY <1>11, <1>15, <2>1 DEF HearsEarly, Grants
<1>16. CASE to = {}
  <2>1. SameNews(i) /\ SameReports(i) /\ SameMembers(i) /\ SameScenes(i)
    BY <1>1, <1>11, <1>12, <1>13, <1>16 DEF SameScenes, SameNews, SameReports, SameMembers
  <2>2. HeardOnce(i)'
    BY <1>11, <1>12, <1>15, <1>16, <2>1, GamesAre, HeardOnceStays DEF Agreed
  <2> QED
    BY <1>12, <1>13, <1>14, <2>1, <2>2, CalmAgreed DEF StillAtIt
<1>17. CASE to # {}
  <2>1. PICK c \in Clients : client[c] = peer /\ c \in to
    BY <1>1, <1>17
  <2>2. c \in Peers /\ \A d \in Clients : d \in to <=> d = c
    BY <1>1, <1>10, <2>1, OthersAre DEF Peers, hostPeer
  <2>3. Newcomer(c)
    BY <1>9, <1>10, <2>1 DEF Newcomer
  <2>4. ASSUME c \in Reached, NEW j \in Over(i)
        PROVE  Reports(c, i) = <<>> /\ ~Going(c, j) /\ HearsEarly(c, j)'
    <3>1. ~Authorized(c) /\ ToSet(Wire(c)) \cap Grants(c) = {} /\ Reports(c, i) = <<>>
      BY <2>3, <2>4 DEF SessionInv, Fresh
    <3>2. ~Going(c, j)
      <4> SUFFICES ASSUME Going(c, j) PROVE FALSE
        OBVIOUS
      <4> QED
        BY <3>1, OnlineReached, OverIs, ReplicationAssumption DEF Authorized, Owned, Going, Knows, isAuthority
    <3>3. HearsEarly(c, j)'
      <4>1. Wire(c) \in Seq(Packets) /\ Wire(c)' = Wire(c) \o r
        BY <1>2, <1>5, <1>8, <2>1, <2>4, ToClientsWires, WordsTypes
      <4>2. PICK all : all = Wire(c)'
        OBVIOUS
      <4>3. all \in Seq(Packets) /\ ToSet(all) = ToSet(Wire(c)) \cup ToSet(r)
        BY <1>8, <4>1, <4>2, ToSetConcat
      <4> QED
        BY <1>8, <1>11, <3>1, <4>2, <4>3, NeverNone DEF HearsEarly, Grants, AuthorityPacket
    <3> QED
      BY <3>1, <3>2, <3>3
  <2>5. Greets(c, X, i)
    <3>1. \A d \in Clients : d # c => client[d] # peer
      BY <2>1, <2>2, OthersAre
    <3>2. \A j \in Over(i) :
            /\ Free(j)' <=> Free(j)
            /\ ~Placing(Host, j)
            /\ \A d \in Clients \ {c} : HearsEarly(d, j) => HearsEarly(d, j)'
            /\ \A h \in Games :
                 /\ In(h, j)' <=> In(h, j)
                 /\ Knows(h, j)' <=> Knows(h, j)
                 /\ Going(h, j) => Going(h, j)'
                 /\ h # Host /\ Placing(h, j) => Placing(h, j)'
      BY <1>12, <1>13, <1>15, <2>2
    <3>3. c \in Reached => /\ Newcomer(c) /\ Reports(c, i) = <<>>
                           /\ \A j \in Over(i) : ~Going(c, j) /\ HearsEarly(c, j)'
      BY <2>3, <2>4, OverIs
    <3> QED
      BY <1>7, <1>11, <2>2, <3>1, <3>2, <3>3 DEF Greets
  <2> QED
    BY <1>14, <2>5, GreetAgreed
<1> QED
  BY <1>16, <1>17

\* Game g says r, of which X is about i, to client c or as client c.
Says(g, r, X, i, c) ==
  /\ News(c, i)' = IF g = Host /\ c \in Reached THEN News(c, i) \o X ELSE News(c, i)
  /\ Reports(c, i)' = IF g = c THEN Reports(c, i) \o X ELSE Reports(c, i)
  /\ (Online(c)' <=> Online(c)) /\ (Newcomer(c)' <=> Newcomer(c)) /\ (c \in Reached' <=> c \in Reached)
  /\ \A j : HearsEarly(c, j) /\ (g # Host \/ spawnMessage(j) \notin ToSet(r)) => HearsEarly(c, j)'

\* What sending does to what is on its way.
LEMMA SendWords ==
  ASSUME Inv, SessionInv, NEW g \in Games, NEW due \in SUBSET Synced, NEW lost, send(g, due, lost), Online(g),
         NEW vs \in Seq(ValuesMessages), NEW us \in Seq(ValuesMessages), NEW r, r = Letters(g, vs),
         SendsEveryone(g, r, us, lost), NEW i, NEW X, X = Only(r, About(i)), NEW c \in Clients
  PROVE  Says(g, r, X, i, c)
<1>1. TypeOK /\ UNCHANGED <<session, events>>
  BY DEF Inv, send
<1>2. /\ (Online(c)' <=> Online(c)) /\ (Newcomer(c)' <=> Newcomer(c)) /\ (c \in Reached' <=> c \in Reached)
      /\ client' = client /\ events' = events /\ (Authorized(c)' <=> Authorized(c))
  BY <1>1 DEF Online, Newcomer, Reached, Peers, Authorized, session
<1>3. PICK q \in Seq(Messages) : q = r
  BY <1>1, LettersAre
<1>4. q \in Seq(Packets) /\ X = Only(q, About(i)) /\ SendsEveryone(g, q, us, lost)
  BY <1>3, MessagesOnly
<1>5. us \in Seq(Messages) /\ us \in Seq(Packets)
  BY ValuesSayNothing
<1>6. CASE g = Host
  <2>1. ToClients(Clients, q, us, lost) /\ up' = up
    BY <1>4, <1>6 DEF SendsEveryone
  <2>2. News(c, i)' = IF c \in Clients \cap Reached THEN News(c, i) \o Only(q, About(i)) ELSE News(c, i)
    <3>1. PICK w \in Seq(Packets), u \in Seq(Packets), to \in {Clients} : w = q /\ u = us /\ to = Clients
      BY <1>4, <1>5
    <3>2. ToClients(to, w, u, lost) /\ events'[c] = events[c]
      BY <1>2, <2>1, <3>1
    <3>3. News(c, i)' = IF c \in to \cap Reached THEN News(c, i) \o Only(w, About(i)) ELSE News(c, i)
      BY <1>1, <1>2, <3>2, ToClientsNews
    <3> QED
      BY <3>1, <3>3
  <2>3. Reports(c, i)' = Reports(c, i)
    BY <1>2, <2>1, ReportsStay
  <2>4. ASSUME NEW j, HearsEarly(c, j), spawnMessage(j) \notin ToSet(r)
        PROVE  HearsEarly(c, j)'
    <3>1. Wire(c) \in Seq(Packets) /\ Wire(c)' \in {Wire(c), Wire(c) \o q}
      BY <1>1, <1>4, <1>5, <2>1, ToClientsWires, WordsTypes
    <3> QED
      BY <1>2, <1>3, <1>4, <2>4, <3>1, StillEarly
  <2> QED
    BY <1>2, <1>4, <1>6, <2>2, <2>3, <2>4, GamesAre DEF Says
<1>7. CASE g # Host
  <2>1. g \in Clients
    BY <1>7 DEF Games
  <2>2. Reports(c, i)' = IF c = g /\ client[g] # 0 THEN Reports(c, i) \o Only(q, About(i)) ELSE Reports(c, i)
    BY <1>1, <1>2, <1>4, <1>5, <2>1, GoesUpReports
  <2>3. client[g] # 0
    BY <2>1, OnlineReached DEF Reached, Peers
  <2>4. Wire(c)' = Wire(c)
    BY <1>1, <1>4, <1>5, <2>1, GoesUp DEF Wire
  <2>5. News(c, i)' = News(c, i)
    BY <1>2, <2>4, NewsStay
  <2>6. \A j : HearsEarly(c, j) => HearsEarly(c, j)'
    BY <1>2, <2>4 DEF HearsEarly, Grants
  <2> QED
    BY <1>2, <1>4, <1>7, <2>2, <2>3, <2>5, <2>6 DEF Says
<1> QED
  BY <1>6, <1>7

\* What a game knows of i once it sent.
LEMMA SendKeeps ==
  ASSUME Inv, NEW g \in Games, NEW due \in SUBSET Synced, NEW lost, send(g, due, lost), NEW i \in Instances, Placed(i)
  PROVE  /\ \A h \in Games : \A j : In(h, j)' <=> In(h, j)
         /\ \A h \in Games \ {g} : \A j : /\ Knows(h, j)' <=> Knows(h, j)
                                          /\ Going(h, j) => Going(h, j)'
                                          /\ Placing(h, j) => Placing(h, j)'
         /\ Online(g) => \A j \in Over(i) : Knows(g, j)' <=> In(g, j) \/ (Knows(g, j) /\ ~Retires(g, j))
         /\ \A j : Free(j)' <=> Free(j)
<1>1. /\ TypeOK /\ UNCHANGED <<session, events, value, alive, wasClient, history, budget>>
      /\ phase' = [phase EXCEPT ![g] = "poll"] /\ phase \in [Games -> {"poll", "frame"}]
  BY DEF Inv, send, TypeOK
<1>2. /\ \A h \in Games \ {g} : known(h)' = known(h)
      /\ known(g)' = (known(g) \cup ToSet(New(g))) \ ToSet(Gone(g))
  BY <1>1, SendKnows
<1>3. \A h \in Games : \A j : (In(h, j)' <=> In(h, j)) /\ (Online(h)' <=> Online(h))
  BY <1>1 DEF In, Online, session
<1>4. ASSUME NEW h \in Games \ {g}, NEW j
      PROVE  /\ Knows(h, j)' <=> Knows(h, j)
             /\ Going(h, j) => Going(h, j)'
             /\ Placing(h, j) => Placing(h, j)'
  BY <1>1, <1>2, <1>3 DEF Going, Placing, isAuthority, Online, session, Knows
<1>5. ASSUME Online(g), NEW j \in Over(i)
      PROVE  Knows(g, j)' <=> In(g, j) \/ (Knows(g, j) /\ ~Retires(g, j))
  <2>1. Knows(g, j)' <=> j \in (known(g) \cup ToSet(New(g))) \ ToSet(Gone(g))
    BY <1>2, <1>3, <1>5 DEF Knows
  <2> QED
    BY <1>1, <1>5, <2>1, GoneIs, NewIs, OverIs DEF Retires, In, Knows, Placed, Placing
<1> QED
  BY <1>1, <1>3, <1>4, <1>5 DEF Free

\* What the host keeps is in order once it sent.
LEMMA SendOrder ==
  ASSUME Inv, SessionInv, NEW g \in Games, NEW due \in SUBSET Synced, NEW lost, send(g, due, lost),
         NEW i \in Instances, Agreed(i)
  PROVE  HostOrder(i)'
<1>1. TypeOK /\ spawned \in [Games -> Seq(Instances)] /\ Placed(i) /\ HostOrder(i) /\ Nested(i)
  BY DEF Inv, TypeOK, Agreed
<1>2. PICK list, new, gone : /\ new = New(g) /\ gone = ToSet(Gone(g))
                             /\ list = Only(spawned[g] \o new, Instances \ gone)
  OBVIOUS
<1>3. spawned' = [spawned EXCEPT ![g] = list]
  BY <1>2 DEF send
<1>4. \A j : In(Host, j)' => In(Host, j)
  BY <1>1, SendKeeps, GamesAre
<1>5. CASE g # Host
  BY <1>1, <1>3, <1>4, <1>5, HostOrderStays, GamesAre
<1>6. CASE g = Host
  <2> SUFFICES ASSUME NEW j \in Over(i), NEW k \in Over(j) \ {j}, In(Host, j)'
               PROVE  Leads(spawned'[Host], k, j)
    BY DEF HostOrder, Over, Above
  <2>1. In(Host, j) /\ In(Host, k) /\ Leads(spawned[Host], k, j) /\ j \in Instances /\ k \in Instances /\ k \in Over(i)
    BY <1>1, <1>4, GamesAre, OverIs DEF HostOrder, Nested
  <2>2. k \notin gone
    BY <1>1, <1>2, <1>6, <2>1, GoneIs DEF In
  <2>3. k \in ToSet(spawned[Host]) \/ Leads(new, k, j)
    <3> SUFFICES ASSUME k \notin known(Host) PROVE Leads(new, k, j)
      BY DEF known
    <3>1. isAuthority(Host, SpawnerOf[k])
      BY <1>1, <2>1, GamesAre, OverIs DEF Placed, Placing, Knows
    <3>2. k \in ToSet(new)
      BY <1>1, <1>2, <1>6, <2>1, <3>1, NewIs DEF In
    <3> QED
      BY <1>1, <1>2, <2>1, <3>2, NewOrder
  <2>4. PICK all : all = spawned[Host] \o new
    OBVIOUS
  <2>5. Leads(all, k, j) /\ all \in Seq(Instances)
    <3>1. PICK s \in Seq(Instances), t \in Seq(Instances) : s = spawned[Host] /\ t = new
      BY <1>1, <1>2, NewIs, GamesAre
    <3>2. Leads(s, k, j) /\ (k \in ToSet(s) \/ Leads(t, k, j)) /\ all = s \o t
      BY <2>1, <2>3, <2>4, <3>1
    <3>3. Leads(all, k, j)
      BY <3>2, LeadsConcat
    <3> QED
      BY <3>2, <3>3
  <2>6. Leads(Only(all, Instances \ gone), k, j)
    BY <2>1, <2>2, <2>5, OnlyOrder DEF OrderKept
  <2> QED
    BY <1>1, <1>2, <1>3, <1>6, <2>4, <2>6
<1> QED
  BY <1>5, <1>6

\* The games agree when one sends.
LEMMA SendAgreed ==
  ASSUME Inv, SessionInv, NEW g \in Games, NEW due \in SUBSET Synced, NEW lost, send(g, due, lost),
         NEW i \in Instances, Agreed(i)
  PROVE  Agreed(i)'
<1>1. TypeOK /\ UNCHANGED <<session, events>> /\ Placed(i)
  BY DEF Inv, send, Agreed
<1>2. /\ \A h \in Games : \A j : In(h, j)' <=> In(h, j)
      /\ \A h \in Games \ {g} : \A j : /\ Knows(h, j)' <=> Knows(h, j)
                                       /\ Going(h, j) => Going(h, j)'
                                       /\ Placing(h, j) => Placing(h, j)'
      /\ Online(g) => \A j \in Over(i) : Knows(g, j)' <=> In(g, j) \/ (Knows(g, j) /\ ~Retires(g, j))
      /\ \A j : Free(j)' <=> Free(j)
  BY <1>1, SendKeeps
<1>3. HostOrder(i)'
  BY SendOrder
<1>4. PICK vs \in Seq(ValuesMessages), us \in Seq(ValuesMessages) :
        SendsEveryone(g, SpawnsOf(New(g)) \o DespawnsOf(Gone(g)) \o vs, us, lost)
  BY <1>1, SendSays
<1>5. PICK r, X : r = Letters(g, vs) /\ X = Only(r, About(i))
  OBVIOUS
<1>6. SendsEveryone(g, r, us, lost)
  BY <1>4, <1>5 DEF Letters
<1>7. CASE Online(g)
  <2>1. ASSUME NEW c \in Clients
        PROVE  Says(g, r, X, i, c)
    BY <1>5, <1>6, <1>7, SendWords
  <2>2. Utters(g, X, i)
    BY <1>1, <1>5, <1>7, SendUtters
  <2>3. \A c \in Clients : /\ News(c, i) \in Seq(About(i)) /\ Reports(c, i) \in Seq(About(i))
                           /\ Online(c) => c \in Reached
    BY <1>1, WordsTypes, OnlineReached
  <2>4. Sent(g, X, i)
    BY <1>2, <1>7, <2>1, <2>2, <2>3 DEF Sent, Says
  <2>5. CASE g = Host
    <3>1. ASSUME NEW j \in Over(i), NEW c \in Clients, HearsEarly(c, j), spawnMessage(j) \notin ToSet(X)
          PROVE  HearsEarly(c, j)'
      <4>1. spawnMessage(j) \notin ToSet(r)
        <5>1. PICK q \in Seq(Messages) : q = r
          BY <1>1, <1>5, LettersAre
        <5> QED
          BY <1>5, <3>1, <5>1, OnlyAbout
      <4> QED
        BY <2>1, <3>1, <4>1 DEF Says
    <3> QED
      BY <1>3, <2>4, <2>5, <3>1, HostSendAgreed
  <2>6. CASE g # Host
    BY <1>3, <2>1, <2>4, <2>6, ClientSendAgreed DEF Says, Games
  <2> QED
    BY <2>5, <2>6
<1>8. CASE ~Online(g)
  <2>1. UNCHANGED <<session, wires, events>>
    BY <1>1, <1>6, <1>8 DEF SendsEveryone, wires, SessionInv, HostSession, Online, hostPeer
  <2>2. /\ SameNews(i) /\ SameReports(i) /\ SameMembers(i)
        /\ \A c \in Clients : /\ (c \in Reached' <=> c \in Reached)
                              /\ \A j : HearsEarly(c, j)' <=> HearsEarly(c, j)
    BY <2>1, OwnWords
  <2>3. \A j : ~In(g, j) /\ ~Knows(g, j) /\ ~In(g, j)' /\ ~Knows(g, j)' /\ ~Going(g, j)
    BY <1>8, <2>1 DEF In, Knows, Online, Going, session
  <2>4. HeardOnce(i)'
    BY <1>2, <2>2, <2>3, HeardOnceStays, GamesAre DEF Agreed
  <2> QED
    BY <1>2, <1>3, <2>2, <2>3, <2>4, CalmAgreed DEF SameScenes, StillAtIt
<1> QED
  BY <1>7, <1>8

\* Nothing anyone has or says at first is disagreed on.
LEMMA InitAgreed ==
  ASSUME Init, NEW i \in Instances
  PROVE  Agreed(i)
<1>1. /\ \A g \in Games : events[g] = <<>> /\ alive[g] = {} /\ spawned[g] = <<>>
      /\ \A c \in Clients : client[c] = 0
  BY GamesAre DEF Init
<1>2. \A c \in Clients : c \notin Reached /\ News(c, i) = <<>> /\ Reports(c, i) = <<>>
  BY <1>1 DEF News, Reports, Reached, Peers
<1>3. \A x : x \notin ToSet(<<>>)
  BY SilentSays
<1>4. \A c \in Clients : \A j : ~Hears(i, c, j) /\ ~HearsGone(i, c, j) /\ ~Tells(i, c, j) /\ ~TellsGone(i, c, j)
  BY <1>2, <1>3 DEF Hears, HearsGone, Tells, TellsGone
<1>5. \A g \in Games : \A j : ~In(g, j) /\ ~Knows(g, j)
  BY <1>1, <1>3 DEF In, Knows, known
<1>6. Unplaced(i) /\ Placed(i) /\ Reported(i) /\ Nested(i)
  BY <1>4, <1>5, GamesAre, OverIs DEF Unplaced, Silence, Placed, Reported, Nested
<1>7. GoneIsDead(i) /\ OuterFirst(i) /\ Missing(i) /\ Retracted(i) /\ HeardOnce(i)
  BY <1>2, <1>4, <1>5, GamesAre DEF GoneIsDead, OuterFirst, Missing, Retracted, HeardOnce
<1> QED
  BY <1>2, <1>4, <1>5, <1>6, <1>7, GamesAre DEF Agreed, HostOrder, ClientsFollow, HostFollows, GoneIsLast,
     Never

\* What is disputed stays so.
LEMMA DisputesStay ==
  ASSUME Inv, [Next]_vars
  PROVE  untold \subseteq untold' /\ \A c \in Clients : strays[c] \subseteq strays'[c]
<1>1. ASSUME UNCHANGED history
      PROVE  untold \subseteq untold' /\ \A c \in Clients : strays[c] \subseteq strays'[c]
  BY <1>1 DEF history
<1>2. ASSUME NEW c \in Clients,
             \/ clientConnected(c) \/ clientLeft(c) \/ disconnected(c) \/ leftSession(c) \/ leave(c)
             \/ \E d \in Deliveries : relay(c, d) \/ received(c, d)
      PROVE  UNCHANGED history
  BY <1>2 DEF clientConnected, clientLeft, disconnected, leftSession, leave, relay, received, Polls
<1>3. ASSUME NEW g \in Games,
             \/ \E lost : receiveValues(g, lost) \/ \E due : send(g, due, lost)
             \/ \E e \in Synced : write(g, e)
             \/ \E i \in Instances : place(g, i) \/ destroy(g, i)
      PROVE  UNCHANGED history
  BY <1>3 DEF receiveValues, send, write, place, destroy, history
<1>4. ASSUME NEW g \in Games, receiveSpawn(g)
      PROVE  untold \subseteq untold' /\ \A c \in Clients : strays[c] \subseteq strays'[c]
  BY <1>4 DEF receiveSpawn, Inv, TypeOK
<1>5. ASSUME NEW g \in Games, receiveDespawn(g)
      PROVE  untold \subseteq untold' /\ \A c \in Clients : strays[c] \subseteq strays'[c]
  BY <1>5 DEF receiveDespawn
<1>6. CASE welcome
  BY <1>1, <1>6 DEF welcome
<1>7. ASSUME NEW e \in Owned, NEW peer, setAuthority(e, peer)
      PROVE  untold \subseteq untold' /\ \A c \in Clients : strays[c] \subseteq strays'[c]
  BY <1>7 DEF setAuthority
<1>8. CASE UNCHANGED vars
  BY <1>1, <1>8 DEF vars
<1> QED
  BY <1>1, <1>2, <1>3, <1>4, <1>5, <1>6, <1>7, <1>8 DEF Next

\* Every step keeps the games agreed on what is not disputed.
LEMMA NextAgreed ==
  ASSUME Inv, SessionInv, [Next]_vars, NEW i \in Clear', Agreed(i)
  PROVE  Agreed(i)'
<1>1. i \in Clear /\ i \in Instances
  BY DisputesStay, ClearWas, ClearIs
<1>2. ASSUME NEW c \in Clients,
             clientConnected(c) \/ clientLeft(c) \/ leftSession(c) \/ \E d \in Deliveries : relay(c, d) \/ received(c, d)
      PROVE  Agreed(i)'
  BY <1>1, <1>2, ClientConnectedAgreed, ClientLeftAgreed, LeftSessionAgreed, RelayAgreed, ReceivedAgreed
<1>3. ASSUME NEW c \in Clients, disconnected(c) \/ leave(c)
      PROVE  Agreed(i)'
  BY <1>1, <1>3, ClosesAgreed DEF disconnected, leave, Polls, Inv, TypeOK
<1>4. ASSUME NEW g \in Games, receiveSpawn(g) \/ receiveDespawn(g)
      PROVE  Agreed(i)'
  BY <1>4, ReceiveSpawnAgreed, ReceiveDespawnAgreed
<1>5. ASSUME NEW g \in Games, NEW lost \in SUBSET Clients, receiveValues(g, lost)
      PROVE  Agreed(i)'
  BY <1>1, <1>5, ReceiveValuesAgreed
<1>6. ASSUME NEW g \in Games, NEW lost \in SUBSET Clients, NEW due \in SUBSET Synced, send(g, due, lost)
      PROVE  Agreed(i)'
  BY <1>1, <1>6, SendAgreed
<1>7. ASSUME NEW g \in Games, NEW e \in Synced, write(g, e)
      PROVE  Agreed(i)'
  BY <1>1, <1>7, WriteAgreed
<1>8. ASSUME NEW g \in Games, NEW j \in Instances, place(g, j) \/ destroy(g, j)
      PROVE  Agreed(i)'
  BY <1>1, <1>8, PlaceStepAgreed, DestroyStepAgreed
<1>9. CASE welcome
  BY <1>1, <1>9, WelcomeAgreed
<1>10. ASSUME NEW e \in Owned, NEW peer \in {hostPeer} \cup {client[c] : c \in Peers}, setAuthority(e, peer)
       PROVE  Agreed(i)'
  BY <1>10, SetAuthorityAgreed
<1>11. CASE UNCHANGED vars
  <2>1. UNCHANGED <<session, wires, events, alive, spawned, phase, budget>>
    BY <1>11 DEF vars, scenes
  <2>2. /\ SameNews(i) /\ SameReports(i) /\ SameMembers(i)
        /\ \A c \in Clients : /\ (c \in Reached' <=> c \in Reached)
                              /\ \A j : HearsEarly(c, j)' <=> HearsEarly(c, j)
    BY <2>1, OwnWords
  <2>3. ASSUME NEW g \in Games, NEW j
        PROVE  /\ In(g, j)' <=> In(g, j)
               /\ Knows(g, j)' <=> Knows(g, j)
               /\ Going(g, j) => Going(g, j)'
               /\ Placing(g, j) => Placing(g, j)'
    BY <2>1, StillScenes, StillDoing DEF session
  <2>4. HeardOnce(i)' /\ HostOrder(i)'
    BY <2>1, <2>2, <2>3, GamesAre, HeardOnceStays, HostOrderStays DEF Agreed
  <2> QED
    BY <1>1, <2>1, <2>2, <2>3, <2>4, CalmAgreed DEF SameScenes, StillAtIt, Free
<1> QED
  BY <1>2, <1>3, <1>4, <1>5, <1>6, <1>7, <1>8, <1>9, <1>10, <1>11 DEF Next

\* The games agree on what is not disputed.
THEOREM Agreement == Spec => []AgreeInv
<1>1. Init => AgreeInv
  BY InitSession, InitAgreed DEF AgreeInv, Clear
<1>2. Inv /\ AgreeInv /\ [Next]_vars => AgreeInv'
  <2> SUFFICES ASSUME Inv, AgreeInv, [Next]_vars PROVE AgreeInv'
    OBVIOUS
  <2>1. SessionInv'
    BY NextSession DEF AgreeInv
  <2>2. ASSUME NEW i \in Clear'
        PROVE  Agreed(i)'
    <3>1. i \in Clear
      BY DisputesStay, ClearWas
    <3> QED
      BY <3>1, NextAgreed DEF AgreeInv
  <2> QED
    BY <2>1, <2>2 DEF AgreeInv
<1> QED
  BY <1>1, <1>2, Invariance, PTL DEF Spec

\* Where nothing is left to be said, what the games agree on is that they have the same.
LEMMA QuietAgrees ==
  ASSUME Inv, AgreeInv
  PROVE  SpawnsAgree
<1> SUFFICES ASSUME Quiet, NEW c \in Clients, Online(c)
             PROVE  alive[c] \ Disputed = alive[Host] \ Disputed
  BY DEF SpawnsAgree
<1>1. /\ TypeOK /\ SessionInv /\ Online(Host) /\ c \in Games /\ Host \in Games
      /\ alive[c] \subseteq Instances /\ alive[Host] \subseteq Instances
  BY GamesAre DEF Inv, AgreeInv, SessionInv, HostSession, Online, hostPeer, TypeOK
<1>2. /\ \A d \in Clients : down[d] = Silent /\ up[d] = Silent
      /\ \A g \in Games : events[g] = <<>> /\ phase[g] = "poll"
  BY DEF Quiet
<1>3. \A d \in Clients : ~Newcomer(d)
  BY <1>2, SilentSays, GamesAre DEF Newcomer
<1>4. ASSUME NEW i \in Clear
      PROVE  i \in alive[c] <=> i \in alive[Host]
  <2>1. Agreed(i) /\ i \in Instances /\ i \in Over(i) /\ Over(i) \subseteq Instances
    BY ClearIs, OverIs DEF AgreeInv
  <2>2. ASSUME NEW d \in Clients, NEW j \in Over(i)
        PROVE  ~Hears(i, d, j) /\ ~HearsGone(i, d, j) /\ ~Tells(i, d, j) /\ ~TellsGone(i, d, j)
    <3>1. \A p : HeardIn(<<>>, p, i) = <<>>
      BY HeardNothing, SilentSays, EmptySeq
    <3>2. News(d, i) = <<>> /\ Reports(d, i) = <<>>
      BY <1>2, <3>1, EmptySeq, SilentSays, GamesAre DEF News, Reports, Wire, Heard
    <3> QED
      BY <3>2, WordsAre
  <2>3. \A g \in Games, j \in Over(i) : ~Going(g, j) /\ ~Placing(g, j)
    BY <1>2, PollingIsNot
  <2>4. \A g \in Games : In(g, i) => Knows(g, i)
    BY <2>1, <2>3 DEF Agreed, Placed
  <2>5. In(Host, i) => In(c, i)
    <3> SUFFICES ASSUME In(Host, i) PROVE In(c, i)
      OBVIOUS
    <3>1. Hears(i, c, i) \/ In(c, i) \/ Leaving(i, c, i)
      BY <1>1, <1>3, <2>1, <2>4, OnlineReached DEF Agreed, ClientsFollow
    <3> QED
      BY <1>1, <2>1, <2>2, <2>3, <3>1 DEF Leaving
  <2>6. In(c, i) => In(Host, i)
    <3> SUFFICES ASSUME In(c, i) PROVE In(Host, i)
      OBVIOUS
    <3> QED
      BY <1>1, <2>1, <2>2, <2>3, <2>4 DEF Agreed, HostFollows
  <2> QED
    BY <1>1, <2>5, <2>6 DEF In
<1> QED
  BY <1>1, <1>4 DEF Clear

\* Once nothing is on its way, the players of a session have the instances the host has, whoever
\* placed and destroyed them, joined or left meanwhile, but for those disputed (sendSpawns,
\* receiveSpawn, receiveDespawn, welcome, leftSession).
THEOREM PlayersHaveTheSame == Spec => []SpawnsAgree
<1>1. Inv /\ AgreeInv => SpawnsAgree
  BY QuietAgrees
<1> QED
  BY Invariance, Agreement, <1>1, PTL
=============================================================================
