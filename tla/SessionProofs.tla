---------------------------- MODULE SessionProofs ----------------------------
(***************************************************************************)
(* Proofs about Session, for every number of players, entities, methods,    *)
(* links and places: the types, and the inductive invariant by which the    *)
(* players learn what the host decided, in order.                           *)
(***************************************************************************)
EXTENDS Session, SequenceFacts

Wires(P) == [Links -> [Deliveries -> Seq(P)]]

-----------------------------------------------------------------------------
(* What the helpers return. *)

\* The records the packets and events are made of.
LEMMA PacketsAreTyped ==
  /\ \A e \in Entities, peer \in PeerIds : AuthorityPacket(e, peer) \in Packets
  /\ \A kind \in {"Data", "Rpc", "Replication"}, from \in PeerIds, to \in PeerIds, call \in Calls :
       Packet(kind, from, to, call) \in DataPackets
  /\ DataPackets \subseteq Packets
  /\ \A kind \in {"PeerJoined", "PeerLeft"}, peer \in PeerIds : [kind |-> kind, peer |-> peer] \in Packets
<1>1. \A e \in Entities, peer \in PeerIds : AuthorityPacket(e, peer) \in AuthorityPackets
  BY DEF AuthorityPacket, AuthorityPackets
<1>2. \A kind \in {"Data", "Rpc", "Replication"}, from \in PeerIds, to \in PeerIds, call \in Calls :
        Packet(kind, from, to, call) \in DataPackets
  BY DEF Packet, DataPackets
<1>3. \A kind \in {"PeerJoined", "PeerLeft"}, peer \in PeerIds : [kind |-> kind, peer |-> peer] \in PeerPackets
  BY DEF PeerPackets
<1> QED
  BY <1>1, <1>2, <1>3 DEF Packets

\* Events without a payload are events.
LEMMA PlainEventsAreTyped ==
  ASSUME NEW kind \in {"Connected", "ConnectionFailed", "Disconnected", "PeerJoined", "PeerLeft"},
         NEW peer \in PeerIds
  PROVE  PlainEvent(kind, peer) \in Events
BY DEF PlainEvent, PlainEvents, Events

\* So are those that carry what was sent.
LEMMA DataEventsAreTyped ==
  ASSUME NEW kind \in {"Data", "Rpc", "Replication"}, NEW peer \in PeerIds, NEW call \in Calls
  PROVE  DataEvent(kind, peer, call) \in Events
BY DEF DataEvent, eventOf, DataEvents, Events

\* A packet's kind tells what it is.
LEMMA KindsOfPackets ==
  ASSUME NEW packet \in Packets
  PROVE  /\ packet.kind = "Welcome" => packet.id \in PeerIds /\ packet.others \in SUBSET PeerIds
         /\ packet.kind \in {"PeerJoined", "PeerLeft"} => packet.peer \in PeerIds
         /\ packet.kind = "Authority" => packet.entity \in Entities /\ packet.peer \in PeerIds
         /\ packet.kind \in {"Data", "Rpc", "Replication"} =>
              packet.from \in PeerIds /\ packet.to \in PeerIds /\ packet.call \in Calls
         /\ packet.kind \in {"Welcome", "PeerJoined", "PeerLeft", "Authority", "Data", "Rpc", "Replication"}
BY DEF Packets, WelcomePackets, PeerPackets, AuthorityPackets, DataPackets

\* Sent adds the packets to the channel of each link named, and to nothing else.
LEMMA SentAppends ==
  ASSUME NEW P, NEW wire \in Wires(P), NEW links, NEW delivery \in Deliveries, NEW packets \in Seq(P)
  PROVE  /\ Sent(wire, links, delivery, packets) \in Wires(P)
         /\ \A k \in Links, d \in Deliveries :
              Sent(wire, links, delivery, packets)[k][d] =
                IF k \in links /\ d = delivery THEN wire[k][d] \o packets ELSE wire[k][d]
<1>1. \A k \in Links : [wire[k] EXCEPT ![delivery] = @ \o packets] \in [Deliveries -> Seq(P)]
  BY ConcatProperties DEF Wires
<1>2. \A k \in Links, d \in Deliveries :
        [wire[k] EXCEPT ![delivery] = @ \o packets][d] = IF d = delivery THEN wire[k][d] \o packets ELSE wire[k][d]
  BY DEF Wires
<1>3. \A k \in Links : Sent(wire, links, delivery, packets)[k] =
        IF k \in links THEN [wire[k] EXCEPT ![delivery] = @ \o packets] ELSE wire[k]
  BY DEF Sent
<1>4. Sent(wire, links, delivery, packets) \in Wires(P)
  BY <1>1 DEF Sent, Wires
<1> QED
  BY <1>2, <1>3, <1>4

\* Pushed adds events to one game.
LEMMA PushedAppends ==
  ASSUME events \in [Games -> Seq(Events)], NEW g \in Games, NEW event \in Events
  PROVE  Pushed(g, <<event>>) \in [Games -> Seq(Events)]
<1>1. <<event>> \in Seq(Events)
  OBVIOUS
<1>2. events[g] \o <<event>> \in Seq(Events)
  BY <1>1, ConcatProperties
<1> QED
  BY <1>2 DEF Pushed

\* What is taken from a channel leaves a channel.
LEMMA TailTypes ==
  ASSUME NEW P, NEW wire \in Wires(P), NEW k \in Links, NEW d \in Deliveries, wire[k][d] # <<>>
  PROVE  /\ Head(wire[k][d]) \in P
         /\ [wire EXCEPT ![k][d] = Tail(@)] \in Wires(P)
<1>1. wire[k][d] \in Seq(P)
  BY DEF Wires
<1>2. Head(wire[k][d]) \in P /\ Tail(wire[k][d]) \in Seq(P)
  BY <1>1, HeadTailProperties
<1> QED
  BY <1>2 DEF Wires

\* It leaves the other channels alone.
LEMMA TailLeaves ==
  ASSUME NEW P, NEW wire \in Wires(P), NEW k \in Links, NEW d \in Deliveries
  PROVE  \A l \in Links, c \in Deliveries :
           [wire EXCEPT ![k][d] = Tail(@)][l][c] = IF l = k /\ c = d THEN Tail(wire[k][d]) ELSE wire[l][c]
<1> DEFINE rest == Tail(wire[k][d])
<1>1. [wire EXCEPT ![k][d] = Tail(@)] = [wire EXCEPT ![k] = [wire[k] EXCEPT ![d] = rest]]
  OBVIOUS
<1> HIDE DEF rest
<1>2. \A c \in Deliveries : [wire[k] EXCEPT ![d] = rest][c] = IF c = d THEN rest ELSE wire[k][c]
  BY DEF Wires
<1>3. \A l \in Links :
        [wire EXCEPT ![k] = [wire[k] EXCEPT ![d] = rest]][l]
          = IF l = k THEN [wire[k] EXCEPT ![d] = rest] ELSE wire[l]
  BY DEF Wires
<1>4. \A l \in Links, c \in Deliveries :
        [wire EXCEPT ![k] = [wire[k] EXCEPT ![d] = rest]][l][c] = IF l = k /\ c = d THEN rest ELSE wire[l][c]
  BY <1>2, <1>3
<1>5. \A l \in Links, c \in Deliveries :
        [wire EXCEPT ![k][d] = Tail(@)][l][c] = IF l = k /\ c = d THEN rest ELSE wire[l][c]
  BY <1>1, <1>4
<1> QED
  BY <1>5 DEF rest

\* A silent wire is a wire.
LEMMA SilentTypes ==
  ASSUME NEW P
  PROVE  Silent \in [Deliveries -> Seq(P)]
BY DEF Silent

\* Who decides for an entity is a number, also after one who left gave back what it decided.
LEMMA AuthorityTypes ==
  /\ NoAuthority \in [Entities -> PeerIds]
  /\ \A map \in [Entities -> PeerIds] : \A peer : forgetAuthorityOf(map, peer) \in [Entities -> PeerIds]
BY DEF NoAuthority, PeerIds, hostPeer, forgetAuthorityOf

\* What the host decided, as packets: finitely many, whatever their order.
LEMMA DecidedLists ==
  ASSUME authorities \in [Games -> [Entities -> PeerIds]]
  PROVE  /\ Decided \in Seq(Packets)
         /\ ToSet(Decided) = {AuthorityPacket(e, authorities[Host][e]) :
                                e \in {x \in Entities : authorities[Host][x] # hostPeer}}
<1> DEFINE given == {e \in Entities : authorities[Host][e] # hostPeer}
           packets == {AuthorityPacket(e, authorities[Host][e]) : e \in given}
<1>1. IsFiniteSet(given)
  BY SessionAssumption, FS_Subset
<1>2. IsFiniteSet(packets)
  <2>1. [e \in given |-> AuthorityPacket(e, authorities[Host][e])] \in Surjection(given, packets)
    BY DEF Surjection
  <2> QED
    BY <1>1, <2>1, FS_Surjection
<1>3. packets \subseteq Packets
  BY PacketsAreTyped DEF Games
<1>4. SetToSeq(packets) \in Seq(packets) /\ ToSet(SetToSeq(packets)) = packets
  BY <1>2, SetToSeqLists
<1>5. SetToSeq(packets) \in Seq(Packets)
  BY <1>3, <1>4, SeqMonotonic
<1>6. Decided = SetToSeq(packets)
  BY DEF Decided, authorityOf
<1> QED
  BY <1>4, <1>5, <1>6

-----------------------------------------------------------------------------
(* Types *)

\* What every step may do to the links of the players and of the host's book-keeping.
LEMMA CountsAreTyped ==
  ASSUME TypeOK
  PROVE  /\ spent.links \in 0 .. MaxLinks /\ spent.sessions \in 0 .. MaxSessions
         /\ spent.grants \in 0 .. MaxGrants /\ spent.sends \in 0 .. MaxSends
         /\ spent = [links |-> spent.links, sessions |-> spent.sessions,
                     grants |-> spent.grants, sends |-> spent.sends]
BY DEF TypeOK

\* The bounds that are used: one more of any is still within its bound.
Spent == [links : 0 .. MaxLinks, sessions : 0 .. MaxSessions,
          grants : 0 .. MaxGrants, sends : 0 .. MaxSends]

\* What a behaviour spends of its bounds stays within them.
LEMMA SpendingTypes ==
  ASSUME TypeOK
  PROVE  /\ spent.links < MaxLinks => [spent EXCEPT !.links = @ + 1] \in Spent
         /\ spent.sessions < MaxSessions => [spent EXCEPT !.sessions = @ + 1] \in Spent
         /\ spent.grants < MaxGrants => [spent EXCEPT !.grants = @ + 1] \in Spent
         /\ spent.sends < MaxSends => [spent EXCEPT !.sends = @ + 1] \in Spent
<1>1. \A n \in Nat : \A i \in 0 .. n : i < n => i + 1 \in 0 .. n
  OBVIOUS
<1>2. MaxLinks \in Nat /\ MaxSessions \in Nat /\ MaxGrants \in Nat /\ MaxSends \in Nat
  BY SessionAssumption
<1>3. /\ spent.links < MaxLinks => spent.links + 1 \in 0 .. MaxLinks
      /\ spent.sessions < MaxSessions => spent.sessions + 1 \in 0 .. MaxSessions
      /\ spent.grants < MaxGrants => spent.grants + 1 \in 0 .. MaxGrants
      /\ spent.sends < MaxSends => spent.sends + 1 \in 0 .. MaxSends
  BY <1>1, <1>2, CountsAreTyped
<1>4. spent \in Spent
  BY DEF TypeOK, Spent
<1>5. /\ \A n \in 0 .. MaxLinks : [spent EXCEPT !.links = n] \in Spent
      /\ \A n \in 0 .. MaxSessions : [spent EXCEPT !.sessions = n] \in Spent
      /\ \A n \in 0 .. MaxGrants : [spent EXCEPT !.grants = n] \in Spent
      /\ \A n \in 0 .. MaxSends : [spent EXCEPT !.sends = n] \in Spent
  BY <1>4 DEF Spent
<1> QED
  BY <1>3, <1>5

\* The types hold at first.
LEMMA InitTypes == Init => TypeOK
<1> SUFFICES ASSUME Init PROVE TypeOK
  OBVIOUS
<1>1. \A P : Silent \in [Deliveries -> Seq(P)]
  BY SilentTypes
<1>2. MaxLinks \in Nat /\ MaxSessions \in Nat /\ MaxGrants \in Nat /\ MaxSends \in Nat
  BY SessionAssumption
<1> QED
  BY <1>1, <1>2, AuthorityTypes DEF Init, TypeOK, PeerIds, hostPeer, NoLink

\* A game polls, runs its code and is paused and resumed.
LEMMA FrameTypes ==
  ASSUME TypeOK, Frame
  PROVE  TypeOK'
<1>1. PICK g \in Games : poll(g) \/ keepAlive(g) \/ serviceEnds(g)
  BY DEF Frame
<1>2. /\ state' = state /\ local' = local /\ peers' = peers /\ authorities' = authorities
      /\ server' = server /\ clientId' = clientId /\ answered' = answered /\ nextPeer' = nextPeer
      /\ down' = down /\ up' = up /\ spent' = spent
  BY <1>1 DEF poll, keepAlive, serviceEnds, hostVars, wires
<1>3. phase' \in [Games -> {"code", "paused", "polling", "keeping"}]
  BY <1>1 DEF poll, keepAlive, serviceEnds, TypeOK
<1>4. loopback' \in [Games -> Seq(Calls)]
  <2>1. loopback' = [loopback EXCEPT ![g] = <<>>] \/ loopback' = loopback
    BY <1>1 DEF poll, keepAlive, serviceEnds
  <2>2. loopback \in [Games -> Seq(Calls)] /\ <<>> \in Seq(Calls)
    BY DEF TypeOK
  <2> QED
    BY <2>1, <2>2
<1>5. events' \in [Games -> Seq(Events)]
  <2>1. events \in [Games -> Seq(Events)] /\ loopback[g] \in Seq(Calls) /\ local[g] \in PeerIds
    BY DEF TypeOK
  <2>2. CASE poll(g)
    <3> DEFINE before == IF phase[g] = "paused" THEN events[g] ELSE <<>>
               called == [i \in DOMAIN loopback[g] |-> DataEvent("Rpc", caller(g), loopback[g][i])]
    <3>1. caller(g) \in PeerIds
      BY <2>1 DEF caller, PeerIds, hostPeer
    <3>2. /\ DOMAIN loopback[g] = 1 .. Len(loopback[g]) /\ Len(loopback[g]) \in Nat
          /\ \A i \in 1 .. Len(loopback[g]) : loopback[g][i] \in Calls
      BY <2>1, LenProperties, ElementOfSeq
    <3>3. called \in Seq(Events)
      BY <3>1, <3>2, DataEventsAreTyped
    <3>4. before \in Seq(Events)
      BY <2>1
    <3>5. before \o called \in Seq(Events)
      BY <3>3, <3>4, ConcatProperties
    <3>6. events' = [events EXCEPT ![g] = before \o called]
      BY <2>2 DEF poll
    <3> HIDE DEF before, called
    <3> QED
      BY <2>1, <3>5, <3>6
  <2>3. CASE serviceEnds(g) /\ phase[g] = "polling"
    <3> DEFINE read == [i \in DOMAIN events[g] |-> Given(events[g][i])]
    <3>1. /\ DOMAIN events[g] = 1 .. Len(events[g]) /\ Len(events[g]) \in Nat
          /\ \A i \in 1 .. Len(events[g]) : events[g][i] \in Events
      BY <2>1, LenProperties, ElementOfSeq
    <3>2. \A event \in Events : Given(event) \in Events
      BY DEF Given, Events, PlainEvents, DataEvents
    <3>3. read \in Seq(Events)
      BY <3>1, <3>2
    <3>4. events' = [events EXCEPT ![g] = read]
      BY <2>3 DEF serviceEnds
    <3> HIDE DEF read
    <3> QED
      BY <2>1, <3>3, <3>4
  <2>4. CASE keepAlive(g) \/ (serviceEnds(g) /\ phase[g] # "polling")
    BY <2>1, <2>4 DEF keepAlive, serviceEnds
  <2> QED
    BY <1>1, <2>2, <2>3, <2>4
<1> QED
  BY <1>2, <1>3, <1>4, <1>5 DEF TypeOK

\* The types of what the host reads, gathered for the steps below.
LEMMA HostTypes ==
  ASSUME TypeOK
  PROVE  /\ Host \in Games /\ nextPeer \in PeerIds /\ authorities[Host] \in [Entities -> PeerIds]
         /\ peers[Host] \in SUBSET PeerIds /\ Players \subseteq Games
         /\ down \in Wires(Packets) /\ up \in Wires(DataPackets)
BY DEF TypeOK, Games, Wires

\* tellClients sends one packet to each client but one.
LEMMA TellTypes ==
  ASSUME TypeOK, NEW packet \in Packets, NEW except
  PROVE  /\ tellClients(packet, except) \in Wires(Packets)
         /\ \A k \in Links, d \in Deliveries :
              tellClients(packet, except)[k][d] =
                IF k \in (Clients \cap Reached) \ {except} /\ d = "Reliable"
                  THEN down[k][d] \o <<packet>> ELSE down[k][d]
<1> DEFINE links == (Clients \cap Reached) \ {except}
           one == <<packet>>
<1>1. down \in Wires(Packets) /\ one \in Seq(Packets) /\ "Reliable" \in Deliveries
  BY HostTypes DEF Deliveries
<1>2. tellClients(packet, except) = Sent(down, links, "Reliable", one)
  BY DEF tellClients
<1> HIDE DEF links, one
<1>3. Sent(down, links, "Reliable", one) \in Wires(Packets)
  BY <1>1, SentAppends
<1>4. \A k \in Links, d \in Deliveries :
        Sent(down, links, "Reliable", one)[k][d] =
          IF k \in links /\ d = "Reliable" THEN down[k][d] \o one ELSE down[k][d]
  BY <1>1, SentAppends
<1> QED
  BY <1>2, <1>3, <1>4 DEF links, one

\* The host answers, forgets and hears clients (clientConnected, clientLeft, relay).
LEMMA HostServiceTypes ==
  ASSUME TypeOK, HostService
  PROVE  TypeOK'
<1>1. PICK k \in Links : clientConnected(k) \/ clientLeft(k) \/ \E d \in Deliveries : relay(k, d)
  BY DEF HostService
<1>2. "Reliable" \in Deliveries
  BY DEF Deliveries
<1>3. CASE clientConnected(k)
  <2>1. UNCHANGED <<state, phase, local, authorities, loopback, server, up, spent>>
    BY <1>3 DEF clientConnected
  <2>2. CASE Refused(k)
    BY <2>1, <2>2 DEF Refused, TypeOK
  <2>3. CASE Accepted(k)
    <3> DEFINE id == nextPeer
               told == tellClients([kind |-> "PeerJoined", peer |-> id], k)
    <3>1. /\ answered' = [answered EXCEPT ![k] = TRUE]
          /\ nextPeer' = nextPeer + 1
          /\ down' = Sent(told, {k} \cap Reached, "Reliable", <<WelcomePacket(id)>> \o Decided)
          /\ clientId' = [clientId EXCEPT ![k] = id]
          /\ peers' = [peers EXCEPT ![Host] = @ \cup {id}]
          /\ events' = Pushed(Host, <<PlainEvent("PeerJoined", id)>>)
      BY <2>3 DEF Accepted
    <3>2. told \in Wires(Packets)
      <4>1. [kind |-> "PeerJoined", peer |-> id] \in Packets
        BY HostTypes, PacketsAreTyped
      <4> QED
        BY <4>1, TellTypes
    <3>3. <<WelcomePacket(id)>> \o Decided \in Seq(Packets)
      <4>1. WelcomePacket(id) \in Packets
        BY HostTypes DEF WelcomePacket, WelcomePackets, Packets
      <4>2. Decided \in Seq(Packets)
        BY DecidedLists DEF TypeOK
      <4> QED
        BY <4>1, <4>2, ConcatProperties
    <3>4. down' \in Wires(Packets)
      BY <1>2, <3>1, <3>2, <3>3, SentAppends
    <3>5. events' \in [Games -> Seq(Events)]
      BY <3>1, HostTypes, PlainEventsAreTyped, PushedAppends DEF TypeOK
    <3>6. nextPeer' \in PeerIds /\ clientId' \in [Links -> PeerIds] /\ answered' \in [Links -> BOOLEAN]
      BY <3>1 DEF TypeOK, PeerIds
    <3>7. peers' \in [Games -> SUBSET PeerIds]
      BY <3>1 DEF TypeOK
    <3> QED
      BY <2>1, <3>4, <3>5, <3>6, <3>7 DEF TypeOK, Wires
  <2> QED
    BY <1>3, <2>2, <2>3 DEF clientConnected
<1>4. CASE clientLeft(k)
  <2> DEFINE id == clientId[k]
  <2>1. /\ clientId' = [clientId EXCEPT ![k] = 0]
        /\ peers' = [peers EXCEPT ![Host] = @ \ {id}]
        /\ authorities' = [authorities EXCEPT ![Host] = forgetAuthorityOf(@, id)]
        /\ down' = tellClients([kind |-> "PeerLeft", peer |-> id], k)
        /\ up' = [up EXCEPT ![k] = Silent]
        /\ events' = Pushed(Host, <<PlainEvent("PeerLeft", id)>>)
        /\ UNCHANGED <<state, phase, local, loopback, server, answered, nextPeer, spent>>
    BY <1>4 DEF clientLeft
  <2>2. id \in PeerIds
    BY DEF TypeOK
  <2>3. down' \in Wires(Packets)
    <3>1. [kind |-> "PeerLeft", peer |-> id] \in Packets
      BY <2>2, PacketsAreTyped
    <3> QED
      BY <2>1, <3>1, TellTypes
  <2>4. up' \in Wires(DataPackets)
    BY <2>1, HostTypes, SilentTypes DEF Wires
  <2>5. events' \in [Games -> Seq(Events)]
    BY <2>1, <2>2, HostTypes, PlainEventsAreTyped, PushedAppends DEF TypeOK
  <2>6. authorities' \in [Games -> [Entities -> PeerIds]]
    BY <2>1, AuthorityTypes DEF TypeOK
  <2>7. clientId' \in [Links -> PeerIds] /\ peers' \in [Games -> SUBSET PeerIds]
    BY <2>1 DEF TypeOK, PeerIds
  <2> QED
    BY <2>1, <2>3, <2>4, <2>5, <2>6, <2>7 DEF TypeOK, Wires
<1>5. CASE \E d \in Deliveries : relay(k, d)
  <2>1. PICK d \in Deliveries : relay(k, d)
    BY <1>5
  <2> DEFINE packet == Head(up[k][d])
             from == clientId[k]
             passed == Packet(packet.kind, from, packet.to, packet.call)
             event == DataEvent(packet.kind, from, packet.call)
  <2>2. /\ up[k][d] # <<>> /\ up' = [up EXCEPT ![k][d] = Tail(@)]
        /\ events' = events \/ events' = Pushed(Host, <<event>>)
        /\ down' = down \/ \E others : down' = Sent(down, others, d, <<passed>>)
        /\ UNCHANGED <<state, phase, local, peers, authorities, loopback, server, hostVars, spent>>
    BY <2>1 DEF relay
  <2>3. packet \in DataPackets /\ up' \in Wires(DataPackets)
    BY <2>2, HostTypes, TailTypes
  <2>4. from \in PeerIds
    BY DEF TypeOK
  <2>5. /\ packet.kind \in {"Data", "Rpc", "Replication"} /\ packet.to \in PeerIds
        /\ packet.call \in Calls
    BY <2>3 DEF DataPackets
  <2>6. passed \in Packets /\ event \in Events
    BY <2>4, <2>5, PacketsAreTyped, DataEventsAreTyped
  <2> HIDE DEF passed, event
  <2>7. down' \in Wires(Packets)
    <3>1. down \in Wires(Packets) /\ <<passed>> \in Seq(Packets)
      BY <2>6, HostTypes
    <3>2. \A others : Sent(down, others, d, <<passed>>) \in Wires(Packets)
      BY <3>1, SentAppends
    <3> QED
      BY <2>2, <3>1, <3>2
  <2>8. events' \in [Games -> Seq(Events)]
    BY <2>2, <2>6, HostTypes, PushedAppends DEF TypeOK
  <2> QED
    BY <2>2, <2>3, <2>7, <2>8 DEF TypeOK, Wires, hostVars
<1> QED
  BY <1>1, <1>3, <1>4, <1>5

\* A client takes the packet that comes first on one of its channels.
LEMMA TakesTypes ==
  ASSUME TypeOK, NEW p \in Players, NEW d \in Deliveries, Takes(p, d)
  PROVE  /\ Incoming(p, d) \in Packets /\ server[p] \in Links /\ p \in Games
         /\ down' = [down EXCEPT ![server[p]][d] = Tail(@)] /\ down' \in Wires(Packets)
         /\ UNCHANGED <<phase, loopback, server, clientId, answered, nextPeer, up, spent>>
<1>1. server[p] \in Links /\ p \in Games
  BY DEF Takes, TypeOK, Games
<1>2. down[server[p]][d] # <<>> /\ down' = [down EXCEPT ![server[p]][d] = Tail(@)]
  BY DEF Takes
<1>3. Incoming(p, d) \in Packets /\ down' \in Wires(Packets)
  BY <1>1, <1>2, HostTypes, TailTypes DEF Incoming
<1> QED
  BY <1>1, <1>2, <1>3 DEF Takes, hostVars

\* A client handles each kind of packet.
LEMMA receivedTypes ==
  ASSUME TypeOK, NEW p \in Players, received(p)
  PROVE  TypeOK'
<1>1. "Reliable" \in Deliveries
  BY DEF Deliveries
<1>2. CASE welcomed(p)
  <2> DEFINE packet == Incoming(p, "Reliable")
  <2>1. /\ packet.kind = "Welcome"
        /\ local' = [local EXCEPT ![p] = packet.id]
        /\ peers' = [peers EXCEPT ![p] = {hostPeer} \cup packet.others]
        /\ authorities' = [authorities EXCEPT ![p] = NoAuthority]
        /\ state' = [state EXCEPT ![p] = "Online"]
        /\ events' = Pushed(p, <<PlainEvent("Connected", packet.id)>>)
    BY <1>2 DEF welcomed
  <2>2. /\ packet \in Packets /\ p \in Games /\ down' \in Wires(Packets)
        /\ UNCHANGED <<phase, loopback, server, clientId, answered, nextPeer, up, spent>>
    BY <1>1, <1>2, TakesTypes DEF welcomed
  <2>3. packet.id \in PeerIds /\ packet.others \in SUBSET PeerIds
    BY <2>1, <2>2, KindsOfPackets
  <2> HIDE DEF packet
  <2>4. events' \in [Games -> Seq(Events)]
    BY <2>1, <2>2, <2>3, PlainEventsAreTyped, PushedAppends DEF TypeOK
  <2>5. local' \in [Games -> PeerIds] /\ peers' \in [Games -> SUBSET PeerIds]
    <3>1. hostPeer \in PeerIds
      BY DEF PeerIds, hostPeer
    <3>2. local' \in [Games -> PeerIds]
      BY <2>1, <2>3 DEF TypeOK
    <3>3. peers' \in [Games -> SUBSET PeerIds]
      BY <2>1, <2>3, <3>1 DEF TypeOK
    <3> QED
      BY <3>2, <3>3
  <2>6. authorities' \in [Games -> [Entities -> PeerIds]]
    BY <2>1, AuthorityTypes DEF TypeOK
  <2> QED
    BY <2>1, <2>2, <2>4, <2>5, <2>6 DEF TypeOK, Wires
<1>3. CASE peerJoined(p)
  <2> DEFINE packet == Incoming(p, "Reliable")
  <2>1. /\ packet.kind = "PeerJoined"
        /\ peers' = [peers EXCEPT ![p] = @ \cup {packet.peer}]
        /\ events' = Pushed(p, <<PlainEvent("PeerJoined", packet.peer)>>)
        /\ UNCHANGED <<local, authorities, state>>
    BY <1>3 DEF peerJoined
  <2>2. /\ packet \in Packets /\ p \in Games /\ down' \in Wires(Packets)
        /\ UNCHANGED <<phase, loopback, server, clientId, answered, nextPeer, up, spent>>
    BY <1>1, <1>3, TakesTypes DEF peerJoined
  <2>3. packet.peer \in PeerIds
    BY <2>1, <2>2, KindsOfPackets
  <2> HIDE DEF packet
  <2>4. events' \in [Games -> Seq(Events)]
    BY <2>1, <2>2, <2>3, PlainEventsAreTyped, PushedAppends DEF TypeOK
  <2>5. peers' \in [Games -> SUBSET PeerIds]
    BY <2>1, <2>3 DEF TypeOK
  <2> QED
    BY <2>1, <2>2, <2>4, <2>5 DEF TypeOK, Wires
<1>4. CASE peerLeft(p)
  <2> DEFINE packet == Incoming(p, "Reliable")
  <2>1. /\ packet.kind = "PeerLeft"
        /\ peers' = [peers EXCEPT ![p] = @ \ {packet.peer}]
        /\ authorities' = [authorities EXCEPT ![p] = forgetAuthorityOf(@, packet.peer)]
        /\ events' = Pushed(p, <<PlainEvent("PeerLeft", packet.peer)>>)
        /\ UNCHANGED <<local, state>>
    BY <1>4 DEF peerLeft
  <2>2. /\ packet \in Packets /\ p \in Games /\ down' \in Wires(Packets)
        /\ UNCHANGED <<phase, loopback, server, clientId, answered, nextPeer, up, spent>>
    BY <1>1, <1>4, TakesTypes DEF peerLeft
  <2>3. packet.peer \in PeerIds
    BY <2>1, <2>2, KindsOfPackets
  <2> HIDE DEF packet
  <2>4. events' \in [Games -> Seq(Events)]
    BY <2>1, <2>2, <2>3, PlainEventsAreTyped, PushedAppends DEF TypeOK
  <2>5. peers' \in [Games -> SUBSET PeerIds]
    BY <2>1 DEF TypeOK
  <2>6. authorities' \in [Games -> [Entities -> PeerIds]]
    BY <2>1, AuthorityTypes DEF TypeOK
  <2> QED
    BY <2>1, <2>2, <2>4, <2>5, <2>6 DEF TypeOK, Wires
<1>5. CASE authorityGiven(p)
  <2> DEFINE packet == Incoming(p, "Reliable")
  <2>1. /\ packet.kind = "Authority"
        /\ authorities' = [authorities EXCEPT ![p][packet.entity] = packet.peer]
        /\ UNCHANGED <<local, state, peers, events>>
    BY <1>5 DEF authorityGiven
  <2>2. /\ packet \in Packets /\ p \in Games /\ down' \in Wires(Packets)
        /\ UNCHANGED <<phase, loopback, server, clientId, answered, nextPeer, up, spent>>
    BY <1>1, <1>5, TakesTypes DEF authorityGiven
  <2>3. packet.entity \in Entities /\ packet.peer \in PeerIds
    BY <2>1, <2>2, KindsOfPackets
  <2> HIDE DEF packet
  <2>4. authorities' \in [Games -> [Entities -> PeerIds]]
    BY <2>1, <2>3 DEF TypeOK
  <2> QED
    BY <2>1, <2>2, <2>4 DEF TypeOK, Wires
<1>6. CASE \E d \in Deliveries : dataReceived(p, d)
  <2>1. PICK d \in Deliveries : dataReceived(p, d)
    BY <1>6
  <2> DEFINE packet == Incoming(p, d)
             event == DataEvent(packet.kind, packet.from, packet.call)
  <2>2. /\ packet.kind \in {"Data", "Rpc", "Replication"}
        /\ events' = events \/ events' = Pushed(p, <<event>>)
        /\ UNCHANGED <<local, state, peers, authorities>>
    BY <2>1 DEF dataReceived
  <2>3. /\ packet \in Packets /\ p \in Games /\ down' \in Wires(Packets)
        /\ UNCHANGED <<phase, loopback, server, clientId, answered, nextPeer, up, spent>>
    BY <2>1, TakesTypes DEF dataReceived
  <2>4. event \in Events
    BY <2>2, <2>3, KindsOfPackets, DataEventsAreTyped
  <2> HIDE DEF event
  <2>5. events' \in [Games -> Seq(Events)]
    BY <2>2, <2>3, <2>4, PushedAppends DEF TypeOK
  <2> QED
    BY <2>2, <2>3, <2>5 DEF TypeOK, Wires
<1> QED
  BY <1>2, <1>3, <1>4, <1>5, <1>6 DEF received

\* A client that closes its session is as it was before it joined.
LEMMA closesTypes ==
  ASSUME TypeOK, NEW p \in Players, server[p] # NoLink, ClientCloses(p),
         UNCHANGED <<phase, loopback, hostVars, up, spent>>, events' \in [Games -> Seq(Events)]
  PROVE  TypeOK'
<1>1. server[p] \in Links /\ p \in Games /\ 0 \in PeerIds
  BY DEF TypeOK, Games, PeerIds
<1>2. down' \in Wires(Packets)
  BY <1>1, HostTypes, SilentTypes DEF ClientCloses, Wires
<1>3. authorities' \in [Games -> [Entities -> PeerIds]]
  BY AuthorityTypes DEF ClientCloses, TypeOK
<1>4. /\ server' \in [Players -> Links \cup {NoLink}] /\ peers' \in [Games -> SUBSET PeerIds]
      /\ state' \in [Games -> {"Offline", "Connecting", "Online"}] /\ local' \in [Games -> PeerIds]
  BY <1>1 DEF ClientCloses, TypeOK
<1> QED
  BY <1>2, <1>3, <1>4 DEF TypeOK, Wires, hostVars

\* It does when it finds its link gone.
LEMMA disconnectedTypes ==
  ASSUME TypeOK, NEW p \in Players, disconnected(p)
  PROVE  TypeOK'
<1> DEFINE kind == IF state[p] = "Online" THEN "Disconnected" ELSE "ConnectionFailed"
<1>1. /\ server[p] # NoLink /\ ClientCloses(p)
      /\ events' = Pushed(p, <<PlainEvent(kind, 0)>>)
      /\ UNCHANGED <<phase, loopback, hostVars, up, spent>>
  BY DEF disconnected
<1>2. PlainEvent(kind, 0) \in Events
  BY PlainEventsAreTyped DEF PeerIds
<1>3. events' \in [Games -> Seq(Events)]
  BY <1>1, <1>2, HostTypes, PushedAppends DEF TypeOK
<1> QED
  BY <1>1, <1>3, closesTypes

\* A link is lost with what is on it.
LEMMA loseTypes ==
  ASSUME TypeOK, NEW k \in Links, lose(k)
  PROVE  TypeOK'
<1>1. "Unreliable" \in Deliveries
  BY DEF Deliveries
<1>2. down' = down \/ (down[k]["Unreliable"] # <<>> /\ down' = [down EXCEPT ![k]["Unreliable"] = Tail(@)])
  BY DEF lose
<1>3. up' = up \/ (up[k]["Unreliable"] # <<>> /\ up' = [up EXCEPT ![k]["Unreliable"] = Tail(@)])
  BY DEF lose
<1>4. down' \in Wires(Packets)
  BY <1>1, <1>2, HostTypes, TailTypes
<1>5. up' \in Wires(DataPackets)
  BY <1>1, <1>3, HostTypes, TailTypes
<1>6. UNCHANGED <<state, phase, local, peers, authorities, events, loopback, server, hostVars, spent>>
  BY DEF lose
<1> QED
  BY <1>4, <1>5, <1>6 DEF TypeOK, Wires, hostVars

\* Games host, join and leave.
LEMMA MembershipTypes ==
  ASSUME TypeOK, Membership
  PROVE  TypeOK'
<1>1. CASE host
  <2>1. /\ state' = [state EXCEPT ![Host] = "Online"] /\ local' = [local EXCEPT ![Host] = hostPeer]
        /\ nextPeer' = hostPeer + 1 /\ spent' = [spent EXCEPT !.sessions = @ + 1]
        /\ spent.sessions < MaxSessions
        /\ UNCHANGED <<phase, peers, authorities, events, loopback, server, clientId, answered, wires>>
    BY <1>1 DEF host
  <2>2. state' \in [Games -> {"Offline", "Connecting", "Online"}]
    BY <2>1 DEF TypeOK
  <2>3. local' \in [Games -> PeerIds] /\ nextPeer' \in PeerIds
    <3>1. hostPeer \in PeerIds /\ hostPeer + 1 \in PeerIds
      BY DEF PeerIds, hostPeer
    <3> HIDE DEF PeerIds, hostPeer
    <3> QED
      BY <2>1, <3>1 DEF TypeOK
  <2>4. spent' \in Spent
    BY <2>1, SpendingTypes
  <2> QED
    BY <2>1, <2>2, <2>3, <2>4 DEF TypeOK, wires, Spent
<1>2. CASE hostLeaves
  <2>1. /\ clientId' = [k \in Links |-> 0] /\ peers' = [peers EXCEPT ![Host] = {}]
        /\ authorities' = [authorities EXCEPT ![Host] = NoAuthority]
        /\ state' = [state EXCEPT ![Host] = "Offline"] /\ local' = [local EXCEPT ![Host] = 0]
        /\ up' = [k \in Links |-> Silent]
        /\ UNCHANGED <<phase, events, loopback, server, answered, nextPeer, down, spent>>
    BY <1>2 DEF hostLeaves
  <2>2. up' \in Wires(DataPackets)
    BY <2>1, SilentTypes DEF Wires
  <2>3. authorities' \in [Games -> [Entities -> PeerIds]]
    BY <2>1, AuthorityTypes DEF TypeOK
  <2>4. clientId' \in [Links -> PeerIds] /\ local' \in [Games -> PeerIds]
    BY <2>1 DEF TypeOK, PeerIds
  <2>5. peers' \in [Games -> SUBSET PeerIds] /\ state' \in [Games -> {"Offline", "Connecting", "Online"}]
    BY <2>1 DEF TypeOK
  <2> QED
    BY <2>1, <2>2, <2>3, <2>4, <2>5 DEF TypeOK, Wires
<1>3. CASE \E p \in Players : join(p)
  <2>1. PICK p \in Players : join(p)
    BY <1>3
  <2>2. /\ spent.links < MaxLinks /\ server' = [server EXCEPT ![p] = spent.links + 1]
        /\ state' = [state EXCEPT ![p] = "Connecting"] /\ spent' = [spent EXCEPT !.links = @ + 1]
        /\ UNCHANGED <<phase, local, peers, authorities, events, loopback, hostVars, wires>>
    BY <2>1 DEF join
  <2>3. spent.links + 1 \in Links
    BY <2>2, CountsAreTyped, SessionAssumption DEF Links
  <2>4. server' \in [Players -> Links \cup {NoLink}] /\ state' \in [Games -> {"Offline", "Connecting", "Online"}]
    BY <2>2, <2>3 DEF TypeOK
  <2>5. spent' \in Spent
    BY <2>2, SpendingTypes
  <2> QED
    BY <2>2, <2>4, <2>5 DEF TypeOK, hostVars, wires, Spent
<1>4. CASE \E p \in Players : clientLeaves(p)
  <2>1. PICK p \in Players : clientLeaves(p)
    BY <1>4
  <2>2. server[p] # NoLink /\ ClientCloses(p) /\ UNCHANGED <<phase, events, loopback, hostVars, up, spent>>
    BY <2>1 DEF clientLeaves
  <2> QED
    BY <2>2, closesTypes DEF TypeOK
<1> QED
  BY <1>1, <1>2, <1>3, <1>4 DEF Membership

\* A game gives an entity away, or gives up its own.
LEMMA GrantTypes ==
  ASSUME TypeOK, NEW g \in Games, NEW e \in Entities, NEW peer \in PeerIds, Grant(g, e, peer),
         UNCHANGED events
  PROVE  TypeOK'
<1> DEFINE one == <<AuthorityPacket(e, peer)>>
           links == Clients \cap Reached
<1>1. /\ spent.grants < MaxGrants /\ authorities' = [authorities EXCEPT ![g][e] = peer]
      /\ down' = IF g = Host THEN Sent(down, links, "Reliable", one) ELSE down
      /\ spent' = [spent EXCEPT !.grants = @ + 1]
      /\ UNCHANGED <<state, phase, local, peers, loopback, server, hostVars, up>>
  BY DEF Grant
<1>2. one \in Seq(Packets) /\ "Reliable" \in Deliveries
  BY PacketsAreTyped DEF Deliveries
<1> HIDE DEF one, links
<1>3. down' \in Wires(Packets)
  BY <1>1, <1>2, HostTypes, SentAppends
<1>4. authorities' \in [Games -> [Entities -> PeerIds]]
  BY <1>1 DEF TypeOK
<1>5. spent' \in Spent
  BY <1>1, SpendingTypes
<1> QED
  BY <1>1, <1>3, <1>4, <1>5 DEF TypeOK, Wires, hostVars, Spent

\* The host's code gives entities to numbers only.
LEMMA AuthorityGrants ==
  ASSUME TypeOK, Authority
  PROVE  \E g \in Games, e \in Entities, peer \in PeerIds :
           RunsCode(g) /\ Grant(g, e, peer) /\ UNCHANGED events
<1>1. CASE \E e \in Entities, g \in Games : setAuthority(g, e)
  <2>1. PICK e \in Entities, g \in Games : setAuthority(g, e)
    BY <1>1
  <2>2. \A peer \in {hostPeer, hostPeer + 1} \cup peers[g] : peer \in PeerIds
    BY DEF TypeOK, PeerIds, hostPeer
  <2> QED
    BY <2>1, <2>2 DEF setAuthority
<1>2. CASE \E e \in Entities : giveToNewcomer(e)
  <2>1. PICK e \in Entities : giveToNewcomer(e)
    BY <1>2
  <2>2. PICK i \in DOMAIN events[Host] :
          events[Host][i].kind = "PeerJoined" /\ Grant(Host, e, events[Host][i].peer)
    BY <2>1 DEF giveToNewcomer
  <2>3. events[Host] \in Seq(Events)
    BY HostTypes DEF TypeOK
  <2>4. events[Host][i] \in Events
    BY <2>2, <2>3, LenProperties, ElementOfSeq
  <2>5. events[Host][i].peer \in PeerIds
    BY <2>4 DEF Events, PlainEvents, DataEvents
  <2> QED
    BY <2>1, <2>2, <2>5, HostTypes DEF giveToNewcomer
<1> QED
  BY <1>1, <1>2 DEF Authority

\* What the code of a game sends: at most one packet more on the links it is for.
LEMMA SendPacketSends ==
  ASSUME TypeOK, NEW g \in Games, NEW kind \in {"Data", "Rpc", "Replication"}, NEW to \in PeerIds,
         NEW call \in Calls, NEW d \in Deliveries, SendPacket(g, kind, to, call, d)
  PROVE  /\ down' \in Wires(Packets) /\ up' \in Wires(DataPackets)
         /\ g # Host => down' = down
         /\ g = Host => down' = Sent(down, {k \in Clients \cap Reached : to \in {everyone, clientId[k]}}, d,
                                     <<Packet(kind, local[g], to, call)>>)
<1> DEFINE one == <<Packet(kind, local[g], to, call)>>
           links == {k \in Clients \cap Reached : to \in {everyone, clientId[k]}}
           own == {server[g]} \cap Clients
<1>1. /\ g = Host => down' = Sent(down, links, d, one) /\ up' = up
      /\ g # Host => down' = down /\ up' = Sent(up, own, d, one)
  BY DEF SendPacket
<1>2. local[g] \in PeerIds
  BY DEF TypeOK
<1>3. one \in Seq(DataPackets) /\ one \in Seq(Packets)
  BY <1>2, PacketsAreTyped
<1> HIDE DEF one, links, own
<1>4. Sent(down, links, d, one) \in Wires(Packets) /\ Sent(up, own, d, one) \in Wires(DataPackets)
  BY <1>3, HostTypes, SentAppends
<1>5. down' \in Wires(Packets) /\ up' \in Wires(DataPackets)
  BY <1>1, <1>4, HostTypes
<1> QED
  BY <1>1, <1>5 DEF one, links

\* Who something can be sent to is a number.
LEMMA RecipientsAreTyped ==
  ASSUME TypeOK
  PROVE  Recipients \subseteq PeerIds
BY DEF TypeOK, Recipients, PeerIds, everyone, hostPeer, Clients

\* A step that sends: the packet, and whether the game is online.
LEMMA SendingSends ==
  ASSUME TypeOK, Sending
  PROVE  \E g \in Games, to \in PeerIds, call \in Calls, kind \in {"Data", "Rpc", "Replication"}, d \in Deliveries :
           /\ Sends(g)
           /\ \/ UNCHANGED wires
              \/ /\ state[g] = "Online"
                 /\ kind = "Rpc" => call.method \in AnyPeer \/ isAuthority(g, call.target)
                 /\ SendPacket(g, kind, to, call, d)
           /\ loopback' \in [Games -> Seq(Calls)]
<1>1. PICK g \in Games, to \in Recipients, call \in Calls :
        \/ sendRpc(g, to, call)
        \/ \E d \in Deliveries : send(g, to, call, d) \/ sendReplication(g, to, call, d)
  BY DEF Sending
<1>2. to \in PeerIds /\ hostPeer \in PeerIds
  BY RecipientsAreTyped DEF PeerIds, hostPeer
<1>3. loopback \in [Games -> Seq(Calls)]
  BY DEF TypeOK
<1>4. CASE sendRpc(g, to, call)
  <2>1. /\ Sends(g) /\ (call.method \in AnyPeer \/ isAuthority(g, call.target))
        /\ \/ UNCHANGED wires
           \/ state[g] = "Online" /\ SendPacket(g, "Rpc", to, call, deliveryOf(call.method))
        /\ loopback' = loopback \/ loopback' = [loopback EXCEPT ![g] = Append(@, call)]
    BY <1>4 DEF sendRpc
  <2>2. deliveryOf(call.method) \in Deliveries
    BY DEF deliveryOf, Deliveries
  <2>3. loopback' \in [Games -> Seq(Calls)]
    <3>1. Append(loopback[g], call) \in Seq(Calls)
      BY <1>3, AppendProperties
    <3> QED
      BY <1>3, <2>1, <3>1
  <2> QED
    BY <1>2, <2>1, <2>2, <2>3
<1>5. CASE \E d \in Deliveries : send(g, to, call, d)
  <2>1. PICK d \in Deliveries : send(g, to, call, d)
    BY <1>5
  <2>2. Sends(g) /\ state[g] = "Online" /\ SendPacket(g, "Data", to, call, d) /\ loopback' = loopback
    BY <2>1 DEF send
  <2> QED
    BY <1>2, <1>3, <2>2
<1>6. CASE \E d \in Deliveries : sendReplication(g, to, call, d)
  <2>1. PICK d \in Deliveries : sendReplication(g, to, call, d)
    BY <1>6
  <2>2. \E receiver \in PeerIds :
          /\ Sends(g) /\ state[g] = "Online" /\ SendPacket(g, "Replication", receiver, call, d)
          /\ loopback' = loopback
    BY <1>2, <2>1 DEF sendReplication
  <2> QED
    BY <1>3, <2>2
<1> QED
  BY <1>1, <1>4, <1>5, <1>6

\* Games send data, calls and replication.
LEMMA SendingTypes ==
  ASSUME TypeOK, Sending
  PROVE  TypeOK'
<1>1. PICK g \in Games, to \in PeerIds, call \in Calls, kind \in {"Data", "Rpc", "Replication"}, d \in Deliveries :
        /\ Sends(g)
        /\ UNCHANGED wires \/ SendPacket(g, kind, to, call, d)
        /\ loopback' \in [Games -> Seq(Calls)]
  BY SendingSends
<1>2. down' \in Wires(Packets) /\ up' \in Wires(DataPackets)
  BY <1>1, HostTypes, SendPacketSends DEF wires
<1>3. /\ spent.sends < MaxSends /\ spent' = [spent EXCEPT !.sends = @ + 1]
      /\ UNCHANGED <<state, phase, local, peers, authorities, events, server, hostVars>>
  BY <1>1 DEF Sends
<1>4. spent' \in Spent
  BY <1>3, SpendingTypes
<1> QED
  BY <1>1, <1>2, <1>3, <1>4 DEF TypeOK, Wires, hostVars, Spent

\* Every step keeps the types.
LEMMA NextTypes == TypeOK /\ [Next]_vars => TypeOK'
<1> SUFFICES ASSUME TypeOK, [Next]_vars PROVE TypeOK'
  OBVIOUS
<1>1. CASE Frame
  BY <1>1, FrameTypes
<1>2. CASE HostService
  BY <1>2, HostServiceTypes
<1>3. CASE ClientService
  BY <1>3, receivedTypes, disconnectedTypes DEF ClientService
<1>4. CASE Network
  BY <1>4, loseTypes DEF Network
<1>5. CASE Membership
  BY <1>5, MembershipTypes
<1>6. CASE Authority
  BY <1>6, AuthorityGrants, GrantTypes
<1>7. CASE Sending
  BY <1>7, SendingTypes
<1>8. CASE UNCHANGED vars
  BY <1>8 DEF TypeOK, vars, hostVars, wires
<1> QED
  BY <1>1, <1>2, <1>3, <1>4, <1>5, <1>6, <1>7, <1>8 DEF Next

\* Every variable keeps its type, whatever is sent, lost, joined and left: in particular no event
\* has a kind the code of a game does not know.
THEOREM TypeCorrect == Spec => []TypeOK
<1>1. Init => TypeOK
  BY InitTypes
<1>2. TypeOK /\ [Next]_vars => TypeOK'
  BY NextTypes
<1> QED
  BY <1>1, <1>2, PTL DEF Spec

-----------------------------------------------------------------------------
(* No event is lost *)

\* While the code of a game runs, it was given every event that events() answers.
ReadInCode ==
  \A g \in Games : phase[g] = "code" => \A i \in DOMAIN events[g] : events[g][i].given # 0

EventsStay(g) ==
  \A i \in DOMAIN events[g] :
    events[g][i].given = 0 => i \in DOMAIN events'[g] /\ events'[g][i].kind = events[g][i].kind

\* An event more leaves those before it as they are.
LEMMA PushedKeeps ==
  ASSUME TypeOK, NEW g \in Games, NEW event \in Events, events' = Pushed(g, <<event>>)
  PROVE  \A h \in Games :
           /\ h # g => events'[h] = events[h]
           /\ EventsStay(h)
<1>1. events \in [Games -> Seq(Events)] /\ <<event>> \in Seq(Events)
  BY DEF TypeOK
<1>2. events' = [events EXCEPT ![g] = events[g] \o <<event>>]
  BY DEF Pushed
<1>3. \A i \in DOMAIN events[g] :
        i \in DOMAIN (events[g] \o <<event>>) /\ (events[g] \o <<event>>)[i] = events[g][i]
  <2>1. /\ events[g] \o <<event>> \in Seq(Events) /\ Len(<<event>>) = 1
        /\ Len(events[g] \o <<event>>) = Len(events[g]) + 1
        /\ \A i \in 1 .. Len(events[g]) + 1 :
             (events[g] \o <<event>>)[i] = IF i <= Len(events[g]) THEN events[g][i] ELSE <<event>>[i - Len(events[g])]
    BY <1>1, ConcatProperties
  <2>2. /\ DOMAIN events[g] = 1 .. Len(events[g]) /\ Len(events[g]) \in Nat
        /\ DOMAIN (events[g] \o <<event>>) = 1 .. Len(events[g]) + 1
    BY <1>1, <2>1, LenProperties
  <2> QED
    BY <2>1, <2>2
<1> QED
  BY <1>1, <1>2, <1>3 DEF EventsStay

\* Outside poll() and the end of service(), a step adds at most one event, to a game in service.
LEMMA EventsArePushed ==
  ASSUME TypeOK, Next, ~Frame
  PROVE  /\ phase' = phase
         /\ \/ events' = events
            \/ \E g \in Games, event \in Events : InService(g) /\ events' = Pushed(g, <<event>>)
<1>1. CASE HostService
  <2>1. PICK k \in Links : clientConnected(k) \/ clientLeft(k) \/ \E d \in Deliveries : relay(k, d)
    BY <1>1 DEF HostService
  <2>2. nextPeer \in PeerIds /\ clientId[k] \in PeerIds
    BY DEF TypeOK
  <2>3. CASE clientConnected(k)
    <3>1. /\ phase' = phase /\ InService(Host)
          /\ events' = events \/ events' = Pushed(Host, <<PlainEvent("PeerJoined", nextPeer)>>)
      BY <2>3 DEF clientConnected, Refused, Accepted
    <3> QED
      BY <2>2, <3>1, HostTypes, PlainEventsAreTyped
  <2>4. CASE clientLeft(k)
    <3>1. /\ phase' = phase /\ InService(Host)
          /\ events' = Pushed(Host, <<PlainEvent("PeerLeft", clientId[k])>>)
      BY <2>4 DEF clientLeft
    <3> QED
      BY <2>2, <3>1, HostTypes, PlainEventsAreTyped
  <2>5. CASE \E d \in Deliveries : relay(k, d)
    <3>1. PICK d \in Deliveries : relay(k, d)
      BY <2>5
    <3> DEFINE packet == Head(up[k][d])
               event == DataEvent(packet.kind, clientId[k], packet.call)
    <3>2. /\ phase' = phase /\ InService(Host) /\ up[k][d] # <<>>
          /\ events' = events \/ events' = Pushed(Host, <<event>>)
      BY <3>1 DEF relay
    <3>3. packet \in DataPackets
      BY <3>2, HostTypes, TailTypes
    <3>4. event \in Events
      BY <2>2, <3>3, DataEventsAreTyped DEF DataPackets
    <3> HIDE DEF event
    <3> QED
      BY <3>2, <3>4, HostTypes
  <2> QED
    BY <2>1, <2>3, <2>4, <2>5
<1>2. CASE \E p \in Players : received(p)
  <2>1. PICK p \in Players : received(p)
    BY <1>2
  <2>2. CASE welcomed(p) \/ peerJoined(p) \/ peerLeft(p) \/ authorityGiven(p)
    <3> DEFINE packet == Incoming(p, "Reliable")
    <3>1. Takes(p, "Reliable") /\ "Reliable" \in Deliveries
      BY <2>2 DEF welcomed, peerJoined, peerLeft, authorityGiven, Deliveries
    <3>2. packet \in Packets /\ p \in Games /\ phase' = phase /\ InService(p)
      BY <3>1, TakesTypes DEF Takes
    <3>3. \/ events' = events
          \/ packet.kind = "Welcome" /\ events' = Pushed(p, <<PlainEvent("Connected", packet.id)>>)
          \/ packet.kind = "PeerJoined" /\ events' = Pushed(p, <<PlainEvent("PeerJoined", packet.peer)>>)
          \/ packet.kind = "PeerLeft" /\ events' = Pushed(p, <<PlainEvent("PeerLeft", packet.peer)>>)
      BY <2>2 DEF welcomed, peerJoined, peerLeft, authorityGiven
    <3> HIDE DEF packet
    <3> QED
      BY <3>2, <3>3, KindsOfPackets, PlainEventsAreTyped
  <2>3. CASE \E d \in Deliveries : dataReceived(p, d)
    <3>1. PICK d \in Deliveries : dataReceived(p, d)
      BY <2>3
    <3> DEFINE packet == Incoming(p, d)
               event == DataEvent(packet.kind, packet.from, packet.call)
    <3>2. packet \in Packets /\ p \in Games /\ phase' = phase /\ InService(p)
      BY <3>1, TakesTypes DEF dataReceived, Takes
    <3>3. packet.kind \in {"Data", "Rpc", "Replication"} /\ (events' = events \/ events' = Pushed(p, <<event>>))
      BY <3>1 DEF dataReceived
    <3>4. event \in Events
      BY <3>2, <3>3, KindsOfPackets, DataEventsAreTyped
    <3> HIDE DEF event
    <3> QED
      BY <3>2, <3>3, <3>4
  <2> QED
    BY <2>1, <2>2, <2>3 DEF received
<1>3. CASE \E p \in Players : disconnected(p)
  <2>1. PICK p \in Players : disconnected(p)
    BY <1>3
  <2> DEFINE kind == IF state[p] = "Online" THEN "Disconnected" ELSE "ConnectionFailed"
  <2>2. phase' = phase /\ InService(p) /\ p \in Games /\ events' = Pushed(p, <<PlainEvent(kind, 0)>>)
    BY <2>1, HostTypes DEF disconnected
  <2>3. PlainEvent(kind, 0) \in Events
    BY PlainEventsAreTyped DEF PeerIds
  <2> QED
    BY <2>2, <2>3
<1>4. CASE Network
  BY <1>4 DEF Network, lose
<1>5. CASE Membership
  BY <1>5 DEF Membership, host, hostLeaves, join, clientLeaves
<1>6. CASE Authority
  BY <1>6, AuthorityGrants DEF Grant
<1>7. CASE Sending
  BY <1>7, SendingSends DEF Sends
<1> QED
  BY <1>1, <1>2, <1>3, <1>4, <1>5, <1>6, <1>7 DEF Next, ClientService

\* A frame drops only what the code was given, and the code is given all there is.
LEMMA FrameKeepsUnread ==
  ASSUME TypeOK, ReadInCode, Frame
  PROVE  ReadInCode' /\ \A h \in Games : EventsStay(h)
<1>1. PICK g \in Games : poll(g) \/ keepAlive(g) \/ serviceEnds(g)
  BY DEF Frame
<1>2. /\ phase \in [Games -> {"code", "paused", "polling", "keeping"}] /\ events \in [Games -> Seq(Events)]
      /\ loopback[g] \in Seq(Calls)
  BY DEF TypeOK
<1>3. CASE poll(g)
  <2> DEFINE called == [i \in DOMAIN loopback[g] |-> DataEvent("Rpc", caller(g), loopback[g][i])]
             before == IF phase[g] = "paused" THEN events[g] ELSE <<>>
  <2>1. /\ phase[g] \in {"code", "paused"} /\ phase' = [phase EXCEPT ![g] = "polling"]
        /\ events' = [events EXCEPT ![g] = before \o called]
    BY <1>3 DEF poll
  <2>2. called \in Seq(Events)
    <3>1. caller(g) \in PeerIds
      BY DEF TypeOK, caller, PeerIds, hostPeer
    <3>2. /\ DOMAIN loopback[g] = 1 .. Len(loopback[g]) /\ Len(loopback[g]) \in Nat
          /\ \A i \in 1 .. Len(loopback[g]) : loopback[g][i] \in Calls
      BY <1>2, LenProperties, ElementOfSeq
    <3> QED
      BY <3>1, <3>2, DataEventsAreTyped
  <2> HIDE DEF called
  <2>3. EventsStay(g)
    <3>1. CASE phase[g] = "code"
      BY <3>1 DEF ReadInCode, EventsStay
    <3>2. CASE phase[g] = "paused"
      <4>1. events'[g] = events[g] \o called
        BY <1>2, <2>1, <3>2
      <4>2. /\ events[g] \o called \in Seq(Events) /\ Len(events[g] \o called) = Len(events[g]) + Len(called)
            /\ \A i \in 1 .. Len(events[g]) + Len(called) :
                 (events[g] \o called)[i] = IF i <= Len(events[g]) THEN events[g][i] ELSE called[i - Len(events[g])]
        BY <1>2, <2>2, ConcatProperties
      <4>3. /\ DOMAIN events[g] = 1 .. Len(events[g]) /\ Len(events[g]) \in Nat /\ Len(called) \in Nat
            /\ DOMAIN (events[g] \o called) = 1 .. Len(events[g]) + Len(called)
        BY <1>2, <2>2, <4>2, LenProperties
      <4> QED
        BY <4>1, <4>2, <4>3 DEF EventsStay
    <3> QED
      BY <2>1, <3>1, <3>2
  <2>4. \A h \in Games : h # g => events'[h] = events[h] /\ phase'[h] = phase[h]
    BY <1>2, <2>1
  <2>5. phase'[g] # "code"
    BY <1>2, <2>1
  <2> QED
    BY <2>3, <2>4, <2>5 DEF ReadInCode, EventsStay
<1>4. CASE keepAlive(g)
  <2>1. phase' = [phase EXCEPT ![g] = "keeping"] /\ events' = events
    BY <1>4 DEF keepAlive
  <2> QED
    BY <1>2, <2>1 DEF ReadInCode, EventsStay
<1>5. CASE serviceEnds(g) /\ phase[g] = "polling"
  <2> DEFINE read == [i \in DOMAIN events[g] |-> Given(events[g][i])]
  <2>1. phase' = [phase EXCEPT ![g] = "code"] /\ events' = [events EXCEPT ![g] = read]
    BY <1>5 DEF serviceEnds
  <2>2. \A event \in Events : Given(event).kind = event.kind /\ Given(event).given # 0
    BY DEF Given, Events, PlainEvents, DataEvents
  <2>3. \A i \in DOMAIN events[g] : events[g][i] \in Events
    BY <1>2, LenProperties, ElementOfSeq
  <2>4. DOMAIN read = DOMAIN events[g]
        /\ \A i \in DOMAIN events[g] : read[i].kind = events[g][i].kind /\ read[i].given # 0
    BY <2>2, <2>3
  <2> HIDE DEF read
  <2>5. /\ events'[g] = read /\ \A h \in Games : h # g => events'[h] = events[h] /\ phase'[h] = phase[h]
    BY <1>2, <2>1
  <2> QED
    BY <2>4, <2>5 DEF ReadInCode, EventsStay
<1>6. CASE serviceEnds(g) /\ phase[g] # "polling"
  <2>1. phase' = [phase EXCEPT ![g] = "paused"] /\ events' = events
    BY <1>6 DEF serviceEnds
  <2> QED
    BY <1>2, <2>1 DEF ReadInCode, EventsStay
<1> QED
  BY <1>1, <1>3, <1>4, <1>5, <1>6

\* Every step drops only events the code of the game was given.
LEMMA NextKeepsUnread ==
  TypeOK /\ ReadInCode /\ [Next]_vars => ReadInCode' /\ \A h \in Games : EventsStay(h)
<1> SUFFICES ASSUME TypeOK, ReadInCode, [Next]_vars
             PROVE  ReadInCode' /\ \A h \in Games : EventsStay(h)
  OBVIOUS
<1>1. CASE Frame
  BY <1>1, FrameKeepsUnread
<1>2. CASE Next /\ ~Frame
  <2>1. CASE events' = events
    BY <1>2, <2>1, EventsArePushed DEF ReadInCode, EventsStay
  <2>2. CASE events' # events
    <3>1. PICK g \in Games, event \in Events :
            phase' = phase /\ InService(g) /\ events' = Pushed(g, <<event>>)
      BY <1>2, <2>2, EventsArePushed
    <3>2. \A h \in Games : (h # g => events'[h] = events[h]) /\ EventsStay(h)
      BY <3>1, PushedKeeps
    <3> QED
      BY <3>1, <3>2 DEF ReadInCode, InService
  <2> QED
    BY <2>1, <2>2
<1>3. CASE UNCHANGED vars
  BY <1>3 DEF vars, ReadInCode, EventsStay
<1> QED
  BY <1>1, <1>2, <1>3

\* No event is dropped before the code of the game was given it, however the editor pauses and
\* resumes the games: poll() keeps what keepAlive() left, and drops only what the code has read.
THEOREM EventsAreGiven == Spec => NothingLostUnread
<1>1. Init => TypeOK /\ ReadInCode
  BY InitTypes DEF Init, ReadInCode
<1>2. TypeOK /\ ReadInCode /\ [Next]_vars => (TypeOK /\ ReadInCode)'
  BY NextTypes, NextKeepsUnread
<1>3. TypeOK /\ ReadInCode /\ [Next]_vars =>
        [\A g \in Games : \A i \in DOMAIN events[g] :
           events[g][i].given = 0 => i \in DOMAIN events'[g] /\ events'[g][i].kind = events[g][i].kind]_events
  BY NextKeepsUnread DEF EventsStay
<1> QED
  BY <1>1, <1>2, <1>3, PTL DEF Spec, NothingLostUnread

-----------------------------------------------------------------------------
(* What the packets on their way tell *)

Views == [state : {"Offline", "Connecting", "Online"}, local : PeerIds, peers : SUBSET PeerIds,
          authorities : [Entities -> PeerIds]]

\* The packet is one that a client with this view may be told next.
Follows(view, packet) ==
  /\ packet.kind = "Welcome" <=> view.state = "Connecting"
  /\ packet.kind = "PeerJoined" => packet.peer \notin view.peers \cup {view.local}
  /\ packet.kind = "PeerLeft" => packet.peer \in view.peers
  /\ packet.kind \in {"Data", "Rpc"} => packet.from \in view.peers
  /\ packet.kind = "Rpc" =>
       packet.call.method \in AnyPeer \/ packet.from = view.authorities[packet.call.target]

\* `views` are those of a client that reads the packets, each of which it may be told.
Tells(views, packets) ==
  \A i \in 1 .. Len(packets) :
    Follows(views[i - 1], packets[i]) /\ views[i] = Learns(views[i - 1], packets[i])

\* A client that has the view `first` is told `packets` in order, and has the view `last` then.
Told(first, packets, last) ==
  \E views \in [0 .. Len(packets) -> Views] :
    views[0] = first /\ views[Len(packets)] = last /\ Tells(views, packets)

\* What a packet makes of a view, field by field.
LEMMA LearnsFields ==
  ASSUME NEW view \in Views, NEW packet \in Packets
  PROVE  /\ Learns(view, packet) \in Views
         /\ packet.kind = "Welcome" =>
              Learns(view, packet) = [state |-> "Online", local |-> packet.id,
                                      peers |-> {hostPeer} \cup packet.others, authorities |-> NoAuthority]
         /\ packet.kind = "PeerJoined" =>
              Learns(view, packet) = [state |-> view.state, local |-> view.local,
                                      peers |-> view.peers \cup {packet.peer}, authorities |-> view.authorities]
         /\ packet.kind = "PeerLeft" =>
              Learns(view, packet) = [state |-> view.state, local |-> view.local,
                                      peers |-> view.peers \ {packet.peer},
                                      authorities |-> forgetAuthorityOf(view.authorities, packet.peer)]
         /\ packet.kind = "Authority" =>
              Learns(view, packet) = [state |-> view.state, local |-> view.local, peers |-> view.peers,
                                      authorities |-> [view.authorities EXCEPT ![packet.entity] = packet.peer]]
         /\ packet.kind \in {"Data", "Rpc", "Replication"} => Learns(view, packet) = view
<1>1. packet.kind \in {"Welcome", "PeerJoined", "PeerLeft", "Authority", "Data", "Rpc", "Replication"}
  BY KindsOfPackets
<1>2. CASE packet.kind = "Welcome"
  <2>1. Learns(view, packet) = [state |-> "Online", local |-> packet.id,
                                peers |-> {hostPeer} \cup packet.others, authorities |-> NoAuthority]
    BY <1>2 DEF Learns
  <2>2. packet.id \in PeerIds /\ {hostPeer} \cup packet.others \in SUBSET PeerIds
    BY <1>2, KindsOfPackets DEF PeerIds, hostPeer
  <2> QED
    BY <1>2, <2>1, <2>2, AuthorityTypes DEF Views
<1>3. CASE packet.kind = "PeerJoined"
  <2>1. Learns(view, packet) = [view EXCEPT !.peers = @ \cup {packet.peer}]
    BY <1>3 DEF Learns
  <2>2. packet.peer \in PeerIds
    BY <1>3, KindsOfPackets
  <2> QED
    BY <1>3, <2>1, <2>2 DEF Views
<1>4. CASE packet.kind = "PeerLeft"
  <2>1. Learns(view, packet)
          = [view EXCEPT !.peers = @ \ {packet.peer}, !.authorities = forgetAuthorityOf(@, packet.peer)]
    BY <1>4 DEF Learns
  <2>2. forgetAuthorityOf(view.authorities, packet.peer) \in [Entities -> PeerIds]
    BY AuthorityTypes DEF Views
  <2> QED
    BY <1>4, <2>1, <2>2 DEF Views
<1>5. CASE packet.kind = "Authority"
  <2>1. Learns(view, packet) = [view EXCEPT !.authorities[packet.entity] = packet.peer]
    BY <1>5 DEF Learns
  <2>2. packet.entity \in Entities /\ packet.peer \in PeerIds
    BY <1>5, KindsOfPackets
  <2>3. [view.authorities EXCEPT ![packet.entity] = packet.peer] \in [Entities -> PeerIds]
    BY <2>2 DEF Views
  <2> QED
    BY <1>5, <2>1, <2>2, <2>3 DEF Views
<1>6. CASE packet.kind \in {"Data", "Rpc", "Replication"}
  BY <1>6 DEF Learns
<1> QED
  BY <1>1, <1>2, <1>3, <1>4, <1>5, <1>6

\* Nothing told, nothing learned.
LEMMA ToldEmpty ==
  ASSUME NEW view \in Views
  PROVE  \A last : Told(view, <<>>, last) <=> last = view
<1>1. \A last : Told(view, <<>>, last) => last = view
  BY DEF Told
<1>2. Told(view, <<>>, view)
  <2> DEFINE views == [i \in 0 .. 0 |-> view]
  <2>1. Len(<<>>) = 0 /\ 1 .. 0 = {}
    OBVIOUS
  <2>2. views \in [0 .. 0 -> Views] /\ views[0] = view
    OBVIOUS
  <2> HIDE DEF views
  <2>3. Tells(views, <<>>)
    BY <2>1 DEF Tells
  <2> QED
    BY <2>1, <2>2, <2>3 DEF Told
<1> QED
  BY <1>1, <1>2

\* The views that are told of are views.
LEMMA ToldTypes ==
  ASSUME NEW first, NEW packets \in Seq(Packets), NEW last, Told(first, packets, last)
  PROVE  first \in Views /\ last \in Views
<1>1. Len(packets) \in Nat
  BY LenProperties
<1> QED
  BY <1>1 DEF Told

\* A packet more is told, when it follows the view that those before it lead to.
LEMMA ToldAppend ==
  ASSUME NEW first, NEW packets \in Seq(Packets), NEW last, Told(first, packets, last),
         NEW packet \in Packets, Follows(last, packet)
  PROVE  Told(first, packets \o <<packet>>, Learns(last, packet))
<1> DEFINE n == Len(packets)
           more == packets \o <<packet>>
<1>1. /\ n \in Nat /\ Len(more) = n + 1
      /\ \A i \in 1 .. n + 1 : more[i] = IF i <= n THEN packets[i] ELSE packet
  <2>1. <<packet>> \in Seq(Packets) /\ Len(<<packet>>) = 1 /\ <<packet>>[1] = packet
    OBVIOUS
  <2>2. /\ Len(more) = n + 1
        /\ \A i \in 1 .. n + 1 : more[i] = IF i <= n THEN packets[i] ELSE <<packet>>[i - n]
    BY <2>1, ConcatProperties
  <2>3. n \in Nat
    BY LenProperties
  <2> HIDE DEF more, n
  <2>4. \A i \in 1 .. n + 1 : ~(i <= n) => i - n = 1
    BY <2>3
  <2> QED
    BY <2>1, <2>2, <2>3, <2>4
<1>2. PICK views \in [0 .. n -> Views] : views[0] = first /\ views[n] = last /\ Tells(views, packets)
  BY DEF Told
<1>3. last \in Views
  BY ToldTypes
<1>4. Learns(last, packet) \in Views
  BY <1>3, LearnsFields
<1> DEFINE longer == [i \in 0 .. n + 1 |-> IF i = n + 1 THEN Learns(last, packet) ELSE views[i]]
<1> HIDE DEF n, more
<1>5. longer \in [0 .. n + 1 -> Views]
  <2>1. \A i \in 0 .. n + 1 : i # n + 1 => i \in 0 .. n
    BY <1>1
  <2> QED
    BY <1>2, <1>4, <2>1
<1>6. longer[0] = first /\ longer[n + 1] = Learns(last, packet) /\ \A i \in 0 .. n : longer[i] = views[i]
  BY <1>1, <1>2
<1> HIDE DEF longer
<1>7. Tells(longer, more)
  <2> SUFFICES ASSUME NEW i \in 1 .. n + 1
               PROVE  Follows(longer[i - 1], more[i]) /\ longer[i] = Learns(longer[i - 1], more[i])
    BY <1>1 DEF Tells
  <2>1. CASE i = n + 1
    <3>1. more[i] = packet /\ longer[i - 1] = last
      BY <1>1, <1>2, <1>6, <2>1
    <3> QED
      BY <1>6, <2>1, <3>1
  <2>2. CASE i # n + 1
    <3>1. i \in 1 .. n /\ i \in 0 .. n /\ i - 1 \in 0 .. n
      BY <1>1, <2>2
    <3>2. more[i] = packets[i] /\ longer[i - 1] = views[i - 1] /\ longer[i] = views[i]
      BY <1>1, <1>6, <3>1
    <3> QED
      BY <1>2, <3>1, <3>2 DEF Tells, n
  <2> QED
    BY <2>1, <2>2
<1> QED
  BY <1>1, <1>5, <1>6, <1>7 DEF Told, more

\* What is told begins with a packet that follows the first view, and goes on from what it teaches.
LEMMA ToldHead ==
  ASSUME NEW first, NEW packets \in Seq(Packets), NEW last, Told(first, packets, last), packets # <<>>
  PROVE  /\ Follows(first, Head(packets))
         /\ Told(Learns(first, Head(packets)), Tail(packets), last)
<1> DEFINE n == Len(packets)
           rest == Tail(packets)
<1>1. /\ n \in Nat \ {0} /\ Len(rest) = n - 1 /\ Head(packets) = packets[1]
      /\ \A i \in 1 .. n - 1 : rest[i] = packets[i + 1]
  <2>1. Len(rest) = n - 1 /\ \A i \in 1 .. Len(rest) : rest[i] = packets[i + 1]
    BY HeadTailProperties
  <2>2. n \in Nat \ {0}
    BY EmptySeq, LenProperties
  <2> QED
    BY <2>1, <2>2
<1>2. PICK views \in [0 .. n -> Views] : views[0] = first /\ views[n] = last /\ Tells(views, packets)
  BY DEF Told
<1> DEFINE later == [i \in 0 .. n - 1 |-> views[i + 1]]
<1>3. \A i \in 1 .. n : Follows(views[i - 1], packets[i]) /\ views[i] = Learns(views[i - 1], packets[i])
  BY <1>2 DEF Tells
<1> HIDE DEF n, rest
<1>4. 1 \in 1 .. n /\ 1 - 1 = 0
  BY <1>1
<1>5. Follows(views[0], packets[1]) /\ views[1] = Learns(views[0], packets[1])
  BY <1>3, <1>4
<1>6. later \in [0 .. n - 1 -> Views] /\ later[0] = views[1] /\ later[n - 1] = views[n]
  BY <1>1, <1>2
<1>7. Tells(later, rest)
  <2> SUFFICES ASSUME NEW i \in 1 .. n - 1
               PROVE  Follows(later[i - 1], rest[i]) /\ later[i] = Learns(later[i - 1], rest[i])
    BY <1>1 DEF Tells
  <2>1. i + 1 \in 1 .. n /\ later[i - 1] = views[i] /\ later[i] = views[i + 1] /\ rest[i] = packets[i + 1]
    BY <1>1
  <2>2. (i + 1) - 1 = i
    OBVIOUS
  <2>3. Follows(views[(i + 1) - 1], packets[i + 1]) /\ views[i + 1] = Learns(views[(i + 1) - 1], packets[i + 1])
    BY <1>3, <2>1
  <2> HIDE DEF later
  <2> QED
    BY <2>1, <2>2, <2>3
<1> HIDE DEF later
<1> QED
  BY <1>1, <1>2, <1>5, <1>6, <1>7 DEF Told, rest

\* Before its welcome a client may think what it likes of the authorities.
LEMMA ToldAfresh ==
  ASSUME NEW first, NEW packets \in Seq(Packets), NEW last, Told(first, packets, last),
         packets # <<>>, Head(packets).kind = "Welcome", NEW other \in Views, other.state = first.state
  PROVE  Told(other, packets, last)
<1> DEFINE n == Len(packets)
<1>1. n \in Nat \ {0} /\ Head(packets) = packets[1] /\ packets[1] \in Packets
  <2>1. n \in Nat \ {0}
    BY EmptySeq, LenProperties
  <2> QED
    BY <2>1, ElementOfSeq
<1>2. PICK views \in [0 .. n -> Views] : views[0] = first /\ views[n] = last /\ Tells(views, packets)
  BY DEF Told
<1>3. \A i \in 1 .. n : Follows(views[i - 1], packets[i]) /\ views[i] = Learns(views[i - 1], packets[i])
  BY <1>2 DEF Tells
<1> DEFINE others == [i \in 0 .. n |-> IF i = 0 THEN other ELSE views[i]]
<1> HIDE DEF n
<1>4. 1 \in 1 .. n /\ 1 - 1 = 0 /\ 0 \in 0 .. n /\ n \in 0 .. n /\ n # 0
  BY <1>1
<1>5. others \in [0 .. n -> Views] /\ others[0] = other /\ others[n] = last
      /\ \A i \in 1 .. n : others[i] = views[i]
  BY <1>2, <1>4
<1> HIDE DEF others
<1>6. first \in Views
  BY <1>2, <1>4
<1>7. Follows(first, packets[1]) /\ views[1] = Learns(first, packets[1])
  <2>1. Follows(views[1 - 1], packets[1]) /\ views[1] = Learns(views[1 - 1], packets[1])
    BY <1>3, <1>4
  <2> QED
    BY <1>2, <1>4, <2>1
<1>8. Follows(other, packets[1]) /\ Learns(other, packets[1]) = Learns(first, packets[1])
  <2>1. packets[1].kind = "Welcome"
    BY <1>1
  <2> QED
    BY <1>1, <1>6, <1>7, <2>1, LearnsFields DEF Follows
<1>9. Tells(others, packets)
  <2> SUFFICES ASSUME NEW i \in 1 .. n
               PROVE  Follows(others[i - 1], packets[i]) /\ others[i] = Learns(others[i - 1], packets[i])
    BY DEF Tells, n
  <2>1. CASE i = 1
    <3>1. others[i - 1] = other /\ others[i] = views[1]
      BY <1>4, <1>5, <2>1
    <3> QED
      BY <1>7, <1>8, <2>1, <3>1
  <2>2. CASE i # 1
    <3>1. i - 1 \in 1 .. n
      BY <1>1, <2>2
    <3> QED
      BY <1>3, <1>5, <3>1
  <2> QED
    BY <2>1, <2>2
<1> QED
  BY <1>5, <1>9 DEF Told, n

\* What a newcomer is told, its welcome and what the host decided, leads it to the view of the host.
LEMMA ToldDecided ==
  ASSUME TypeOK, NEW first \in Views, first.state = "Connecting", NEW id \in PeerIds
  PROVE  Told(first, <<WelcomePacket(id)>> \o Decided,
              [state |-> "Online", local |-> id, peers |-> {hostPeer} \cup peers[Host],
               authorities |-> authorities[Host]])
<1> DEFINE welcome == WelcomePacket(id)
           list == Decided
           n == Len(list)
           packets == <<welcome>> \o list
           known == authorities[Host]
           told(i) == [e \in Entities |-> IF \E j \in 1 .. i : list[j].entity = e THEN known[e] ELSE hostPeer]
           view(i) == [state |-> "Online", local |-> id, peers |-> {hostPeer} \cup peers[Host],
                       authorities |-> told(i)]
           views == [i \in 0 .. n + 1 |-> IF i = 0 THEN first ELSE view(i - 1)]
<1>1. /\ list \in Seq(Packets) /\ n \in Nat
      /\ ToSet(list) = {AuthorityPacket(e, known[e]) : e \in {x \in Entities : known[x] # hostPeer}}
  BY DecidedLists, LenProperties DEF TypeOK
<1>2. welcome = [kind |-> "Welcome", id |-> id, others |-> peers[Host]] /\ welcome \in Packets
  BY HostTypes DEF WelcomePacket, WelcomePackets, Packets
<1>3. known \in [Entities -> PeerIds] /\ {hostPeer} \cup peers[Host] \in SUBSET PeerIds /\ hostPeer \in PeerIds
  BY HostTypes DEF PeerIds, hostPeer
<1>4. \A j \in 1 .. n : \E e \in Entities : list[j] = AuthorityPacket(e, known[e]) /\ list[j] \in Packets
  <2>1. \A j \in 1 .. n : list[j] \in ToSet(list) /\ list[j] \in Packets
    BY <1>1, ToSetOfSeq
  <2> QED
    BY <1>1, <2>1
<1>5. \A e \in Entities : known[e] # hostPeer => \E j \in 1 .. n : list[j].entity = e
  <2> SUFFICES ASSUME NEW e \in Entities, known[e] # hostPeer PROVE \E j \in 1 .. n : list[j].entity = e
    OBVIOUS
  <2>1. AuthorityPacket(e, known[e]) \in ToSet(list)
    BY <1>1
  <2>2. PICK j \in 1 .. n : list[j] = AuthorityPacket(e, known[e])
    BY <1>1, <2>1, ToSetOfSeq
  <2> QED
    BY <2>2 DEF AuthorityPacket
<1>6. /\ Len(packets) = n + 1 /\ packets[1] = welcome
      /\ \A i \in 1 .. n : packets[i + 1] = list[i]
  <2>1. <<welcome>> \in Seq(Packets) /\ Len(<<welcome>>) = 1 /\ <<welcome>>[1] = welcome
    BY <1>2
  <2>2. /\ Len(packets) = 1 + n
        /\ \A i \in 1 .. 1 + n : packets[i] = IF i <= 1 THEN <<welcome>>[i] ELSE list[i - 1]
    BY <1>1, <2>1, ConcatProperties
  <2>3. \A i \in 1 .. n : i + 1 \in 1 .. 1 + n /\ ~(i + 1 <= 1) /\ (i + 1) - 1 = i
    BY <1>1
  <2>4. 1 \in 1 .. 1 + n
    BY <1>1
  <2> HIDE DEF packets, welcome, list, n
  <2> QED
    BY <1>1, <2>1, <2>2, <2>3, <2>4
<1>7. \A i \in 0 .. n : view(i) \in Views
  BY <1>3 DEF Views
<1>8. told(0) = NoAuthority /\ told(n) = known
  <2>1. told(0) = NoAuthority
    BY DEF NoAuthority
  <2>2. \A e \in Entities : (IF \E j \in 1 .. n : list[j].entity = e THEN known[e] ELSE hostPeer) = known[e]
    BY <1>5
  <2> HIDE DEF known, list, n
  <2>3. told(n) = [e \in Entities |-> known[e]]
    BY <2>2
  <2> QED
    BY <1>3, <2>1, <2>3
<1>9. \A i \in 1 .. n : told(i) = [told(i - 1) EXCEPT ![list[i].entity] = list[i].peer]
                        /\ list[i].kind = "Authority"
  <2> SUFFICES ASSUME NEW i \in 1 .. n
               PROVE  told(i) = [told(i - 1) EXCEPT ![list[i].entity] = list[i].peer]
                      /\ list[i].kind = "Authority"
    OBVIOUS
  <2>1. PICK e \in Entities : list[i] = AuthorityPacket(e, known[e])
    BY <1>4
  <2>2. list[i].entity = e /\ list[i].peer = known[e] /\ list[i].kind = "Authority"
    BY <2>1 DEF AuthorityPacket
  <2>3. \A x \in Entities : (\E j \in 1 .. i : list[j].entity = x) <=>
                            x = e \/ \E j \in 1 .. i - 1 : list[j].entity = x
    BY <1>1, <2>2
  <2> HIDE DEF known, list, n
  <2>4. told(i) = [told(i - 1) EXCEPT ![e] = known[e]]
    BY <2>3
  <2> HIDE DEF told
  <2> QED
    BY <2>2, <2>4
<1>10. views \in [0 .. n + 1 -> Views] /\ views[0] = first /\ views[n + 1] = view(n)
       /\ \A i \in 0 .. n : views[i + 1] = view(i)
  <2>1. n + 1 \in 0 .. n + 1 /\ n + 1 # 0 /\ 0 \in 0 .. n + 1 /\ (n + 1) - 1 = n
    BY <1>1
  <2>2. \A i \in 0 .. n : i + 1 \in 0 .. n + 1 /\ i + 1 # 0 /\ (i + 1) - 1 = i
    BY <1>1
  <2>3. \A i \in 0 .. n + 1 : i # 0 => i - 1 \in 0 .. n
    BY <1>1
  <2> HIDE DEF view, n
  <2> QED
    BY <1>7, <2>1, <2>2, <2>3
<1>11. Tells(views, packets)
  <2> SUFFICES ASSUME NEW i \in 1 .. n + 1
               PROVE  Follows(views[i - 1], packets[i]) /\ views[i] = Learns(views[i - 1], packets[i])
    BY <1>6 DEF Tells
  <2>1. CASE i = 1
    <3>1. views[i - 1] = first /\ views[i] = view(0) /\ packets[i] = welcome
      <4>1. i - 1 = 0 /\ i = 0 + 1 /\ 0 \in 0 .. n
        BY <1>1, <2>1
      <4> HIDE DEF views, packets, view, welcome, n
      <4> QED
        BY <1>6, <1>10, <2>1, <4>1
    <3>2. Follows(first, welcome)
      BY <1>2 DEF Follows
    <3>3. Learns(first, welcome) = [state |-> "Online", local |-> id, peers |-> {hostPeer} \cup peers[Host],
                                    authorities |-> NoAuthority]
      <4>1. welcome.kind = "Welcome" /\ welcome.id = id /\ welcome.others = peers[Host]
        BY <1>2
      <4> HIDE DEF welcome
      <4> QED
        BY <1>2, <4>1, LearnsFields
    <3>4. view(0) = Learns(first, welcome)
      <4> HIDE DEF told
      <4> QED
        BY <1>8, <3>3
    <3> HIDE DEF views, packets, view, welcome
    <3> QED
      BY <3>1, <3>2, <3>4
  <2>2. CASE i # 1
    <3> DEFINE j == i - 1
    <3>1. j \in 1 .. n /\ i = j + 1 /\ j = (j - 1) + 1 /\ j - 1 \in 0 .. n /\ j \in 0 .. n
      BY <1>1, <2>2
    <3> HIDE DEF j
    <3>2. views[i - 1] = view(j - 1) /\ views[i] = view(j) /\ packets[i] = list[j]
      <4>1. views[(j - 1) + 1] = view(j - 1) /\ views[j + 1] = view(j) /\ packets[j + 1] = list[j]
        BY <1>6, <1>10, <3>1
      <4>2. i - 1 = (j - 1) + 1
        BY <3>1
      <4> HIDE DEF views, packets, view, list
      <4> QED
        BY <3>1, <4>1, <4>2
    <3>3. list[j].kind = "Authority" /\ list[j] \in Packets /\ view(j - 1) \in Views
      BY <1>4, <1>7, <1>9, <3>1
    <3>4. told(j) = [told(j - 1) EXCEPT ![list[j].entity] = list[j].peer]
      BY <1>9, <3>1
    <3>5. Follows(view(j - 1), list[j])
      BY <3>3 DEF Follows
    <3>6. Learns(view(j - 1), list[j]) = view(j)
      <4>1. Learns(view(j - 1), list[j])
              = [state |-> view(j - 1).state, local |-> view(j - 1).local, peers |-> view(j - 1).peers,
                 authorities |-> [view(j - 1).authorities EXCEPT ![list[j].entity] = list[j].peer]]
        <5> HIDE DEF view, list
        <5> QED
          BY <3>3, LearnsFields
      <4> HIDE DEF told, list
      <4> QED
        BY <3>4, <4>1
    <3> HIDE DEF views, packets, view, list
    <3> QED
      BY <3>2, <3>5, <3>6
  <2> QED
    BY <2>1, <2>2
<1>12. view(n) = [state |-> "Online", local |-> id, peers |-> {hostPeer} \cup peers[Host], authorities |-> known]
  <2> HIDE DEF told, known
  <2> QED
    BY <1>8
<1> HIDE DEF views, view, packets, n
<1>13. Told(first, packets, view(n))
  BY <1>6, <1>10, <1>11 DEF Told
<1> QED
  BY <1>12, <1>13 DEF packets

learnedStep(views, first, packets, n) ==
  [i \in 0 .. n |-> IF i = 0 THEN first ELSE Learns(views[i - 1], packets[i])]

\* The view that what is told leads to is what a client learns from it.
LEMMA ToldIsLearned ==
  ASSUME NEW first, NEW packets \in Seq(Packets), NEW last, Told(first, packets, last)
  PROVE  Learned(first, packets) = last
<1> DEFINE n == Len(packets)
           after == CHOOSE after : after = learnedStep(after, first, packets, n)
<1>1. n \in Nat
  BY LenProperties
<1>2. PICK views \in [0 .. n -> Views] : views[0] = first /\ views[n] = last /\ Tells(views, packets)
  BY DEF Told
<1>3. views = learnedStep(views, first, packets, n)
  <2>1. \A i \in 0 .. n : i # 0 => i \in 1 .. n
    BY <1>1
  <2>2. \A i \in 0 .. n : views[i] = IF i = 0 THEN first ELSE Learns(views[i - 1], packets[i])
    BY <1>2, <2>1 DEF Tells
  <2> HIDE DEF n
  <2>3. views = [i \in 0 .. n |-> views[i]]
    BY <1>2
  <2> QED
    BY <2>2, <2>3 DEF learnedStep
<1>4. after = learnedStep(after, first, packets, n)
  BY <1>3
<1>5. Learned(first, packets) = after[n]
  BY DEF Learned, learnedStep
<1> HIDE DEF after
<1> DEFINE Bad == {k \in 0 .. n : after[k] # views[k]}
<1>6. Bad = {}
  <2>1. SUFFICES ASSUME Bad # {} PROVE FALSE
    OBVIOUS
  <2>2. PICK k \in Bad : \A m \in Bad : k <= m
    <3>1. Bad \in SUBSET Nat
      BY <1>1
    <3> HIDE DEF Bad
    <3> QED
      BY <2>1, <3>1, LeastNat
  <2>3. \A i \in 0 .. n :
          /\ after[i] = IF i = 0 THEN first ELSE Learns(after[i - 1], packets[i])
          /\ views[i] = IF i = 0 THEN first ELSE Learns(views[i - 1], packets[i])
    <3> HIDE DEF Bad, n
    <3> QED
      BY <1>3, <1>4 DEF learnedStep
  <2>4. k \in 0 .. n /\ after[k] # views[k]
    OBVIOUS
  <2>5. k # 0
    BY <2>3, <2>4
  <2>6. k - 1 \in 0 .. n /\ ~(k <= k - 1)
    BY <1>1, <2>4, <2>5
  <2>7. after[k - 1] = views[k - 1]
    BY <2>2, <2>6
  <2> HIDE DEF Bad
  <2> QED
    BY <2>3, <2>4, <2>5, <2>7
<1> QED
  BY <1>1, <1>2, <1>5, <1>6

-----------------------------------------------------------------------------
(* The invariant *)

\* A link is that of one player.
LinksAreOwn ==
  /\ \A p \in Players : server[p] <= spent.links
  /\ \A p, q \in Players : server[p] = server[q] /\ server[p] # NoLink => p = q

\* The host answers links that were asked for, makes clients of those it answered only, and says
\* nothing before.
LinksAreAnswered ==
  \A k \in Links :
    /\ answered[k] => k <= spent.links
    /\ clientId[k] # 0 => answered[k]
    /\ ~answered[k] => down[k]["Reliable"] = <<>>

StatesFollow ==
  \A p \in Players :
    /\ state[p] = "Offline" <=> server[p] = NoLink
    /\ server[p] # NoLink /\ ~answered[server[p]] => state[p] = "Connecting"

\* The players the host knows are its clients, and it has none outside a session.
HostKnowsItsClients ==
  /\ state[Host] \in {"Offline", "Online"}
  /\ state[Host] = "Online" => local[Host] = hostPeer
  /\ state[Host] = "Offline" => \A k \in Links : clientId[k] = 0
  /\ nextPeer > hostPeer
  /\ \A k \in Links : clientId[k] # 0 => clientId[k] \in peers[Host]
  /\ \A id \in peers[Host] : \E k \in Links : clientId[k] # 0 /\ clientId[k] = id

\* What is on its way to a player in a session follows what it knows and, as long as it is a client
\* of the host, leads to what the host knows.
ToldTo(p) ==
  server[p] # NoLink =>
    \E last :
      /\ Told(Known(p), down[server[p]]["Reliable"], last)
      /\ server[p] \in Clients => last = HostsView(clientId[server[p]])

Book == NumbersAreUnique /\ LinksAreOwn /\ LinksAreAnswered /\ StatesFollow /\ HostKnowsItsClients

AllAreTold == \A p \in Players : ToldTo(p)

Inv == TypeOK /\ Book /\ AllAreTold

-----------------------------------------------------------------------------
(* How the invariant is kept *)

\* What a client knows and what the host knows are views.
LEMMA ViewsAreTyped ==
  ASSUME TypeOK
  PROVE  /\ \A p \in Players : Known(p) \in Views
         /\ \A id \in PeerIds : HostsView(id) \in Views
<1>1. \A p \in Players : Known(p) \in Views
  BY HostTypes DEF TypeOK, Known, Views
<1>2. \A id \in PeerIds : {hostPeer} \cup (peers[Host] \ {id}) \in SUBSET PeerIds
  BY HostTypes DEF PeerIds, hostPeer
<1>3. \A id \in PeerIds : HostsView(id) \in Views
  BY <1>2, HostTypes DEF HostsView, Views
<1> QED
  BY <1>1, <1>3

\* What is on its way to a player.
LEMMA ChannelTypes ==
  ASSUME TypeOK, NEW p \in Players, server[p] # NoLink
  PROVE  /\ server[p] \in Links /\ p \in Games /\ p # Host
         /\ down[server[p]]["Reliable"] \in Seq(Packets)
<1>1. server[p] \in Links /\ p \in Games /\ "Reliable" \in Deliveries
  BY HostTypes DEF TypeOK, Deliveries
<1> QED
  BY <1>1, SessionAssumption DEF TypeOK

\* A step that sends a client nothing, and changes neither what it knows nor what the host does,
\* leaves its chain.
LEMMA ToldNoMore ==
  ASSUME NEW p \in Players, ToldTo(p), Known(p)' = Known(p), server'[p] = server[p],
         server[p] # NoLink => down'[server[p]]["Reliable"] = down[server[p]]["Reliable"],
         server[p] \in Clients' =>
           server[p] \in Clients /\ HostsView(clientId[server[p]])' = HostsView(clientId[server[p]])
  PROVE  ToldTo(p)'
<1> SUFFICES ASSUME server[p] # NoLink PROVE ToldTo(p)'
  BY DEF ToldTo
<1>1. PICK last :
        /\ Told(Known(p), down[server[p]]["Reliable"], last)
        /\ server[p] \in Clients => last = HostsView(clientId[server[p]])
  BY DEF ToldTo
<1>2. Told(Known(p)', down'[server'[p]]["Reliable"], last)
  BY <1>1
<1>3. server'[p] \in Clients' => last = HostsView(clientId[server[p]])'
  BY <1>1
<1> QED
  BY <1>2, <1>3 DEF ToldTo

\* A step that sends a client one packet, which changes the view of the host as it will that of the
\* client, makes its chain one longer.
LEMMA ToldOneMore ==
  ASSUME TypeOK, NEW p \in Players, ToldTo(p), Known(p)' = Known(p), server'[p] = server[p],
         server[p] # NoLink, server[p] \in Clients, NEW packet \in Packets,
         down'[server[p]]["Reliable"] = down[server[p]]["Reliable"] \o <<packet>>,
         Follows(HostsView(clientId[server[p]]), packet),
         server[p] \in Clients' =>
           HostsView(clientId[server[p]])' = Learns(HostsView(clientId[server[p]]), packet)
  PROVE  ToldTo(p)'
<1> DEFINE last == HostsView(clientId[server[p]])
<1>1. Told(Known(p), down[server[p]]["Reliable"], last)
  BY DEF ToldTo
<1>2. Told(Known(p), down[server[p]]["Reliable"] \o <<packet>>, Learns(last, packet))
  <2> HIDE DEF last
  <2>1. down[server[p]]["Reliable"] \in Seq(Packets)
    BY ChannelTypes
  <2>2. Follows(last, packet)
    BY DEF last
  <2> QED
    BY <1>1, <2>1, <2>2, ToldAppend
<1>3. Told(Known(p)', down'[server'[p]]["Reliable"], Learns(last, packet))
  BY <1>2
<1>4. server'[p] \in Clients' => Learns(last, packet) = HostsView(clientId[server[p]])'
  OBVIOUS
<1> QED
  BY <1>3, <1>4 DEF ToldTo

\* Steps that leave alone who plays, what they know and the reliable channels.
LEMMA NothingTold ==
  ASSUME AllAreTold, TypeOK,
         UNCHANGED <<state, local, peers, authorities, server, clientId>>,
         \A k \in Links : down'[k]["Reliable"] = down[k]["Reliable"]
  PROVE  AllAreTold'
<1> SUFFICES ASSUME NEW p \in Players PROVE ToldTo(p)'
  BY DEF AllAreTold
<1>1. ToldTo(p) /\ Known(p)' = Known(p) /\ server'[p] = server[p]
  BY DEF AllAreTold, Known
<1>2. server[p] # NoLink => down'[server[p]]["Reliable"] = down[server[p]]["Reliable"]
  BY ChannelTypes
<1>3. Clients' = Clients /\ HostsView(clientId[server[p]])' = HostsView(clientId[server[p]])
  BY DEF Clients, HostsView
<1> QED
  BY <1>1, <1>2, <1>3, ToldNoMore

\* Steps that leave alone who plays, whatever is sent to the clients.
LEMMA SameBook ==
  ASSUME TypeOK, Book,
         UNCHANGED <<state, server, clientId, answered, nextPeer>>,
         local'[Host] = local[Host], peers'[Host] = peers[Host], spent'.links = spent.links,
         \A k \in Links : clientId[k] = 0 /\ down[k]["Reliable"] = <<>> => down'[k]["Reliable"] = <<>>
  PROVE  Book'
<1>1. LinksAreAnswered'
  BY DEF Book, LinksAreAnswered
<1>2. NumbersAreUnique' /\ LinksAreOwn' /\ StatesFollow' /\ HostKnowsItsClients'
  BY DEF Book, NumbersAreUnique, Clients, LinksAreOwn, StatesFollow, HostKnowsItsClients
<1> QED
  BY <1>1, <1>2 DEF Book

\* Nobody is in the session at first, and nothing is on its way.
LEMMA InitInv == Init => Inv
<1> SUFFICES ASSUME Init PROVE Inv
  OBVIOUS
<1>1. TypeOK
  BY InitTypes
<1>2. Book
  <2>1. Host \in Games /\ Players \subseteq Games
    BY DEF Games
  <2>2. \A k \in Links : down[k]["Reliable"] = <<>>
    BY DEF Init, Silent, Deliveries
  <2> QED
    BY <2>1, <2>2 DEF Init, Book, NumbersAreUnique, Clients, LinksAreOwn, LinksAreAnswered, StatesFollow,
                      HostKnowsItsClients, hostPeer, NoLink
<1>3. AllAreTold
  BY DEF Init, AllAreTold, ToldTo
<1> QED
  BY <1>1, <1>2, <1>3 DEF Inv

\* What a game does in its frame is no part of the accounts.
LEMMA FrameKeepsInv ==
  ASSUME Inv, Frame
  PROVE  Inv'
<1>1. TypeOK /\ Book /\ AllAreTold /\ TypeOK'
  BY FrameTypes DEF Inv
<1>2. UNCHANGED <<state, local, peers, authorities, server, clientId, answered, nextPeer, down, spent>>
  BY DEF Frame, poll, keepAlive, serviceEnds, hostVars, wires
<1>3. Book'
  BY <1>1, <1>2, SameBook
<1>4. AllAreTold'
  BY <1>1, <1>2, NothingTold
<1> QED
  BY <1>1, <1>3, <1>4 DEF Inv

\* A link that is lost takes a client from the host, later.
LEMMA NetworkKeepsInv ==
  ASSUME Inv, Network
  PROVE  Inv'
<1>1. TypeOK /\ Book /\ AllAreTold /\ TypeOK'
  BY loseTypes DEF Inv, Network
<1>2. UNCHANGED <<state, local, peers, authorities, server, clientId, answered, nextPeer, spent>>
  BY DEF Network, lose, hostVars
<1>3. \A k \in Links : down'[k]["Reliable"] = down[k]["Reliable"]
  <2>1. PICK k \in Links : lose(k)
    BY DEF Network
  <2>2. down' = down \/ down' = [down EXCEPT ![k]["Unreliable"] = Tail(@)]
    BY <2>1 DEF lose
  <2>3. down \in Wires(Packets) /\ "Reliable" \in Deliveries /\ "Unreliable" \in Deliveries
    BY <1>1, HostTypes DEF Deliveries
  <2>4. CASE down' = [down EXCEPT ![k]["Unreliable"] = Tail(@)]
    BY <2>3, <2>4, TailLeaves
  <2> QED
    BY <2>2, <2>4
<1>4. Book'
  BY <1>1, <1>2, <1>3, SameBook
<1>5. AllAreTold'
  BY <1>1, <1>2, <1>3, NothingTold
<1> QED
  BY <1>1, <1>4, <1>5 DEF Inv

\* The links the host sends on are those of the players that are its clients.
LEMMA ReachedOf ==
  ASSUME TypeOK, NEW p \in Players, server[p] # NoLink
  PROVE  server[p] \in Reached
BY DEF Reached

\* A connection the host refuses gets no welcome.
LEMMA RefusedKeepsInv ==
  ASSUME Inv, NEW k \in Links, clientConnected(k), Refused(k)
  PROVE  Inv'
<1>1. TypeOK /\ Book /\ AllAreTold /\ TypeOK'
  BY HostServiceTypes DEF Inv, HostService
<1>2. /\ answered' = [answered EXCEPT ![k] = TRUE] /\ k <= spent.links
      /\ UNCHANGED <<state, local, peers, authorities, server, clientId, nextPeer, down, spent>>
  BY DEF clientConnected, Refused
<1>3. Book'
  BY <1>1, <1>2 DEF Book, NumbersAreUnique, Clients, LinksAreOwn, LinksAreAnswered, StatesFollow,
                    HostKnowsItsClients, TypeOK
<1>4. AllAreTold'
  BY <1>1, <1>2, NothingTold
<1> QED
  BY <1>1, <1>3, <1>4 DEF Inv

\* A newcomer is told all there is, and the others of it.
LEMMA AcceptedKeepsInv ==
  ASSUME Inv, NEW k \in Links, clientConnected(k), Accepted(k)
  PROVE  Inv'
<1> DEFINE id == nextPeer
           joined == [kind |-> "PeerJoined", peer |-> id]
           told == tellClients(joined, k)
           welcome == <<WelcomePacket(id)>> \o Decided
<1>1. TypeOK /\ Book /\ AllAreTold /\ TypeOK'
  BY HostServiceTypes DEF Inv, HostService
<1>2. /\ answered' = [answered EXCEPT ![k] = TRUE] /\ nextPeer' = id + 1
      /\ down' = Sent(told, {k} \cap Reached, "Reliable", welcome)
      /\ clientId' = [clientId EXCEPT ![k] = id]
      /\ peers' = [peers EXCEPT ![Host] = peers[Host] \cup {id}]
      /\ UNCHANGED <<state, local, authorities, server, spent>>
      /\ state[Host] = "Online" /\ k <= spent.links /\ ~answered[k]
  BY DEF clientConnected, Accepted
<1>3. /\ id \in PeerIds /\ id \in Nat /\ id > 1 /\ hostPeer = 1
      /\ \A l \in Links : clientId[l] # 0 => clientId[l] # id /\ clientId[l] \in peers[Host]
      /\ id \notin peers[Host] /\ clientId[k] = 0
  <2>1. id \in Nat /\ id > 1
    BY <1>1 DEF TypeOK, PeerIds, Book, HostKnowsItsClients, hostPeer
  <2>2. \A l \in Links : clientId[l] # 0 => clientId[l] \in 2 .. id - 1
    BY <1>1 DEF Book, NumbersAreUnique, Clients, hostPeer
  <2>3. \A n \in 2 .. id - 1 : n # id
    BY <2>1
  <2>4. clientId[k] = 0
    BY <1>1, <1>2 DEF Book, LinksAreAnswered
  <2>5. \A n \in peers[Host] : \E l \in Links : clientId[l] # 0 /\ clientId[l] = n
    BY <1>1 DEF Book, HostKnowsItsClients
  <2>6. \A l \in Links : clientId[l] # 0 => clientId[l] \in peers[Host]
    BY <1>1 DEF Book, HostKnowsItsClients
  <2>7. \A l \in Links : clientId[l] # 0 => clientId[l] # id
    BY <2>2, <2>3
  <2>8. id \notin peers[Host]
    BY <2>5, <2>7
  <2> QED
    BY <2>1, <2>4, <2>6, <2>7, <2>8 DEF PeerIds, hostPeer
<1>4. joined \in Packets /\ welcome \in Seq(Packets) /\ "Reliable" \in Deliveries
  <2>1. WelcomePacket(id) \in Packets
    BY <1>1, <1>3, HostTypes DEF WelcomePacket, WelcomePackets, Packets
  <2>2. Decided \in Seq(Packets)
    BY <1>1, DecidedLists DEF TypeOK
  <2> QED
    BY <1>3, <2>1, <2>2, PacketsAreTyped, ConcatProperties DEF Deliveries
<1>5. \A l \in Links :
        down'[l]["Reliable"] =
          IF l = k /\ l \in Reached THEN down[l]["Reliable"] \o welcome
          ELSE IF l \in (Clients \cap Reached) \ {k} THEN down[l]["Reliable"] \o <<joined>>
          ELSE down[l]["Reliable"]
  <2> HIDE DEF joined, welcome
  <2>1. told \in Wires(Packets)
    BY <1>1, <1>4, TellTypes
  <2>2. \A l \in Links :
          told[l]["Reliable"] = IF l \in (Clients \cap Reached) \ {k}
                                  THEN down[l]["Reliable"] \o <<joined>> ELSE down[l]["Reliable"]
    BY <1>1, <1>4, TellTypes
  <2> HIDE DEF told
  <2>3. \A l \in Links :
          Sent(told, {k} \cap Reached, "Reliable", welcome)[l]["Reliable"] =
            IF l \in {k} \cap Reached THEN told[l]["Reliable"] \o welcome ELSE told[l]["Reliable"]
    BY <1>4, <2>1, SentAppends
  <2> QED
    BY <1>2, <2>2, <2>3
<1> HIDE DEF joined, welcome, told
<1>6. Book'
  <2>1. NumbersAreUnique'
    <3>1. \A l \in Links : clientId'[l] = IF l = k THEN id ELSE clientId[l]
      BY <1>1, <1>2 DEF TypeOK
    <3>2. \A l \in Links : clientId[l] # 0 => clientId[l] \in 2 .. id - 1
      BY <1>1 DEF Book, NumbersAreUnique, Clients, hostPeer
    <3>3. \A l \in Links : clientId'[l] # 0 => clientId'[l] \in 2 .. nextPeer' - 1
      BY <1>2, <1>3, <3>1, <3>2
    <3>4. \A l, m \in Links : clientId'[l] # 0 /\ clientId'[m] # 0 /\ clientId'[l] = clientId'[m] => l = m
      BY <1>1, <1>3, <3>1 DEF Book, NumbersAreUnique, Clients
    <3> QED
      BY <3>3, <3>4 DEF NumbersAreUnique, Clients, hostPeer
  <2>2. LinksAreOwn' /\ StatesFollow'
    BY <1>1, <1>2 DEF Book, LinksAreOwn, StatesFollow, TypeOK
  <2>3. LinksAreAnswered'
    <3>1. \A l \in Links : clientId'[l] = (IF l = k THEN id ELSE clientId[l])
                           /\ answered'[l] = (IF l = k THEN TRUE ELSE answered[l])
      BY <1>1, <1>2 DEF TypeOK
    <3>2. \A l \in Links : ~answered'[l] => down'[l]["Reliable"] = <<>>
      <4> SUFFICES ASSUME NEW l \in Links, ~answered'[l] PROVE down'[l]["Reliable"] = <<>>
        OBVIOUS
      <4>1. l # k /\ ~answered[l] /\ clientId[l] = 0 /\ down[l]["Reliable"] = <<>>
        BY <1>1, <3>1 DEF Book, LinksAreAnswered
      <4> QED
        BY <1>5, <4>1 DEF Clients
    <3> QED
      BY <1>1, <1>2, <3>1, <3>2 DEF Book, LinksAreAnswered
  <2>4. HostKnowsItsClients'
    <3>1. \A l \in Links : clientId'[l] = IF l = k THEN id ELSE clientId[l]
      BY <1>1, <1>2 DEF TypeOK
    <3>2. peers'[Host] = peers[Host] \cup {id}
      BY <1>1, <1>2, HostTypes DEF TypeOK
    <3> QED
      BY <1>1, <1>2, <1>3, <3>1, <3>2 DEF Book, HostKnowsItsClients
  <2> QED
    BY <2>1, <2>2, <2>3, <2>4 DEF Book
<1>7. AllAreTold'
  <2> SUFFICES ASSUME NEW p \in Players, server[p] # NoLink PROVE ToldTo(p)'
    BY <1>2 DEF AllAreTold, ToldTo
  <2>1. ToldTo(p) /\ server[p] \in Links /\ server[p] \in Reached /\ p # Host /\ p \in Games /\ Host \in Games
    BY <1>1, ChannelTypes, ReachedOf, HostTypes DEF AllAreTold
  <2>2. Known(p)' = Known(p) /\ server'[p] = server[p]
    BY <1>1, <1>2, <2>1 DEF Known, TypeOK
  <2>3. peers'[Host] = peers[Host] \cup {id}
    BY <1>1, <1>2, <2>1 DEF TypeOK
  <2>4. CASE server[p] = k
    <3>1. state[p] = "Connecting" /\ down[k]["Reliable"] = <<>>
      BY <1>1, <1>2, <2>4 DEF Book, StatesFollow, LinksAreAnswered
    <3>2. Known(p) \in Views /\ Known(p).state = "Connecting"
      BY <1>1, <3>1, ViewsAreTyped DEF Known
    <3> DEFINE last == [state |-> "Online", local |-> id, peers |-> {hostPeer} \cup peers[Host],
                        authorities |-> authorities[Host]]
    <3>3. Told(Known(p), welcome, last)
      BY <1>1, <1>3, <3>2, ToldDecided DEF welcome
    <3>4. down'[server'[p]]["Reliable"] = welcome
      <4>1. down'[k]["Reliable"] = <<>> \o welcome
        BY <1>5, <2>1, <2>4, <3>1
      <4>2. <<>> \o welcome = welcome
        BY <1>4, ConcatEmptySeq
      <4> QED
        BY <2>2, <2>4, <4>1, <4>2
    <3>5. HostsView(clientId[server[p]])' = last
      <4>1. clientId'[server'[p]] = id
        BY <1>1, <1>2, <2>2, <2>4 DEF TypeOK
      <4>2. (peers[Host] \cup {id}) \ {id} = peers[Host]
        BY <1>3
      <4> QED
        BY <1>2, <2>3, <4>1, <4>2 DEF HostsView
    <3> HIDE DEF last
    <3> QED
      BY <2>2, <3>3, <3>4, <3>5 DEF ToldTo
  <2>5. CASE server[p] # k /\ server[p] \in Clients
    <3> DEFINE own == clientId[server[p]]
    <3>1. own \in PeerIds /\ own \in Nat /\ own # id /\ own # 0 /\ clientId'[server'[p]] = own
      BY <1>1, <1>2, <1>3, <2>1, <2>2, <2>5 DEF TypeOK, Clients, PeerIds
    <3>2. down'[server[p]]["Reliable"] = down[server[p]]["Reliable"] \o <<joined>>
      BY <1>5, <2>1, <2>5
    <3>3. HostsView(own) \in Views /\ joined.kind = "PeerJoined" /\ joined.peer = id
      BY <1>1, <3>1, ViewsAreTyped DEF joined
    <3>4. Follows(HostsView(own), joined)
      BY <1>3, <3>1, <3>3 DEF Follows, HostsView
    <3>5. Learns(HostsView(own), joined)
            = [state |-> "Online", local |-> own, peers |-> ({hostPeer} \cup (peers[Host] \ {own})) \cup {id},
               authorities |-> authorities[Host]]
      BY <1>4, <3>3, LearnsFields DEF HostsView
    <3>6. HostsView(clientId[server[p]])'
            = [state |-> "Online", local |-> own, peers |-> {hostPeer} \cup ((peers[Host] \cup {id}) \ {own}),
               authorities |-> authorities[Host]]
      BY <1>2, <2>3, <3>1 DEF HostsView
    <3>7. ({hostPeer} \cup (peers[Host] \ {own})) \cup {id} = {hostPeer} \cup ((peers[Host] \cup {id}) \ {own})
      BY <3>1
    <3> QED
      BY <1>1, <1>4, <2>1, <2>2, <2>5, <3>2, <3>4, <3>5, <3>6, <3>7, ToldOneMore
  <2>6. CASE server[p] # k /\ server[p] \notin Clients
    <3>1. down'[server[p]]["Reliable"] = down[server[p]]["Reliable"]
      BY <1>5, <2>1, <2>6
    <3>2. server[p] \notin Clients'
      BY <1>1, <1>2, <2>1, <2>6 DEF Clients, TypeOK
    <3> QED
      BY <2>1, <2>2, <3>1, <3>2, ToldNoMore
  <2> QED
    BY <2>4, <2>5, <2>6
<1> QED
  BY <1>1, <1>6, <1>7 DEF Inv

\* Who stays is told of who leaves, and the host forgets that it decides.
LEMMA clientLeftKeepsInv ==
  ASSUME Inv, NEW k \in Links, clientLeft(k)
  PROVE  Inv'
<1> DEFINE id == clientId[k]
           left == [kind |-> "PeerLeft", peer |-> id]
<1>1. TypeOK /\ Book /\ AllAreTold /\ TypeOK'
  BY HostServiceTypes DEF Inv, HostService
<1>2. /\ clientId' = [clientId EXCEPT ![k] = 0] /\ k \in Clients
      /\ peers' = [peers EXCEPT ![Host] = peers[Host] \ {id}]
      /\ authorities' = [authorities EXCEPT ![Host] = forgetAuthorityOf(authorities[Host], id)]
      /\ down' = tellClients(left, k)
      /\ UNCHANGED <<state, local, server, answered, nextPeer, spent>>
  BY DEF clientLeft
<1>3. /\ id \in PeerIds /\ id # 0 /\ id \in peers[Host] /\ id # hostPeer
      /\ \A l \in Links : clientId[l] = id => l = k
  <2>1. id \in PeerIds /\ id # 0
    BY <1>1, <1>2 DEF TypeOK, Clients
  <2>2. id \in peers[Host] /\ \A l \in Links : clientId[l] = id => l = k
    BY <1>1, <1>2, <2>1 DEF Book, HostKnowsItsClients, NumbersAreUnique, Clients
  <2>3. id \in hostPeer + 1 .. nextPeer - 1
    BY <1>1, <1>2 DEF Book, NumbersAreUnique
  <2>4. nextPeer \in Nat
    BY <1>1 DEF TypeOK, PeerIds
  <2>5. id # hostPeer
    BY <2>3, <2>4 DEF hostPeer
  <2> QED
    BY <2>1, <2>2, <2>5
<1>4. left \in Packets
  BY <1>3, PacketsAreTyped
<1>5. \A l \in Links :
        down'[l]["Reliable"] = IF l \in (Clients \cap Reached) \ {k}
                                 THEN down[l]["Reliable"] \o <<left>> ELSE down[l]["Reliable"]
  <2> HIDE DEF left
  <2>1. "Reliable" \in Deliveries
    BY DEF Deliveries
  <2>2. \A l \in Links, d \in Deliveries :
          tellClients(left, k)[l][d] = IF l \in (Clients \cap Reached) \ {k} /\ d = "Reliable"
                                         THEN down[l][d] \o <<left>> ELSE down[l][d]
    BY <1>1, <1>4, TellTypes
  <2> QED
    BY <1>2, <2>1, <2>2
<1> HIDE DEF left
<1>6. \A l \in Links : clientId'[l] = IF l = k THEN 0 ELSE clientId[l]
  BY <1>1, <1>2 DEF TypeOK
<1>7. peers'[Host] = peers[Host] \ {id}
  BY <1>1, <1>2, HostTypes DEF TypeOK
<1>8. Book'
  <2>1. NumbersAreUnique' /\ LinksAreOwn' /\ StatesFollow'
    BY <1>1, <1>2, <1>6 DEF Book, NumbersAreUnique, Clients, LinksAreOwn, StatesFollow
  <2>2. LinksAreAnswered'
    <3>1. \A l \in Links : ~answered[l] => down'[l]["Reliable"] = <<>>
      BY <1>1, <1>5 DEF Book, LinksAreAnswered, Clients
    <3> QED
      BY <1>1, <1>2, <1>6, <3>1 DEF Book, LinksAreAnswered
  <2>3. HostKnowsItsClients'
    BY <1>1, <1>2, <1>3, <1>6, <1>7 DEF Book, HostKnowsItsClients
  <2> QED
    BY <2>1, <2>2, <2>3 DEF Book
<1>9. AllAreTold'
  <2> SUFFICES ASSUME NEW p \in Players, server[p] # NoLink PROVE ToldTo(p)'
    BY <1>2 DEF AllAreTold, ToldTo
  <2>1. ToldTo(p) /\ server[p] \in Links /\ server[p] \in Reached /\ p # Host /\ p \in Games /\ Host \in Games
    BY <1>1, ChannelTypes, ReachedOf, HostTypes DEF AllAreTold
  <2>2. Known(p)' = Known(p) /\ server'[p] = server[p]
    BY <1>1, <1>2, <2>1 DEF Known, TypeOK
  <2>3. CASE server[p] # k /\ server[p] \in Clients
    <3> DEFINE own == clientId[server[p]]
    <3>1. own \in PeerIds /\ own # id /\ clientId'[server'[p]] = own
      BY <1>1, <1>3, <1>6, <2>1, <2>2, <2>3 DEF TypeOK
    <3>2. down'[server[p]]["Reliable"] = down[server[p]]["Reliable"] \o <<left>>
      BY <1>5, <2>1, <2>3
    <3>3. HostsView(own) \in Views /\ left.kind = "PeerLeft" /\ left.peer = id
      BY <1>1, <3>1, ViewsAreTyped DEF left
    <3>4. Follows(HostsView(own), left)
      BY <1>3, <3>1, <3>3 DEF Follows, HostsView
    <3>5. Learns(HostsView(own), left)
            = [state |-> "Online", local |-> own, peers |-> ({hostPeer} \cup (peers[Host] \ {own})) \ {id},
               authorities |-> forgetAuthorityOf(authorities[Host], id)]
      BY <1>4, <3>3, LearnsFields DEF HostsView
    <3>6. authorities'[Host] = forgetAuthorityOf(authorities[Host], id)
      BY <1>1, <1>2, <2>1 DEF TypeOK
    <3>7. HostsView(clientId[server[p]])'
            = [state |-> "Online", local |-> own, peers |-> {hostPeer} \cup ((peers[Host] \ {id}) \ {own}),
               authorities |-> forgetAuthorityOf(authorities[Host], id)]
      BY <1>7, <3>1, <3>6 DEF HostsView
    <3>8. ({hostPeer} \cup (peers[Host] \ {own})) \ {id} = {hostPeer} \cup ((peers[Host] \ {id}) \ {own})
      BY <1>3
    <3> QED
      BY <1>1, <1>4, <2>1, <2>2, <2>3, <3>2, <3>4, <3>5, <3>7, <3>8, ToldOneMore
  <2>4. CASE server[p] = k \/ server[p] \notin Clients
    <3>1. down'[server[p]]["Reliable"] = down[server[p]]["Reliable"]
      BY <1>5, <2>1, <2>4
    <3>2. server[p] \notin Clients'
      BY <1>6, <2>1, <2>4 DEF Clients
    <3> QED
      BY <2>1, <2>2, <3>1, <3>2, ToldNoMore
  <2> QED
    BY <2>3, <2>4
<1> QED
  BY <1>1, <1>8, <1>9 DEF Inv

\* Data that the host sends to some of its clients teaches nothing, and may follow what they know.
LEMMA DataIsTold ==
  ASSUME TypeOK, Book, AllAreTold,
         UNCHANGED <<state, local, peers, authorities, server, clientId, answered, nextPeer>>,
         spent'.links = spent.links,
         NEW links \in SUBSET Clients, NEW d \in Deliveries, NEW packet \in Packets,
         packet.kind \in {"Data", "Rpc", "Replication"},
         \A k \in links : Follows(HostsView(clientId[k]), packet),
         down' = Sent(down, links, d, <<packet>>)
  PROVE  Book' /\ AllAreTold'
<1> DEFINE one == <<packet>>
<1>1. one \in Seq(Packets) /\ "Reliable" \in Deliveries /\ down \in Wires(Packets)
  BY HostTypes DEF Deliveries
<1>2. \A k \in Links :
        down'[k]["Reliable"] = IF k \in links /\ d = "Reliable"
                                 THEN down[k]["Reliable"] \o one ELSE down[k]["Reliable"]
  <2> HIDE DEF one
  <2>1. \A k \in Links, c \in Deliveries :
          Sent(down, links, d, one)[k][c] = IF k \in links /\ c = d THEN down[k][c] \o one ELSE down[k][c]
    BY <1>1, SentAppends
  <2>2. down' = Sent(down, links, d, one)
    BY DEF one
  <2> QED
    BY <1>1, <2>1, <2>2
<1>3. Book'
  <2>1. \A k \in Links : clientId[k] = 0 /\ down[k]["Reliable"] = <<>> => down'[k]["Reliable"] = <<>>
    BY <1>2 DEF Clients
  <2> QED
    BY <2>1, SameBook
<1>4. AllAreTold'
  <2> SUFFICES ASSUME NEW p \in Players, server[p] # NoLink PROVE ToldTo(p)'
    BY DEF AllAreTold, ToldTo
  <2>1. ToldTo(p) /\ server[p] \in Links /\ Known(p)' = Known(p) /\ server'[p] = server[p]
    BY ChannelTypes DEF AllAreTold, Known
  <2>2. Clients' = Clients /\ HostsView(clientId[server[p]])' = HostsView(clientId[server[p]])
    BY DEF Clients, HostsView
  <2>3. CASE server[p] \in links /\ d = "Reliable"
    <3>1. server[p] \in Clients /\ down'[server[p]]["Reliable"] = down[server[p]]["Reliable"] \o <<packet>>
      BY <1>2, <2>1, <2>3
    <3>2. Follows(HostsView(clientId[server[p]]), packet)
      BY <2>3
    <3>3. HostsView(clientId[server[p]]) \in Views
      <4>1. clientId[server[p]] \in PeerIds
        BY <2>1 DEF TypeOK
      <4> QED
        BY <4>1, ViewsAreTyped
    <3>4. Learns(HostsView(clientId[server[p]]), packet) = HostsView(clientId[server[p]])
      BY <3>3, LearnsFields
    <3> QED
      BY <2>1, <2>2, <3>1, <3>2, <3>4, ToldOneMore
  <2>4. CASE ~(server[p] \in links /\ d = "Reliable")
    <3>1. down'[server[p]]["Reliable"] = down[server[p]]["Reliable"]
      BY <1>2, <2>1, <2>4
    <3> QED
      BY <2>1, <2>2, <3>1, ToldNoMore
  <2> QED
    BY <2>3, <2>4
<1> QED
  BY <1>3, <1>4

\* The host passes on what its clients may say, to the others.
LEMMA relayKeepsInv ==
  ASSUME Inv, NEW k \in Links, NEW d \in Deliveries, relay(k, d)
  PROVE  Inv'
<1> DEFINE packet == Head(up[k][d])
           from == clientId[k]
           passed == Packet(packet.kind, from, packet.to, packet.call)
           others == IF packet.kind = "Replication" \/ packet.to = hostPeer THEN {}
                     ELSE {c \in Clients \cap Reached :
                             clientId[c] # from /\ packet.to \in {everyone, clientId[c]}}
<1>1. TypeOK /\ Book /\ AllAreTold /\ TypeOK'
  BY HostServiceTypes DEF Inv, HostService
<1>2. /\ k \in Clients /\ up[k][d] # <<>>
      /\ UNCHANGED <<state, local, peers, authorities, server, clientId, answered, nextPeer, spent>>
      /\ \/ down' = down
         \/ /\ ~(packet.kind = "Rpc" /\ ~accepts(Host, packet.call, from))
            /\ down' = Sent(down, others, d, <<passed>>)
  BY DEF relay, hostVars
<1>3. packet \in DataPackets
  BY <1>1, <1>2, HostTypes, TailTypes
<1>4. packet.kind \in {"Data", "Rpc", "Replication"} /\ packet.to \in PeerIds /\ packet.call \in Calls
  BY <1>3 DEF DataPackets
<1>5. from \in PeerIds /\ from # 0 /\ from \in peers[Host]
  BY <1>1, <1>2 DEF TypeOK, Clients, Book, HostKnowsItsClients
<1>6. /\ passed \in Packets /\ passed.kind = packet.kind /\ passed.from = from /\ passed.call = packet.call
      /\ passed.kind \in {"Data", "Rpc", "Replication"}
  BY <1>4, <1>5, PacketsAreTyped DEF Packet
<1>7. others \in SUBSET Clients /\ \A c \in others : clientId[c] # from
  OBVIOUS
<1> HIDE DEF packet, from, passed, others
<1>8. CASE down' = down
  <2>1. Book'
    BY <1>1, <1>2, <1>8, SameBook
  <2>2. AllAreTold'
    BY <1>1, <1>2, <1>8, NothingTold
  <2> QED
    BY <1>1, <2>1, <2>2 DEF Inv
<1>9. CASE /\ ~(packet.kind = "Rpc" /\ ~accepts(Host, packet.call, from))
           /\ down' = Sent(down, others, d, <<passed>>)
  <2>1. \A c \in others : Follows(HostsView(clientId[c]), passed)
    BY <1>5, <1>6, <1>7, <1>9 DEF Follows, HostsView, accepts, authorityOf
  <2>2. Book' /\ AllAreTold'
    BY <1>1, <1>2, <1>6, <1>7, <1>9, <2>1, DataIsTold
  <2> QED
    BY <1>1, <2>2 DEF Inv
<1> QED
  BY <1>2, <1>8, <1>9

\* The host answers, forgets and hears clients: every other client is told once.
LEMMA HostServiceKeepsInv ==
  ASSUME Inv, HostService
  PROVE  Inv'
<1>1. PICK k \in Links : clientConnected(k) \/ clientLeft(k) \/ \E d \in Deliveries : relay(k, d)
  BY DEF HostService
<1>2. CASE clientConnected(k)
  <2>1. Refused(k) \/ Accepted(k)
    BY <1>2 DEF clientConnected
  <2> QED
    BY <1>2, <2>1, RefusedKeepsInv, AcceptedKeepsInv
<1> QED
  BY <1>1, <1>2, clientLeftKeepsInv, relayKeepsInv

\* A client that reads its next reliable packet knows then what the packet teaches.
LEMMA ReadsKeepsInv ==
  ASSUME Inv, TypeOK', NEW p \in Players, Takes(p, "Reliable"),
         Known(p)' = Learns(Known(p), Incoming(p, "Reliable")),
         \A g \in Games : g # p => /\ state'[g] = state[g] /\ local'[g] = local[g]
                                   /\ peers'[g] = peers[g] /\ authorities'[g] = authorities[g],
         state'[p] # "Offline"
  PROVE  Inv'
<1>1. TypeOK /\ Book /\ AllAreTold
  BY DEF Inv
<1> DEFINE k == server[p]
           packets == down[k]["Reliable"]
<1>2. /\ k # NoLink /\ packets # <<>> /\ k \in Links /\ packets \in Seq(Packets) /\ p \in Games /\ p # Host
      /\ down' = [down EXCEPT ![k]["Reliable"] = Tail(@)]
      /\ UNCHANGED <<server, clientId, answered, nextPeer, spent>>
  BY <1>1, ChannelTypes DEF Takes, hostVars
<1>3. \A l \in Links : down'[l]["Reliable"] = IF l = k THEN Tail(packets) ELSE down[l]["Reliable"]
  <2>1. "Reliable" \in Deliveries /\ down \in Wires(Packets)
    BY <1>1, HostTypes DEF Deliveries
  <2>2. \A l \in Links, c \in Deliveries :
          [down EXCEPT ![k]["Reliable"] = Tail(@)][l][c]
            = IF l = k /\ c = "Reliable" THEN Tail(down[k]["Reliable"]) ELSE down[l][c]
    BY <1>2, <2>1, TailLeaves
  <2> QED
    BY <1>2, <2>1, <2>2
<1>4. Host \in Games /\ Players \subseteq Games
  BY <1>1, HostTypes
<1>5. Book'
  <2>1. answered[k]
    BY <1>1, <1>2 DEF Book, LinksAreAnswered
  <2>2. StatesFollow'
    <3> SUFFICES ASSUME NEW q \in Players
                 PROVE  /\ state'[q] = "Offline" <=> server[q] = NoLink
                        /\ server[q] # NoLink /\ ~answered[server[q]] => state'[q] = "Connecting"
      BY <1>2 DEF StatesFollow
    <3>1. CASE q = p
      BY <1>2, <2>1, <3>1
    <3>2. CASE q # p
      BY <1>1, <1>4, <3>2 DEF Book, StatesFollow
    <3> QED
      BY <3>1, <3>2
  <2>3. LinksAreAnswered'
    <3>1. \A l \in Links : ~answered[l] => down'[l]["Reliable"] = <<>>
      BY <1>1, <1>3, <2>1 DEF Book, LinksAreAnswered
    <3> QED
      BY <1>1, <1>2, <3>1 DEF Book, LinksAreAnswered
  <2>4. NumbersAreUnique' /\ LinksAreOwn'
    BY <1>1, <1>2 DEF Book, NumbersAreUnique, Clients, LinksAreOwn
  <2>5. HostKnowsItsClients'
    <3>1. state'[Host] = state[Host] /\ local'[Host] = local[Host] /\ peers'[Host] = peers[Host]
      BY <1>2, <1>4
    <3> QED
      BY <1>1, <1>2, <3>1 DEF Book, HostKnowsItsClients
  <2> QED
    BY <2>2, <2>3, <2>4, <2>5 DEF Book
<1>6. AllAreTold'
  <2> SUFFICES ASSUME NEW q \in Players, server[q] # NoLink PROVE ToldTo(q)'
    BY <1>2 DEF AllAreTold, ToldTo
  <2>1. Clients' = Clients /\ HostsView(clientId[server[q]])' = HostsView(clientId[server[q]])
    BY <1>2, <1>4 DEF Clients, HostsView
  <2>2. CASE q = p
    <3>1. PICK last : /\ Told(Known(p), packets, last)
                      /\ k \in Clients => last = HostsView(clientId[k])
      BY <1>1, <1>2 DEF AllAreTold, ToldTo
    <3>2. Told(Learns(Known(p), Head(packets)), Tail(packets), last)
      <4> HIDE DEF packets
      <4> QED
        BY <1>2, <3>1, ToldHead
    <3>3. Told(Known(p)', down'[server'[p]]["Reliable"], last)
      <4>1. down'[server'[p]]["Reliable"] = Tail(packets)
        BY <1>2, <1>3
      <4>2. Incoming(p, "Reliable") = Head(packets)
        BY DEF Incoming
      <4> HIDE DEF packets
      <4> QED
        BY <3>2, <4>1, <4>2
    <3>4. server'[p] \in Clients' => last = HostsView(clientId[server[p]])'
      BY <1>2, <2>1, <2>2, <3>1
    <3> QED
      BY <2>2, <3>3, <3>4 DEF ToldTo
  <2>3. CASE q # p
    <3>1. server[q] # k /\ server[q] \in Links
      BY <1>1, <1>2, <2>3, ChannelTypes DEF Book, LinksAreOwn
    <3>2. down'[server[q]]["Reliable"] = down[server[q]]["Reliable"]
      BY <1>3, <3>1
    <3>3. Known(q)' = Known(q) /\ ToldTo(q) /\ server'[q] = server[q]
      BY <1>1, <1>2, <1>4, <2>3 DEF Known, AllAreTold
    <3> QED
      BY <2>1, <3>2, <3>3, ToldNoMore
  <2> QED
    BY <2>2, <2>3
<1> QED
  BY <1>5, <1>6 DEF Inv

\* What a client takes from its wire is the next link of its chain.
LEMMA receivedKeepsInv ==
  ASSUME Inv, NEW p \in Players, received(p)
  PROVE  Inv'
<1>1. TypeOK /\ Book /\ AllAreTold /\ TypeOK'
  BY receivedTypes DEF Inv
<1> DEFINE packet == Incoming(p, "Reliable")
<1>2. Takes(p, "Reliable") =>
        /\ packet \in Packets /\ p \in Games /\ p # Host /\ Known(p) \in Views
        /\ state[p] # "Offline" /\ (packet.kind = "Welcome" => state[p] = "Connecting")
  <2> SUFFICES ASSUME Takes(p, "Reliable")
               PROVE  /\ packet \in Packets /\ p \in Games /\ p # Host /\ Known(p) \in Views
                      /\ state[p] # "Offline" /\ (packet.kind = "Welcome" => state[p] = "Connecting")
    OBVIOUS
  <2>1. "Reliable" \in Deliveries /\ server[p] # NoLink /\ down[server[p]]["Reliable"] # <<>>
    BY DEF Deliveries, Takes
  <2>2. packet \in Packets /\ p \in Games /\ p # Host
    BY <1>1, <2>1, TakesTypes, ChannelTypes
  <2>3. state[p] # "Offline"
    BY <1>1, <2>1 DEF Book, StatesFollow
  <2>4. Follows(Known(p), packet)
    <3>1. PICK last : Told(Known(p), down[server[p]]["Reliable"], last)
      BY <1>1, <2>1 DEF AllAreTold, ToldTo
    <3>2. down[server[p]]["Reliable"] \in Seq(Packets)
      BY <1>1, <2>1, ChannelTypes
    <3> QED
      BY <2>1, <3>1, <3>2, ToldHead DEF Incoming
  <2> QED
    BY <1>1, <2>2, <2>3, <2>4, ViewsAreTyped DEF Follows, Known
<1> HIDE DEF packet
<1>3. CASE welcomed(p)
  <2>1. /\ Takes(p, "Reliable") /\ packet.kind = "Welcome"
        /\ local' = [local EXCEPT ![p] = packet.id]
        /\ peers' = [peers EXCEPT ![p] = {hostPeer} \cup packet.others]
        /\ authorities' = [authorities EXCEPT ![p] = NoAuthority]
        /\ state' = [state EXCEPT ![p] = "Online"]
    BY <1>3 DEF welcomed, packet
  <2>2. Known(p)' = [state |-> "Online", local |-> packet.id, peers |-> {hostPeer} \cup packet.others,
                     authorities |-> NoAuthority]
    BY <1>1, <1>2, <2>1 DEF Known, TypeOK
  <2>3. Known(p)' = Learns(Known(p), packet)
    BY <1>2, <2>1, <2>2, LearnsFields
  <2>4. /\ state'[p] # "Offline"
        /\ \A g \in Games : g # p => /\ state'[g] = state[g] /\ local'[g] = local[g]
                                     /\ peers'[g] = peers[g] /\ authorities'[g] = authorities[g]
    BY <1>1, <1>2, <2>1 DEF TypeOK
  <2> QED
    BY <1>1, <2>1, <2>3, <2>4, ReadsKeepsInv DEF packet
<1>4. CASE peerJoined(p)
  <2>1. /\ Takes(p, "Reliable") /\ packet.kind = "PeerJoined"
        /\ peers' = [peers EXCEPT ![p] = peers[p] \cup {packet.peer}]
        /\ UNCHANGED <<local, authorities, state>>
    BY <1>4 DEF peerJoined, packet
  <2>2. Known(p)' = [state |-> state[p], local |-> local[p], peers |-> peers[p] \cup {packet.peer},
                     authorities |-> authorities[p]]
    BY <1>1, <1>2, <2>1 DEF Known, TypeOK
  <2>3. Known(p)' = Learns(Known(p), packet)
    BY <1>2, <2>1, <2>2, LearnsFields DEF Known
  <2>4. /\ state'[p] # "Offline"
        /\ \A g \in Games : g # p => /\ state'[g] = state[g] /\ local'[g] = local[g]
                                     /\ peers'[g] = peers[g] /\ authorities'[g] = authorities[g]
    BY <1>1, <1>2, <2>1 DEF TypeOK
  <2> QED
    BY <1>1, <2>1, <2>3, <2>4, ReadsKeepsInv DEF packet
<1>5. CASE peerLeft(p)
  <2>1. /\ Takes(p, "Reliable") /\ packet.kind = "PeerLeft"
        /\ peers' = [peers EXCEPT ![p] = peers[p] \ {packet.peer}]
        /\ authorities' = [authorities EXCEPT ![p] = forgetAuthorityOf(authorities[p], packet.peer)]
        /\ UNCHANGED <<local, state>>
    BY <1>5 DEF peerLeft, packet
  <2>2. Known(p)' = [state |-> state[p], local |-> local[p], peers |-> peers[p] \ {packet.peer},
                     authorities |-> forgetAuthorityOf(authorities[p], packet.peer)]
    BY <1>1, <1>2, <2>1 DEF Known, TypeOK
  <2>3. Known(p)' = Learns(Known(p), packet)
    BY <1>2, <2>1, <2>2, LearnsFields DEF Known
  <2>4. /\ state'[p] # "Offline"
        /\ \A g \in Games : g # p => /\ state'[g] = state[g] /\ local'[g] = local[g]
                                     /\ peers'[g] = peers[g] /\ authorities'[g] = authorities[g]
    BY <1>1, <1>2, <2>1 DEF TypeOK
  <2> QED
    BY <1>1, <2>1, <2>3, <2>4, ReadsKeepsInv DEF packet
<1>6. CASE authorityGiven(p)
  <2>1. /\ Takes(p, "Reliable") /\ packet.kind = "Authority"
        /\ authorities' = [authorities EXCEPT ![p][packet.entity] = packet.peer]
        /\ UNCHANGED <<local, state, peers>>
    BY <1>6 DEF authorityGiven, packet
  <2>2. authorities'[p] = [authorities[p] EXCEPT ![packet.entity] = packet.peer]
    BY <1>1, <1>2, <2>1 DEF TypeOK
  <2>3. Known(p)' = [state |-> state[p], local |-> local[p], peers |-> peers[p],
                     authorities |-> [authorities[p] EXCEPT ![packet.entity] = packet.peer]]
    BY <2>1, <2>2 DEF Known
  <2>4. Known(p)' = Learns(Known(p), packet)
    BY <1>2, <2>1, <2>3, LearnsFields DEF Known
  <2>5. /\ state'[p] # "Offline"
        /\ \A g \in Games : g # p => /\ state'[g] = state[g] /\ local'[g] = local[g]
                                     /\ peers'[g] = peers[g] /\ authorities'[g] = authorities[g]
    BY <1>1, <1>2, <2>1 DEF TypeOK
  <2> QED
    BY <1>1, <2>1, <2>4, <2>5, ReadsKeepsInv DEF packet
<1>7. CASE dataReceived(p, "Reliable")
  <2>1. /\ Takes(p, "Reliable") /\ packet.kind \in {"Data", "Rpc", "Replication"}
        /\ UNCHANGED <<local, state, peers, authorities>>
    BY <1>7 DEF dataReceived, packet
  <2>2. Known(p)' = Known(p) /\ Known(p) = Learns(Known(p), packet)
    BY <1>2, <2>1, LearnsFields DEF Known
  <2> QED
    BY <1>1, <1>2, <2>1, <2>2, ReadsKeepsInv DEF packet
<1>8. CASE dataReceived(p, "Unreliable")
  <2>1. /\ down' = [down EXCEPT ![server[p]]["Unreliable"] = Tail(@)] /\ server[p] # NoLink
        /\ UNCHANGED <<local, state, peers, authorities, server, clientId, answered, nextPeer, spent>>
    BY <1>8 DEF dataReceived, Takes, hostVars
  <2>2. \A k \in Links : down'[k]["Reliable"] = down[k]["Reliable"]
    <3>1. /\ down \in Wires(Packets) /\ "Reliable" \in Deliveries /\ "Unreliable" \in Deliveries
          /\ server[p] \in Links
      BY <1>1, <2>1, HostTypes, ChannelTypes DEF Deliveries
    <3> QED
      BY <2>1, <3>1, TailLeaves
  <2>3. Book'
    BY <1>1, <2>1, <2>2, SameBook
  <2>4. AllAreTold'
    BY <1>1, <2>1, <2>2, NothingTold
  <2> QED
    BY <1>1, <2>3, <2>4 DEF Inv
<1> QED
  BY <1>3, <1>4, <1>5, <1>6, <1>7, <1>8 DEF received, Deliveries

\* A client that closes its link is told nothing more, and nobody else is concerned.
LEMMA closesKeepsInv ==
  ASSUME Inv, TypeOK', NEW p \in Players, server[p] # NoLink, ClientCloses(p),
         UNCHANGED <<clientId, answered, nextPeer, spent>>
  PROVE  Inv'
<1>1. TypeOK /\ Book /\ AllAreTold
  BY DEF Inv
<1>2. /\ server[p] \in Links /\ p \in Games /\ p # Host /\ Host \in Games /\ Players \subseteq Games
  BY <1>1, ChannelTypes, HostTypes
<1>3. /\ server'[p] = NoLink /\ state'[p] = "Offline"
      /\ \A q \in Players : q # p => server'[q] = server[q]
      /\ \A g \in Games : g # p => /\ state'[g] = state[g] /\ local'[g] = local[g]
                                   /\ peers'[g] = peers[g] /\ authorities'[g] = authorities[g]
  BY <1>1, <1>2 DEF ClientCloses, TypeOK
<1>4. \A k \in Links : down'[k]["Reliable"] = IF k = server[p] THEN <<>> ELSE down[k]["Reliable"]
  <2>1. Silent["Reliable"] = <<>>
    BY DEF Silent, Deliveries
  <2> QED
    BY <1>1, <2>1 DEF ClientCloses, TypeOK
<1>5. Book'
  <2>1. NumbersAreUnique'
    BY <1>1 DEF Book, NumbersAreUnique, Clients
  <2>2. LinksAreOwn'
    <3>1. spent.links \in Nat
      BY <1>1, CountsAreTyped
    <3> QED
      BY <1>1, <1>3, <3>1 DEF Book, LinksAreOwn, NoLink
  <2>3. LinksAreAnswered'
    BY <1>1, <1>4 DEF Book, LinksAreAnswered
  <2>4. StatesFollow'
    <3> SUFFICES ASSUME NEW q \in Players
                 PROVE  /\ state'[q] = "Offline" <=> server'[q] = NoLink
                        /\ server'[q] # NoLink /\ ~answered[server'[q]] => state'[q] = "Connecting"
      BY DEF StatesFollow
    <3> QED
      BY <1>1, <1>2, <1>3 DEF Book, StatesFollow
  <2>5. HostKnowsItsClients'
    <3>1. state'[Host] = state[Host] /\ local'[Host] = local[Host] /\ peers'[Host] = peers[Host]
      BY <1>2, <1>3
    <3> QED
      BY <1>1, <3>1 DEF Book, HostKnowsItsClients
  <2> QED
    BY <2>1, <2>2, <2>3, <2>4, <2>5 DEF Book
<1>6. AllAreTold'
  <2> SUFFICES ASSUME NEW q \in Players, q # p PROVE ToldTo(q)'
    BY <1>3 DEF AllAreTold, ToldTo
  <2>1. server'[q] = server[q] /\ ToldTo(q) /\ Known(q)' = Known(q)
    BY <1>1, <1>2, <1>3 DEF AllAreTold, Known
  <2>2. server[q] # NoLink => down'[server[q]]["Reliable"] = down[server[q]]["Reliable"]
    <3> SUFFICES ASSUME server[q] # NoLink PROVE down'[server[q]]["Reliable"] = down[server[q]]["Reliable"]
      OBVIOUS
    <3>1. server[q] \in Links /\ server[q] # server[p]
      BY <1>1, ChannelTypes DEF Book, LinksAreOwn
    <3> QED
      BY <1>4, <3>1
  <2>3. Clients' = Clients /\ HostsView(clientId[server[q]])' = HostsView(clientId[server[q]])
    BY <1>2, <1>3, <2>1 DEF Clients, HostsView
  <2> QED
    BY <2>1, <2>2, <2>3, ToldNoMore
<1> QED
  BY <1>5, <1>6 DEF Inv

\* A client takes a packet, or finds its link gone.
LEMMA ClientServiceKeepsInv ==
  ASSUME Inv, ClientService
  PROVE  Inv'
<1>1. PICK p \in Players : received(p) \/ disconnected(p)
  BY DEF ClientService
<1>2. CASE disconnected(p)
  <2>1. server[p] # NoLink /\ ClientCloses(p) /\ UNCHANGED <<clientId, answered, nextPeer, spent>>
    BY <1>2 DEF disconnected, hostVars
  <2>2. TypeOK'
    BY <1>2, disconnectedTypes DEF Inv
  <2> QED
    BY <2>1, <2>2, closesKeepsInv
<1> QED
  BY <1>1, <1>2, receivedKeepsInv

\* A host that begins has no clients.
LEMMA hostKeepsInv ==
  ASSUME Inv, host
  PROVE  Inv'
<1>1. TypeOK /\ Book /\ AllAreTold /\ TypeOK'
  BY MembershipTypes DEF Inv, Membership
<1>2. /\ state[Host] = "Offline" /\ state' = [state EXCEPT ![Host] = "Online"]
      /\ local' = [local EXCEPT ![Host] = hostPeer] /\ nextPeer' = hostPeer + 1
      /\ spent' = [spent EXCEPT !.sessions = @ + 1]
      /\ UNCHANGED <<peers, authorities, server, clientId, answered, down>>
  BY DEF host, wires
<1>3. Host \in Games /\ Players \subseteq Games /\ Host \notin Players
  BY <1>1, HostTypes, SessionAssumption
<1>4. \A p \in Players : state'[p] = state[p] /\ local'[p] = local[p]
  BY <1>1, <1>2, <1>3 DEF TypeOK
<1>5. Clients = {} /\ Clients' = {}
  BY <1>1, <1>2 DEF Clients, Book, HostKnowsItsClients
<1>6. Book'
  <2>1. spent'.links = spent.links
    BY <1>1, <1>2, CountsAreTyped
  <2>2. NumbersAreUnique'
    BY <1>5 DEF NumbersAreUnique
  <2>3. LinksAreOwn' /\ LinksAreAnswered' /\ StatesFollow'
    BY <1>1, <1>2, <1>4, <2>1 DEF Book, LinksAreOwn, LinksAreAnswered, StatesFollow
  <2>4. HostKnowsItsClients'
    <3>1. state'[Host] = "Online" /\ local'[Host] = hostPeer /\ nextPeer' > hostPeer
      BY <1>1, <1>2, <1>3 DEF TypeOK, hostPeer
    <3> QED
      BY <1>1, <1>2, <3>1 DEF Book, HostKnowsItsClients
  <2> QED
    BY <2>2, <2>3, <2>4 DEF Book
<1>7. AllAreTold'
  <2> SUFFICES ASSUME NEW p \in Players PROVE ToldTo(p)'
    BY DEF AllAreTold
  <2>1. ToldTo(p) /\ Known(p)' = Known(p) /\ server'[p] = server[p]
    BY <1>1, <1>2, <1>4 DEF AllAreTold, Known
  <2> QED
    BY <1>2, <1>5, <2>1, ToldNoMore
<1> QED
  BY <1>1, <1>6, <1>7 DEF Inv

\* A host that ends leaves clients whose links are closed.
LEMMA hostLeavesKeepsInv ==
  ASSUME Inv, hostLeaves
  PROVE  Inv'
<1>1. TypeOK /\ Book /\ AllAreTold /\ TypeOK'
  BY MembershipTypes DEF Inv, Membership
<1>2. /\ clientId' = [k \in Links |-> 0] /\ peers' = [peers EXCEPT ![Host] = {}]
      /\ authorities' = [authorities EXCEPT ![Host] = NoAuthority]
      /\ state' = [state EXCEPT ![Host] = "Offline"] /\ local' = [local EXCEPT ![Host] = 0]
      /\ UNCHANGED <<server, answered, nextPeer, down, spent>>
  BY DEF hostLeaves
<1>3. Host \in Games /\ Players \subseteq Games /\ Host \notin Players
  BY <1>1, HostTypes, SessionAssumption
<1>4. \A p \in Players : /\ state'[p] = state[p] /\ local'[p] = local[p]
                         /\ peers'[p] = peers[p] /\ authorities'[p] = authorities[p]
  BY <1>1, <1>2, <1>3 DEF TypeOK
<1>5. Clients' = {} /\ \A k \in Links : clientId'[k] = 0
  BY <1>2 DEF Clients
<1>6. Book'
  <2>1. NumbersAreUnique'
    BY <1>5 DEF NumbersAreUnique
  <2>2. LinksAreOwn' /\ LinksAreAnswered' /\ StatesFollow'
    BY <1>1, <1>2, <1>4, <1>5 DEF Book, LinksAreOwn, LinksAreAnswered, StatesFollow
  <2>3. HostKnowsItsClients'
    <3>1. state'[Host] = "Offline" /\ peers'[Host] = {}
      BY <1>1, <1>2, <1>3 DEF TypeOK
    <3> QED
      BY <1>1, <1>2, <1>5, <3>1 DEF Book, HostKnowsItsClients
  <2> QED
    BY <2>1, <2>2, <2>3 DEF Book
<1>7. AllAreTold'
  <2> SUFFICES ASSUME NEW p \in Players PROVE ToldTo(p)'
    BY DEF AllAreTold
  <2>1. ToldTo(p) /\ Known(p)' = Known(p) /\ server'[p] = server[p]
    BY <1>1, <1>2, <1>4 DEF AllAreTold, Known
  <2> QED
    BY <1>2, <1>5, <2>1, ToldNoMore
<1> QED
  BY <1>1, <1>6, <1>7 DEF Inv

\* A link that is asked for is new: nothing is on it, and it is no client's.
LEMMA joinKeepsInv ==
  ASSUME Inv, NEW p \in Players, join(p)
  PROVE  Inv'
<1> DEFINE k == spent.links + 1
<1>1. TypeOK /\ Book /\ AllAreTold /\ TypeOK'
  BY MembershipTypes DEF Inv, Membership
<1>2. /\ state[p] = "Offline" /\ spent.links < MaxLinks /\ server' = [server EXCEPT ![p] = k]
      /\ state' = [state EXCEPT ![p] = "Connecting"] /\ spent' = [spent EXCEPT !.links = @ + 1]
      /\ UNCHANGED <<local, peers, authorities, clientId, answered, nextPeer, down>>
  BY DEF join, hostVars, wires
<1>3. /\ Host \in Games /\ Players \subseteq Games /\ p \in Games /\ p # Host
      /\ spent.links \in Nat /\ k \in Links /\ k # NoLink /\ spent'.links = k
  <2>1. Host \in Games /\ Players \subseteq Games /\ p \in Games /\ p # Host
    BY <1>1, HostTypes, SessionAssumption
  <2>2. spent.links \in Nat /\ k \in Links /\ k # NoLink
    BY <1>1, <1>2, CountsAreTyped, SessionAssumption DEF Links, NoLink
  <2>3. spent'.links = k
    BY <1>1, <1>2, CountsAreTyped
  <2> QED
    BY <2>1, <2>2, <2>3
<1>4. /\ server'[p] = k /\ \A q \in Players : q # p => server'[q] = server[q]
      /\ state'[p] = "Connecting" /\ \A g \in Games : g # p => state'[g] = state[g]
  BY <1>1, <1>2, <1>3 DEF TypeOK
<1>5. ~answered[k] /\ clientId[k] = 0 /\ down[k]["Reliable"] = <<>>
  <2>1. ~(k <= spent.links)
    BY <1>3
  <2> QED
    BY <1>1, <1>3, <2>1 DEF Book, LinksAreAnswered
<1>6. \A q \in Players : server[q] \in Nat /\ server[q] <= spent.links
  BY <1>1 DEF TypeOK, Links, NoLink, Book, LinksAreOwn
<1>7. \A i \in Nat : i <= spent.links => i # k /\ i <= k
  BY <1>3
<1> HIDE DEF k
<1>8. Book'
  <2>1. LinksAreOwn'
    <3>1. \A q \in Players : server'[q] <= k
      BY <1>3, <1>4, <1>6, <1>7 DEF Links
    <3>2. \A q \in Players : q # p => server'[q] # k
      BY <1>4, <1>6, <1>7
    <3> QED
      BY <1>1, <1>3, <1>4, <3>1, <3>2 DEF Book, LinksAreOwn
  <2>2. LinksAreAnswered'
    <3>1. \A l \in Links : l <= spent.links => l <= k
      BY <1>7 DEF Links
    <3> QED
      BY <1>1, <1>2, <1>3, <3>1 DEF Book, LinksAreAnswered
  <2>3. StatesFollow'
    <3> SUFFICES ASSUME NEW q \in Players
                 PROVE  /\ state'[q] = "Offline" <=> server'[q] = NoLink
                        /\ server'[q] # NoLink /\ ~answered'[server'[q]] => state'[q] = "Connecting"
      BY DEF StatesFollow
    <3>1. CASE q = p
      BY <1>3, <1>4, <3>1
    <3>2. CASE q # p
      BY <1>1, <1>2, <1>3, <1>4, <3>2 DEF Book, StatesFollow
    <3> QED
      BY <3>1, <3>2
  <2>4. NumbersAreUnique' /\ HostKnowsItsClients'
    BY <1>1, <1>2, <1>3, <1>4 DEF Book, NumbersAreUnique, Clients, HostKnowsItsClients
  <2> QED
    BY <2>1, <2>2, <2>3, <2>4 DEF Book
<1>9. AllAreTold'
  <2> SUFFICES ASSUME NEW q \in Players PROVE ToldTo(q)'
    BY DEF AllAreTold
  <2>1. CASE q = p
    <3>1. Known(p)' \in Views
      BY <1>1, <1>3 DEF TypeOK, Known, Views
    <3>2. Told(Known(p)', <<>>, Known(p)')
      BY <3>1, ToldEmpty
    <3>3. down'[server'[p]]["Reliable"] = <<>> /\ server'[p] \notin Clients'
      BY <1>2, <1>4, <1>5 DEF Clients
    <3> QED
      BY <2>1, <3>2, <3>3 DEF ToldTo
  <2>2. CASE q # p
    <3>1. ToldTo(q) /\ Known(q)' = Known(q) /\ server'[q] = server[q]
      BY <1>1, <1>2, <1>3, <1>4, <2>2 DEF AllAreTold, Known
    <3>2. Clients' = Clients /\ HostsView(clientId[server[q]])' = HostsView(clientId[server[q]])
      BY <1>2, <3>1 DEF Clients, HostsView
    <3> QED
      BY <1>2, <3>1, <3>2, ToldNoMore
  <2> QED
    BY <2>1, <2>2
<1> QED
  BY <1>1, <1>8, <1>9 DEF Inv

\* Games host, join and leave.
LEMMA MembershipKeepsInv ==
  ASSUME Inv, Membership
  PROVE  Inv'
<1>1. CASE \E p \in Players : clientLeaves(p)
  <2>1. PICK p \in Players : clientLeaves(p)
    BY <1>1
  <2>2. server[p] # NoLink /\ ClientCloses(p) /\ UNCHANGED <<clientId, answered, nextPeer, spent>>
    BY <2>1 DEF clientLeaves, hostVars
  <2>3. TypeOK'
    BY MembershipTypes DEF Inv
  <2> QED
    BY <2>2, <2>3, closesKeepsInv
<1> QED
  BY <1>1, hostKeepsInv, hostLeavesKeepsInv, joinKeepsInv DEF Membership

\* What the host gives, its clients are told; what another game gives, it does in no session yet.
LEMMA AuthorityKeepsInv ==
  ASSUME Inv, Authority
  PROVE  Inv'
<1>1. PICK g \in Games, e \in Entities, peer \in PeerIds : Grant(g, e, peer) /\ UNCHANGED events
  BY AuthorityGrants DEF Inv
<1> DEFINE packet == AuthorityPacket(e, peer)
           links == Clients \cap Reached
<1>2. TypeOK /\ Book /\ AllAreTold /\ TypeOK'
  BY <1>1, GrantTypes DEF Inv
<1>3. /\ state[g] # "Online" \/ g = Host
      /\ authorities' = [authorities EXCEPT ![g] = [authorities[g] EXCEPT ![e] = peer]]
      /\ down' = IF g = Host THEN Sent(down, links, "Reliable", <<packet>>) ELSE down
      /\ spent' = [spent EXCEPT !.grants = @ + 1]
      /\ UNCHANGED <<state, local, peers, server, clientId, answered, nextPeer>>
  BY <1>1 DEF Grant, hostVars
<1>4. /\ packet \in Packets /\ packet.kind = "Authority" /\ packet.entity = e /\ packet.peer = peer
      /\ Host \in Games /\ Players \subseteq Games /\ Host \notin Players /\ spent'.links = spent.links
  BY <1>2, <1>3, HostTypes, PacketsAreTyped, CountsAreTyped, SessionAssumption DEF AuthorityPacket
<1>5. /\ authorities'[g] = [authorities[g] EXCEPT ![e] = peer]
      /\ \A h \in Games : h # g => authorities'[h] = authorities[h]
  BY <1>2, <1>3 DEF TypeOK
<1>6. \A k \in Links :
        down'[k]["Reliable"] = IF g = Host /\ k \in links
                                 THEN down[k]["Reliable"] \o <<packet>> ELSE down[k]["Reliable"]
  <2> DEFINE one == <<packet>>
  <2>1. one \in Seq(Packets) /\ "Reliable" \in Deliveries /\ down \in Wires(Packets)
    BY <1>2, <1>4, HostTypes DEF Deliveries
  <2>2. down' = IF g = Host THEN Sent(down, links, "Reliable", one) ELSE down
    BY <1>3
  <2> HIDE DEF one, packet, links
  <2>3. \A k \in Links, d \in Deliveries :
          Sent(down, links, "Reliable", one)[k][d] =
            IF k \in links /\ d = "Reliable" THEN down[k][d] \o one ELSE down[k][d]
    BY <2>1, SentAppends
  <2>4. \A k \in Links :
          down'[k]["Reliable"] = IF g = Host /\ k \in links
                                   THEN down[k]["Reliable"] \o one ELSE down[k]["Reliable"]
    BY <2>1, <2>2, <2>3
  <2> QED
    BY <2>4 DEF one
<1> HIDE DEF packet
<1>7. Book'
  <2>1. \A k \in Links : clientId[k] = 0 /\ down[k]["Reliable"] = <<>> => down'[k]["Reliable"] = <<>>
    BY <1>6 DEF Clients
  <2> QED
    BY <1>2, <1>3, <1>4, <2>1, SameBook
<1>8. Clients' = Clients
  BY <1>3 DEF Clients
<1>9. AllAreTold'
  <2> SUFFICES ASSUME NEW p \in Players, server[p] # NoLink PROVE ToldTo(p)'
    BY <1>3 DEF AllAreTold, ToldTo
  <2> DEFINE own == clientId[server[p]]
  <2>1. ToldTo(p) /\ server[p] \in Links /\ server[p] \in Reached /\ p \in Games /\ p # Host /\ server'[p] = server[p]
    BY <1>2, <1>3, ChannelTypes, ReachedOf DEF AllAreTold
  <2>2. own \in PeerIds /\ clientId'[server'[p]] = own
    BY <1>2, <1>3, <2>1 DEF TypeOK
  <2>3. CASE g = Host /\ server[p] \in Clients
    <3>1. Known(p)' = Known(p)
      BY <1>3, <1>4, <1>5, <2>1, <2>3 DEF Known
    <3>2. down'[server[p]]["Reliable"] = down[server[p]]["Reliable"] \o <<packet>>
      BY <1>6, <2>1, <2>3
    <3>3. HostsView(own) \in Views
      BY <1>2, <2>2, ViewsAreTyped
    <3>4. Follows(HostsView(own), packet)
      BY <1>4 DEF Follows, HostsView
    <3>5. Learns(HostsView(own), packet)
            = [state |-> "Online", local |-> own, peers |-> {hostPeer} \cup (peers[Host] \ {own}),
               authorities |-> [authorities[Host] EXCEPT ![e] = peer]]
      BY <1>4, <3>3, LearnsFields DEF HostsView
    <3>6. HostsView(clientId[server[p]])'
            = [state |-> "Online", local |-> own, peers |-> {hostPeer} \cup (peers[Host] \ {own}),
               authorities |-> [authorities[Host] EXCEPT ![e] = peer]]
      BY <1>3, <1>5, <2>2, <2>3 DEF HostsView
    <3> QED
      BY <1>2, <1>4, <2>1, <2>3, <3>1, <3>2, <3>4, <3>5, <3>6, ToldOneMore
  <2>4. CASE g = Host /\ server[p] \notin Clients
    <3>1. Known(p)' = Known(p)
      BY <1>3, <1>4, <1>5, <2>1, <2>4 DEF Known
    <3>2. down'[server[p]]["Reliable"] = down[server[p]]["Reliable"]
      BY <1>6, <2>1, <2>4
    <3> QED
      BY <1>8, <2>1, <2>4, <3>1, <3>2, ToldNoMore
  <2>5. CASE g # Host
    <3>1. down'[server[p]]["Reliable"] = down[server[p]]["Reliable"]
      BY <1>6, <2>1, <2>5
    <3>2. HostsView(clientId[server[p]])' = HostsView(clientId[server[p]])
      BY <1>3, <1>4, <1>5, <2>1, <2>5 DEF HostsView
    <3>3. CASE g # p
      <4>1. Known(p)' = Known(p)
        BY <1>3, <1>5, <2>1, <3>3 DEF Known
      <4> QED
        BY <1>8, <2>1, <3>1, <3>2, <4>1, ToldNoMore
    <3>4. CASE g = p
      <4> DEFINE packets == down[server[p]]["Reliable"]
      <4>1. state[p] = "Connecting"
        BY <1>2, <1>3, <2>1, <2>5, <3>4 DEF Book, StatesFollow, TypeOK
      <4>2. packets \in Seq(Packets) /\ Known(p) \in Views /\ Known(p)' \in Views
        BY <1>2, ChannelTypes, ViewsAreTyped DEF TypeOK, Known, Views
      <4>3. PICK last : /\ Told(Known(p), packets, last)
                        /\ server[p] \in Clients => last = HostsView(clientId[server[p]])
        BY <2>1 DEF ToldTo
      <4>4. Known(p)'.state = "Connecting" /\ Known(p).state = "Connecting"
        BY <1>3, <4>1 DEF Known
      <4>5. down'[server'[p]]["Reliable"] = packets
        BY <2>1, <3>1
      <4>6. CASE packets = <<>>
        <5>1. last = Known(p)
          BY <4>2, <4>3, <4>6, ToldEmpty
        <5>2. server[p] \notin Clients
          BY <4>3, <4>4, <5>1 DEF HostsView
        <5>3. Told(Known(p)', <<>>, Known(p)')
          BY <4>2, ToldEmpty
        <5> QED
          BY <1>8, <2>1, <4>5, <4>6, <5>2, <5>3 DEF ToldTo
      <4>7. CASE packets # <<>>
        <5>1. Head(packets).kind = "Welcome"
          <6>1. Follows(Known(p), Head(packets))
            BY <4>2, <4>3, <4>7, ToldHead
          <6> QED
            BY <4>4, <6>1 DEF Follows
        <5>2. Told(Known(p)', packets, last)
          <6> HIDE DEF packets
          <6> QED
            BY <4>2, <4>3, <4>4, <4>7, <5>1, ToldAfresh
        <5> QED
          BY <1>8, <2>1, <3>2, <4>3, <4>5, <5>2 DEF ToldTo
      <4> QED
        BY <4>6, <4>7
    <3> QED
      BY <3>3, <3>4
  <2> QED
    BY <2>3, <2>4, <2>5
<1> QED
  BY <1>2, <1>7, <1>9 DEF Inv

\* What the code of the host sends may follow what its clients know; what a client sends tells nobody yet.
LEMMA SendingKeepsInv ==
  ASSUME Inv, Sending
  PROVE  Inv'
<1>1. TypeOK /\ Book /\ AllAreTold /\ TypeOK'
  BY SendingTypes DEF Inv
<1>2. PICK g \in Games, to \in PeerIds, call \in Calls, kind \in {"Data", "Rpc", "Replication"}, d \in Deliveries :
        /\ Sends(g)
        /\ \/ UNCHANGED wires
           \/ /\ state[g] = "Online"
              /\ kind = "Rpc" => call.method \in AnyPeer \/ isAuthority(g, call.target)
              /\ SendPacket(g, kind, to, call, d)
  BY <1>1, SendingSends
<1>3. /\ UNCHANGED <<state, local, peers, authorities, server, clientId, answered, nextPeer>>
      /\ spent'.links = spent.links
  BY <1>1, <1>2, CountsAreTyped DEF Sends, hostVars
<1>4. CASE down' = down
  <2>1. Book'
    BY <1>1, <1>3, <1>4, SameBook
  <2>2. AllAreTold'
    BY <1>1, <1>3, <1>4, NothingTold
  <2> QED
    BY <1>1, <2>1, <2>2 DEF Inv
<1>5. CASE down' # down
  <2> DEFINE links == {k \in Clients \cap Reached : to \in {everyone, clientId[k]}}
             packet == Packet(kind, local[g], to, call)
  <2>1. /\ g = Host /\ state[Host] = "Online" /\ down' = Sent(down, links, d, <<packet>>)
        /\ kind = "Rpc" => call.method \in AnyPeer \/ isAuthority(Host, call.target)
    BY <1>1, <1>2, <1>5, SendPacketSends DEF wires
  <2>2. local[Host] = hostPeer /\ hostPeer \in PeerIds
    BY <1>1, <2>1 DEF Book, HostKnowsItsClients, PeerIds, hostPeer
  <2>3. /\ packet \in Packets /\ packet.kind = kind /\ packet.from = hostPeer /\ packet.call = call
        /\ packet.kind \in {"Data", "Rpc", "Replication"}
    BY <2>1, <2>2, PacketsAreTyped DEF Packet
  <2>4. links \in SUBSET Clients
    OBVIOUS
  <2> HIDE DEF links, packet
  <2>5. \A k \in links : Follows(HostsView(clientId[k]), packet)
    BY <2>1, <2>2, <2>3 DEF Follows, HostsView, isAuthority, authorityOf
  <2>6. Book' /\ AllAreTold'
    BY <1>1, <1>3, <2>1, <2>3, <2>4, <2>5, DataIsTold
  <2> QED
    BY <1>1, <2>6 DEF Inv
<1> QED
  BY <1>4, <1>5

\* Nothing changes.
LEMMA stutterKeepsInv ==
  ASSUME Inv, UNCHANGED vars
  PROVE  Inv'
<1>1. TypeOK /\ Book /\ AllAreTold /\ TypeOK'
  BY NextTypes DEF Inv
<1>2. UNCHANGED <<state, local, peers, authorities, server, clientId, answered, nextPeer, down, spent>>
  BY DEF vars, hostVars, wires
<1>3. Book'
  BY <1>1, <1>2, SameBook
<1>4. AllAreTold'
  BY <1>1, <1>2, NothingTold
<1> QED
  BY <1>1, <1>3, <1>4 DEF Inv

\* Every step keeps the invariant.
LEMMA NextKeepsInv == Inv /\ [Next]_vars => Inv'
<1> SUFFICES ASSUME Inv, [Next]_vars PROVE Inv'
  OBVIOUS
<1>1. CASE Frame
  BY <1>1, FrameKeepsInv
<1>2. CASE HostService
  BY <1>2, HostServiceKeepsInv
<1>3. CASE ClientService
  BY <1>3, ClientServiceKeepsInv
<1>4. CASE Network
  BY <1>4, NetworkKeepsInv
<1>5. CASE Membership
  BY <1>5, MembershipKeepsInv
<1>6. CASE Authority
  BY <1>6, AuthorityKeepsInv
<1>7. CASE Sending
  BY <1>7, SendingKeepsInv
<1>8. CASE UNCHANGED vars
  BY <1>8, stutterKeepsInv
<1> QED
  BY <1>1, <1>2, <1>3, <1>4, <1>5, <1>6, <1>7, <1>8 DEF Next

-----------------------------------------------------------------------------
(* What the session promises *)

\* The invariant holds whatever the players, the entities, the methods, the places and the bounds.
THEOREM Invariant == Spec => []Inv
<1>1. Init => Inv
  BY InitInv
<1>2. Inv /\ [Next]_vars => Inv'
  BY NextKeepsInv
<1> QED
  BY <1>1, <1>2, PTL DEF Spec

\* No two clients of the host have one number: clientConnected() numbers them, leave() and host()
\* begin again, and a number is never given to a client while another has it.
THEOREM NumbersStayUnique == Spec => []NumbersAreUnique
<1>1. Inv => NumbersAreUnique
  BY DEF Inv, Book
<1> QED
  BY <1>1, Invariant, PTL

\* Whoever reads all that service() still has for it knows what the host knows, however joining,
\* leaving and setAuthority() were interleaved with what is on its way.
THEOREM ViewsAgree == Spec => []ViewsConverge
<1>1. Inv => ViewsConverge
  <2> SUFFICES ASSUME Inv, NEW p \in Players, server[p] \in Clients
               PROVE  Learned(Known(p), down[server[p]]["Reliable"]) = HostsView(clientId[server[p]])
    BY DEF ViewsConverge
  <2>1. server[p] # NoLink
    BY DEF Clients, Links, NoLink
  <2>2. Told(Known(p), down[server[p]]["Reliable"], HostsView(clientId[server[p]]))
    BY <2>1 DEF Inv, AllAreTold, ToldTo
  <2>3. down[server[p]]["Reliable"] \in Seq(Packets)
    BY <2>1, ChannelTypes DEF Inv
  <2> QED
    BY <2>2, <2>3, ToldIsLearned
<1> QED
  BY <1>1, Invariant, PTL

\* The next reliable packet of a player is one it may be told.
LEMMA NextFollows ==
  ASSUME Inv, NEW p \in Players, Awaited(p) # <<>>
  PROVE  Follows(Known(p), Head(Awaited(p)))
<1>1. server[p] # NoLink /\ Awaited(p) = down[server[p]]["Reliable"]
  BY DEF Awaited
<1>2. PICK last : Told(Known(p), Awaited(p), last)
  BY <1>1 DEF Inv, AllAreTold, ToldTo
<1>3. Awaited(p) \in Seq(Packets)
  BY <1>1, ChannelTypes DEF Inv
<1> QED
  BY <1>2, <1>3, ToldHead

\* received() never meets a packet out of its order: the welcome first and once, no player that
\* joins twice or leaves unknown, no word of a stranger.
THEOREM NewsComesInOrder == Spec => []NewsIsInOrder
<1>1. Inv => NewsIsInOrder
  BY NextFollows DEF NewsIsInOrder, Follows, Known
<1> QED
  BY <1>1, Invariant, PTL

\* A call on the reliable channel runs where it arrives: the authority that the host judged it by
\* in service(), or the sender in sendRpc(), is the one accepts() finds there.
THEOREM CallsRun == Spec => []PassedCallsRun
<1>1. Inv => PassedCallsRun
  BY NextFollows DEF PassedCallsRun, Follows, Known, accepts, authorityOf
<1> QED
  BY <1>1, Invariant, PTL
=============================================================================
