------------------------------- MODULE Session -------------------------------
(***************************************************************************)
(* A multiplayer session, as net::Multiplayer keeps it: one game hosts, the *)
(* others join it, and every packet between two clients goes through the    *)
(* host.  Each game runs Multiplayer on its own game thread: it polls once  *)
(* a frame, which reads what ENet has for it packet by packet, and only     *)
(* then does the code of the game read the events and call send, sendRpc,   *)
(* setAuthority, host, join or leave.  Between two games there is a link    *)
(* per attempt to join, with a reliable channel and an unreliable one in    *)
(* each direction, which ENet does not order with each other.               *)
(***************************************************************************)
EXTENDS Integers, FiniteSets, Sequences, SequencesExt

CONSTANTS
  Host,         \* the game that may host
  Players,      \* the games that may join it
  Entities,     \* the entities whose authority is given
  Methods,      \* the methods declared with declareRpc
  AnyPeer,      \* those every player may call
  CallLocal,    \* those that also run on the game that calls them
  Unreliable,   \* those sent on the unreliable channel
  Pausing,      \* the games the editor may pause
  MaxClients,   \* the places host() opens
  MaxLinks,     \* bound: attempts to join
  MaxSessions,  \* bound: calls of host()
  MaxGrants,    \* bound: calls of setAuthority()
  MaxSends      \* bound: calls of send(), sendRpc() and sendReplication()

ASSUME SessionAssumption ==
  /\ Host \notin Players /\ Pausing \subseteq Players \cup {Host} /\ IsFiniteSet(Entities)
  /\ AnyPeer \subseteq Methods /\ CallLocal \subseteq Methods /\ Unreliable \subseteq Methods
  /\ MaxClients \in Nat /\ MaxLinks \in Nat /\ MaxSessions \in Nat
  /\ MaxGrants \in Nat /\ MaxSends \in Nat

everyone == 0
hostPeer == 1
NoLink == 0

Games == Players \cup {Host}
Links == 1 .. MaxLinks
PeerIds == Nat
Deliveries == {"Reliable", "Unreliable"}

Calls == [method : Methods, target : Entities]

(* The packets of the host and of the clients. *)
WelcomePackets == [kind : {"Welcome"}, id : PeerIds, others : SUBSET PeerIds]
PeerPackets == [kind : {"PeerJoined", "PeerLeft"}, peer : PeerIds]
AuthorityPackets == [kind : {"Authority"}, entity : Entities, peer : PeerIds]
DataPackets == [kind : {"Data", "Rpc", "Replication"}, from : PeerIds, to : PeerIds, call : Calls]
Packets == WelcomePackets \cup PeerPackets \cup AuthorityPackets \cup DataPackets

(* `given` counts the frames in which the code of the game was given the event: 2 stands for more. *)
PlainEvents == [kind : {"Connected", "ConnectionFailed", "Disconnected", "PeerJoined", "PeerLeft"},
                peer : PeerIds, given : 0 .. 2]
DataEvents == [kind : {"Message", "Rpc", "Replication"}, peer : PeerIds, call : Calls, given : 0 .. 2]
Events == PlainEvents \cup DataEvents

VARIABLES
  state,        \* of each game: Offline, Connecting or Online
  phase,        \* of each game: in its code, paused, or in service() for poll() or keepAlive()
  local,        \* the number of each game, 0 until it is online
  peers,        \* the other players each game knows
  authorities,  \* who decides for each entity, according to each game
  events,       \* what events() answers in each game
  loopback,     \* the calls each game makes to itself, for its next poll
  server,       \* the link of each player to the host, NoLink outside a session
  clientId,     \* per link: the number the host gave it, 0 when it is not a client
  answered,     \* per link: the host has seen it connect
  nextPeer,     \* the number the host gives next
  down,         \* per link: the packets on their way to the client
  up,           \* per link: the packets on their way to the host
  spent         \* how much of each bound is used

vars == <<state, phase, local, peers, authorities, events, loopback, server,
          clientId, answered, nextPeer, down, up, spent>>
hostVars == <<clientId, answered, nextPeer>>
wires == <<down, up>>

TypeOK ==
  /\ state \in [Games -> {"Offline", "Connecting", "Online"}]
  /\ phase \in [Games -> {"code", "paused", "polling", "keeping"}]
  /\ local \in [Games -> PeerIds]
  /\ peers \in [Games -> SUBSET PeerIds]
  /\ authorities \in [Games -> [Entities -> PeerIds]]
  /\ events \in [Games -> Seq(Events)]
  /\ loopback \in [Games -> Seq(Calls)]
  /\ server \in [Players -> Links \cup {NoLink}]
  /\ clientId \in [Links -> PeerIds]
  /\ answered \in [Links -> BOOLEAN]
  /\ nextPeer \in PeerIds
  /\ down \in [Links -> [Deliveries -> Seq(Packets)]]
  /\ up \in [Links -> [Deliveries -> Seq(DataPackets)]]
  /\ spent \in [links : 0 .. MaxLinks, sessions : 0 .. MaxSessions,
                grants : 0 .. MaxGrants, sends : 0 .. MaxSends]

-----------------------------------------------------------------------------
(* What the games ask of their own state. *)

NoAuthority == [e \in Entities |-> hostPeer]
Silent == [d \in Deliveries |-> <<>>]

InService(g) == phase[g] \in {"polling", "keeping"}
RunsCode(g) == phase[g] = "code"

\* The links whose client is still there: what the host sends on the others is lost.
Reached == {server[p] : p \in Players} \ {NoLink}
Clients == {k \in Links : clientId[k] # 0}

authorityOf(g, e) == authorities[g][e]
isAuthority(g, e) == state[g] # "Online" \/ authorityOf(g, e) = local[g]
caller(g) == IF local[g] # 0 THEN local[g] ELSE hostPeer

accepts(g, call, from) == call.method \in AnyPeer \/ from = authorityOf(g, call.target)

forgetAuthorityOf(map, peer) == [e \in Entities |-> IF map[e] = peer THEN hostPeer ELSE map[e]]

\* mutant: a message of the game is handed on under the name of its packet
eventOf_Data(kind) == kind

eventOf(kind) == IF kind = "Data" THEN "Message" ELSE kind
deliveryOf(method) == IF method \in Unreliable THEN "Unreliable" ELSE "Reliable"

PlainEvent(kind, peer) == [kind |-> kind, peer |-> peer, given |-> 0]
DataEvent(kind, peer, call) == [kind |-> eventOf(kind), peer |-> peer, call |-> call, given |-> 0]
Packet(kind, from, to, call) == [kind |-> kind, from |-> from, to |-> to, call |-> call]

\* The channels `wire` once every link of `links` carries `packets` more.
Sent(wire, links, delivery, packets) ==
  [k \in Links |-> IF k \in links THEN [wire[k] EXCEPT ![delivery] = @ \o packets] ELSE wire[k]]

\* mutant: nobody hears of who leaves
tellClients_Arrivals(packet, except) ==
  IF packet.kind = "PeerLeft" THEN down
  ELSE Sent(down, (Clients \cap Reached) \ {except}, "Reliable", <<packet>>)

tellClients(packet, except) == Sent(down, (Clients \cap Reached) \ {except}, "Reliable", <<packet>>)

Pushed(g, more) == [events EXCEPT ![g] = @ \o more]

-----------------------------------------------------------------------------
(* The frame of a game: poll() and then its code or, paused, keepAlive(). *)

\* mutant: what keepAlive() kept is dropped
poll_Drops(g) ==
  /\ phase[g] \in {"code", "paused"}
  /\ phase' = [phase EXCEPT ![g] = "polling"]
  /\ events' = [events EXCEPT ![g] = [i \in DOMAIN loopback[g] |-> DataEvent("Rpc", caller(g), loopback[g][i])]]
  /\ loopback' = [loopback EXCEPT ![g] = <<>>]
  /\ UNCHANGED <<state, local, peers, authorities, server, hostVars, wires, spent>>

\* The events of the last poll are dropped, unless keepAlive() has run since.
poll(g) ==
  /\ phase[g] \in {"code", "paused"}
  /\ phase' = [phase EXCEPT ![g] = "polling"]
  /\ LET before == IF phase[g] = "paused" THEN events[g] ELSE <<>>
         called == [i \in DOMAIN loopback[g] |-> DataEvent("Rpc", caller(g), loopback[g][i])]
     IN  events' = [events EXCEPT ![g] = before \o called]
  /\ loopback' = [loopback EXCEPT ![g] = <<>>]
  /\ UNCHANGED <<state, local, peers, authorities, server, hostVars, wires, spent>>

keepAlive(g) ==
  /\ g \in Pausing /\ phase[g] \in {"code", "paused"}
  /\ phase' = [phase EXCEPT ![g] = "keeping"]
  /\ UNCHANGED <<state, local, peers, authorities, events, loopback, server, hostVars, wires, spent>>

\* The event, once the code of the game was given it in one frame more.
Given(event) == [event EXCEPT !.given = IF @ = 2 THEN 2 ELSE @ + 1]

\* ENet has nothing more for this frame.  After poll(), the code of the game runs, and is given
\* all the events: NetworkReplication::receive() and the game read every one of them.
serviceEnds(g) ==
  \/ /\ phase[g] = "polling"
     /\ phase' = [phase EXCEPT ![g] = "code"]
     /\ events' = [events EXCEPT ![g] = [i \in DOMAIN @ |-> Given(@[i])]]
     /\ UNCHANGED <<state, local, peers, authorities, loopback, server, hostVars, wires, spent>>
  \/ /\ phase[g] = "keeping"
     /\ phase' = [phase EXCEPT ![g] = "paused"]
     /\ UNCHANGED <<state, local, peers, authorities, events, loopback, server, hostVars, wires, spent>>

-----------------------------------------------------------------------------
(* service() on the host: what ENet tells of a link. *)

\* A link is one too many, or its game speaks another version of the protocol.
Refused(k) ==
  /\ answered' = [answered EXCEPT ![k] = TRUE]
  /\ UNCHANGED <<clientId, nextPeer, peers, events, down>>

\* mutant: a newcomer is not told who plays
WelcomePacket_Alone(id) == [kind |-> "Welcome", id |-> id, others |-> {}]

WelcomePacket(id) == [kind |-> "Welcome", id |-> id, others |-> peers[Host]]
AuthorityPacket(e, peer) == [kind |-> "Authority", entity |-> e, peer |-> peer]

\* What the host has decided, for a client that just arrived.
Decided ==
  LET given == {e \in Entities : authorityOf(Host, e) # hostPeer}
  IN  SetToSeq({AuthorityPacket(e, authorityOf(Host, e)) : e \in given})

Accepted(k) ==
  LET id == nextPeer
      told == tellClients([kind |-> "PeerJoined", peer |-> id], k)
  IN  /\ answered' = [answered EXCEPT ![k] = TRUE]
      /\ nextPeer' = nextPeer + 1
      /\ down' = Sent(told, {k} \cap Reached, "Reliable", <<WelcomePacket(id)>> \o Decided)
      /\ clientId' = [clientId EXCEPT ![k] = id]
      /\ peers' = [peers EXCEPT ![Host] = @ \cup {id}]
      /\ events' = Pushed(Host, <<PlainEvent("PeerJoined", id)>>)

clientConnected(k) ==
  /\ InService(Host) /\ state[Host] = "Online"
  /\ k <= spent.links /\ ~answered[k]
  /\ \/ Refused(k)
     \/ Cardinality(Clients) < MaxClients /\ Accepted(k)
  /\ UNCHANGED <<state, phase, local, authorities, loopback, server, up, spent>>

\* mutant: the number of who leaves is given again
clientLeft_Recycles(k) ==
  LET id == clientId[k]
  IN  /\ InService(Host) /\ k \in Clients
      /\ clientId' = [clientId EXCEPT ![k] = 0]
      /\ nextPeer' = id
      /\ peers' = [peers EXCEPT ![Host] = @ \ {id}]
      /\ authorities' = [authorities EXCEPT ![Host] = forgetAuthorityOf(@, id)]
      /\ down' = tellClients([kind |-> "PeerLeft", peer |-> id], k)
      /\ up' = [up EXCEPT ![k] = Silent]
      /\ events' = Pushed(Host, <<PlainEvent("PeerLeft", id)>>)
      /\ UNCHANGED <<state, phase, local, loopback, server, answered, spent>>

\* The client left, or has been silent for too long.
clientLeft(k) ==
  LET id == clientId[k]
  IN  /\ InService(Host) /\ k \in Clients
      /\ clientId' = [clientId EXCEPT ![k] = 0]
      /\ peers' = [peers EXCEPT ![Host] = @ \ {id}]
      /\ authorities' = [authorities EXCEPT ![Host] = forgetAuthorityOf(@, id)]
      /\ down' = tellClients([kind |-> "PeerLeft", peer |-> id], k)
      /\ up' = [up EXCEPT ![k] = Silent]
      /\ events' = Pushed(Host, <<PlainEvent("PeerLeft", id)>>)
      /\ UNCHANGED <<state, phase, local, loopback, server, answered, nextPeer, spent>>

\* The host says who sent a packet, and passes on no call it refuses.
relay(k, delivery) ==
  LET packet == Head(up[k][delivery])
      from == clientId[k]
      passed == Packet(packet.kind, from, packet.to, packet.call)
      refused == packet.kind = "Rpc" /\ ~accepts(Host, packet.call, from)
      forHost == packet.kind = "Replication" \/ packet.to \in {hostPeer, everyone}
      others == IF packet.kind = "Replication" \/ packet.to = hostPeer THEN {}
                ELSE {c \in Clients \cap Reached :
                        clientId[c] # from /\ packet.to \in {everyone, clientId[c]}}
  IN  /\ InService(Host) /\ k \in Clients /\ up[k][delivery] # <<>>
      /\ up' = [up EXCEPT ![k][delivery] = Tail(@)]
      /\ \/ refused /\ UNCHANGED <<down, events>>
         \/ /\ ~refused
            /\ events' = IF forHost
                         THEN Pushed(Host, <<DataEvent(packet.kind, from, packet.call)>>)
                         ELSE events
            /\ down' = Sent(down, others, delivery, <<passed>>)
      /\ UNCHANGED <<state, phase, local, peers, authorities, loopback, server, hostVars, spent>>

-----------------------------------------------------------------------------
(* service() on a client: received(), per kind of packet. *)

\* The game of client p, once it has taken what is left of the channel `delivery`.
Takes(p, delivery) ==
  /\ InService(p) /\ server[p] # NoLink
  /\ down[server[p]][delivery] # <<>>
  /\ down' = [down EXCEPT ![server[p]][delivery] = Tail(@)]
  /\ UNCHANGED <<phase, loopback, server, hostVars, up, spent>>

Incoming(p, delivery) == Head(down[server[p]][delivery])

\* mutant: what the game had decided alone survives its joining
welcomed_Keeps(p) ==
  /\ Takes(p, "Reliable")
  /\ LET packet == Incoming(p, "Reliable")
     IN  /\ packet.kind = "Welcome"
         /\ local' = [local EXCEPT ![p] = packet.id]
         /\ peers' = [peers EXCEPT ![p] = {hostPeer} \cup packet.others]
         /\ state' = [state EXCEPT ![p] = "Online"]
         /\ events' = Pushed(p, <<PlainEvent("Connected", packet.id)>>)
  /\ UNCHANGED authorities

\* mutant: a welcome that names nobody else counts as malformed
welcomed_Malformed(p) ==
  /\ Takes(p, "Reliable")
  /\ LET packet == Incoming(p, "Reliable")
     IN  /\ packet.kind = "Welcome" /\ packet.others = {}
         /\ UNCHANGED <<local, peers, authorities, state, events>>

welcomed(p) ==
  /\ Takes(p, "Reliable")
  /\ LET packet == Incoming(p, "Reliable")
     IN  /\ packet.kind = "Welcome"
         /\ local' = [local EXCEPT ![p] = packet.id]
         /\ peers' = [peers EXCEPT ![p] = {hostPeer} \cup packet.others]
         /\ authorities' = [authorities EXCEPT ![p] = NoAuthority]
         /\ state' = [state EXCEPT ![p] = "Online"]
         /\ events' = Pushed(p, <<PlainEvent("Connected", packet.id)>>)

peerJoined(p) ==
  /\ Takes(p, "Reliable")
  /\ LET packet == Incoming(p, "Reliable")
     IN  /\ packet.kind = "PeerJoined"
         /\ peers' = [peers EXCEPT ![p] = @ \cup {packet.peer}]
         /\ events' = Pushed(p, <<PlainEvent("PeerJoined", packet.peer)>>)
  /\ UNCHANGED <<local, authorities, state>>

peerLeft(p) ==
  /\ Takes(p, "Reliable")
  /\ LET packet == Incoming(p, "Reliable")
     IN  /\ packet.kind = "PeerLeft"
         /\ peers' = [peers EXCEPT ![p] = @ \ {packet.peer}]
         /\ authorities' = [authorities EXCEPT ![p] = forgetAuthorityOf(@, packet.peer)]
         /\ events' = Pushed(p, <<PlainEvent("PeerLeft", packet.peer)>>)
  /\ UNCHANGED <<local, state>>

authorityGiven(p) ==
  /\ Takes(p, "Reliable")
  /\ LET packet == Incoming(p, "Reliable")
     IN  /\ packet.kind = "Authority"
         /\ authorities' = [authorities EXCEPT ![p][packet.entity] = packet.peer]
  /\ UNCHANGED <<local, state, peers, events>>

dataReceived(p, delivery) ==
  /\ Takes(p, delivery)
  /\ LET packet == Incoming(p, delivery)
         accepted == packet.kind # "Rpc" \/ accepts(p, packet.call, packet.from)
     IN  /\ packet.kind \in {"Data", "Rpc", "Replication"}
         /\ events' = IF accepted
                      THEN Pushed(p, <<DataEvent(packet.kind, packet.from, packet.call)>>)
                      ELSE events
  /\ UNCHANGED <<local, state, peers, authorities>>

received(p) ==
  \/ welcomed(p) \/ peerJoined(p) \/ peerLeft(p) \/ authorityGiven(p)
  \/ \E d \in Deliveries : dataReceived(p, d)

\* close(), as a client: the game is alone again, with what the host had decided forgotten.
ClientCloses(p) ==
  /\ server' = [server EXCEPT ![p] = NoLink]
  /\ peers' = [peers EXCEPT ![p] = {}]
  /\ authorities' = [authorities EXCEPT ![p] = NoAuthority]
  /\ state' = [state EXCEPT ![p] = "Offline"]
  /\ local' = [local EXCEPT ![p] = 0]
  /\ down' = [down EXCEPT ![server[p]] = Silent]

\* The host left, refused this client or has been silent for too long.
disconnected(p) ==
  /\ InService(p) /\ server[p] # NoLink
  /\ ClientCloses(p)
  /\ events' = Pushed(p, <<PlainEvent(IF state[p] = "Online" THEN "Disconnected" ELSE "ConnectionFailed", 0)>>)
  /\ UNCHANGED <<phase, loopback, hostVars, up, spent>>

-----------------------------------------------------------------------------
(* ENet: what is on the unreliable channel may be lost (external). *)

lose(k) ==
  \/ /\ down[k]["Unreliable"] # <<>>
     /\ down' = [down EXCEPT ![k]["Unreliable"] = Tail(@)]
     /\ UNCHANGED <<state, phase, local, peers, authorities, events, loopback, server, hostVars, up, spent>>
  \/ /\ up[k]["Unreliable"] # <<>>
     /\ up' = [up EXCEPT ![k]["Unreliable"] = Tail(@)]
     /\ UNCHANGED <<state, phase, local, peers, authorities, events, loopback, server, hostVars, down, spent>>

-----------------------------------------------------------------------------
(* What the code of a game calls. *)

host ==
  /\ RunsCode(Host) /\ state[Host] = "Offline" /\ spent.sessions < MaxSessions
  /\ state' = [state EXCEPT ![Host] = "Online"]
  /\ local' = [local EXCEPT ![Host] = hostPeer]
  /\ nextPeer' = hostPeer + 1
  /\ spent' = [spent EXCEPT !.sessions = @ + 1]
  /\ UNCHANGED <<phase, peers, authorities, events, loopback, server, clientId, answered, wires>>

join(p) ==
  /\ RunsCode(p) /\ state[p] = "Offline" /\ spent.links < MaxLinks
  /\ server' = [server EXCEPT ![p] = spent.links + 1]
  /\ state' = [state EXCEPT ![p] = "Connecting"]
  /\ spent' = [spent EXCEPT !.links = @ + 1]
  /\ UNCHANGED <<phase, local, peers, authorities, events, loopback, hostVars, wires>>

clientLeaves(p) ==
  /\ RunsCode(p) /\ server[p] # NoLink
  /\ ClientCloses(p)
  /\ UNCHANGED <<phase, events, loopback, hostVars, up, spent>>

hostLeaves ==
  /\ RunsCode(Host) /\ state[Host] = "Online"
  /\ clientId' = [k \in Links |-> 0]
  /\ peers' = [peers EXCEPT ![Host] = {}]
  /\ authorities' = [authorities EXCEPT ![Host] = NoAuthority]
  /\ state' = [state EXCEPT ![Host] = "Offline"]
  /\ local' = [local EXCEPT ![Host] = 0]
  /\ up' = [k \in Links |-> Silent]
  /\ UNCHANGED <<phase, events, loopback, server, answered, nextPeer, down, spent>>

\* mutant: only the player that gets the entity is told
Grant_Tells(g, e, peer) ==
  /\ state[g] # "Online" \/ g = Host
  /\ spent.grants < MaxGrants
  /\ authorities' = [authorities EXCEPT ![g][e] = peer]
  /\ down' = IF g = Host
             THEN Sent(down, {k \in Clients \cap Reached : clientId[k] = peer}, "Reliable",
                       <<AuthorityPacket(e, peer)>>)
             ELSE down
  /\ spent' = [spent EXCEPT !.grants = @ + 1]
  /\ UNCHANGED <<state, phase, local, peers, loopback, server, hostVars, up>>

\* setAuthority() on the host, or on a game that is in no session yet; a client may not.
Grant(g, e, peer) ==
  /\ state[g] # "Online" \/ g = Host
  /\ spent.grants < MaxGrants
  /\ authorities' = [authorities EXCEPT ![g][e] = peer]
  /\ down' = IF g = Host
             THEN Sent(down, Clients \cap Reached, "Reliable", <<AuthorityPacket(e, peer)>>)
             ELSE down
  /\ spent' = [spent EXCEPT !.grants = @ + 1]
  /\ UNCHANGED <<state, phase, local, peers, loopback, server, hostVars, up>>

setAuthority(g, e) ==
  /\ RunsCode(g)
  /\ \E peer \in {hostPeer, hostPeer + 1} \cup peers[g] : Grant(g, e, peer)
  /\ UNCHANGED events

\* The host's code reads that a player joined, and gives it an entity.
giveToNewcomer(e) ==
  /\ RunsCode(Host)
  /\ \E i \in DOMAIN events[Host] :
       events[Host][i].kind = "PeerJoined" /\ Grant(Host, e, events[Host][i].peer)
  /\ UNCHANGED events

\* sendPacket(): a client only reaches the host.
SendPacket(g, kind, to, call, delivery) ==
  LET packet == <<Packet(kind, local[g], to, call)>>
  IN  IF g = Host
      THEN /\ down' = Sent(down, {k \in Clients \cap Reached : to \in {everyone, clientId[k]}}, delivery, packet)
           /\ UNCHANGED up
      ELSE /\ up' = Sent(up, {server[g]} \cap Clients, delivery, packet)
           /\ UNCHANGED down

Sends(g) ==
  /\ RunsCode(g) /\ spent.sends < MaxSends
  /\ spent' = [spent EXCEPT !.sends = @ + 1]
  /\ UNCHANGED <<state, phase, local, peers, authorities, events, server, hostVars>>

send(g, to, call, delivery) ==
  /\ Sends(g)
  /\ state[g] = "Online" /\ to # local[g]
  /\ SendPacket(g, "Data", to, call, delivery)
  /\ UNCHANGED loopback

sendReplication(g, to, call, delivery) ==
  /\ Sends(g)
  /\ state[g] = "Online"
  /\ SendPacket(g, "Replication", IF g = Host THEN to ELSE hostPeer, call, delivery)
  /\ UNCHANGED loopback

\* A method that also runs here is left to loopbackRpc() by a caller whose language lacks it.
sendRpc(g, to, call) ==
  /\ Sends(g)
  /\ call.method \in AnyPeer \/ isAuthority(g, call.target)
  /\ IF state[g] = "Online" /\ to # caller(g)
     THEN SendPacket(g, "Rpc", to, call, deliveryOf(call.method))
     ELSE UNCHANGED wires
  /\ loopback' = IF call.method \in CallLocal /\ to \in {everyone, caller(g)}
                 THEN [loopback EXCEPT ![g] = Append(@, call)]
                 ELSE loopback

-----------------------------------------------------------------------------

Init ==
  /\ state = [g \in Games |-> "Offline"]
  /\ phase = [g \in Games |-> "code"]
  /\ local = [g \in Games |-> 0]
  /\ peers = [g \in Games |-> {}]
  /\ authorities = [g \in Games |-> NoAuthority]
  /\ events = [g \in Games |-> <<>>]
  /\ loopback = [g \in Games |-> <<>>]
  /\ server = [p \in Players |-> NoLink]
  /\ clientId = [k \in Links |-> 0]
  /\ answered = [k \in Links |-> FALSE]
  /\ nextPeer = hostPeer + 1
  /\ down = [k \in Links |-> Silent]
  /\ up = [k \in Links |-> Silent]
  /\ spent = [links |-> 0, sessions |-> 0, grants |-> 0, sends |-> 0]

Recipients == {everyone, hostPeer} \cup {clientId[k] : k \in Clients}

Frame == \E g \in Games : poll(g) \/ keepAlive(g) \/ serviceEnds(g)
HostService ==
  \E k \in Links : clientConnected(k) \/ clientLeft(k) \/ \E d \in Deliveries : relay(k, d)
ClientService == \E p \in Players : received(p) \/ disconnected(p)
Network == \E k \in Links : lose(k)
Membership == host \/ hostLeaves \/ \E p \in Players : join(p) \/ clientLeaves(p)
Authority == \E e \in Entities : giveToNewcomer(e) \/ \E g \in Games : setAuthority(g, e)
Sending ==
  \E g \in Games, to \in Recipients, call \in Calls :
    \/ sendRpc(g, to, call)
    \/ \E d \in Deliveries : send(g, to, call, d) \/ sendReplication(g, to, call, d)

Next == Frame \/ HostService \/ ClientService \/ Network \/ Membership \/ Authority \/ Sending

Spec == Init /\ [][Next]_vars

\* Every application keeps polling, or keeping its session alive when paused, and its code reads
\* what it polled.  ENet delivers what is reliable, and tells each end of a link that the other
\* end is gone, or that its connection was never answered; it need not drop a link that works.
Fairness ==
  /\ \A g \in Games : /\ WF_vars(poll(g) \/ keepAlive(g))
                      /\ WF_vars(serviceEnds(g))
  /\ \A p \in Players : /\ SF_vars(received(p))
                        /\ SF_vars(server[p] \notin Clients /\ disconnected(p))
  /\ \A k \in Links : SF_vars(k \notin Reached /\ clientLeft(k))

FairSpec == Spec /\ Fairness

-----------------------------------------------------------------------------
(* What the session promises. *)

\* Two clients of the host never have the same number, nor the host's, nor one it has yet to
\* give: clientConnected() gives nextPeer++, across leaves, rejoins and new sessions.
NumbersAreUnique ==
  /\ \A k \in Clients : clientId[k] \in hostPeer + 1 .. nextPeer - 1
  /\ \A k, l \in Clients : clientId[k] = clientId[l] => k = l

\* What a client knows of the session: whether it is in, its number, who plays, who decides.
Known(p) == [state |-> state[p], local |-> local[p], peers |-> peers[p], authorities |-> authorities[p]]

\* What the client with number id should know of it.
HostsView(id) ==
  [state |-> "Online", local |-> id, peers |-> {hostPeer} \cup (peers[Host] \ {id}),
   authorities |-> authorities[Host]]

Learns(view, packet) ==
  CASE packet.kind = "Welcome" ->
         [state |-> "Online", local |-> packet.id, peers |-> {hostPeer} \cup packet.others,
          authorities |-> NoAuthority]
    [] packet.kind = "PeerJoined" -> [view EXCEPT !.peers = @ \cup {packet.peer}]
    [] packet.kind = "PeerLeft" ->
         [view EXCEPT !.peers = @ \ {packet.peer}, !.authorities = forgetAuthorityOf(@, packet.peer)]
    [] packet.kind = "Authority" -> [view EXCEPT !.authorities[packet.entity] = packet.peer]
    [] OTHER -> view

\* What a view becomes, once all the packets are read.
Learned(view, packets) ==
  LET after[i \in 0 .. Len(packets)] ==
        IF i = 0 THEN view ELSE Learns(after[i - 1], packets[i])
  IN  after[Len(packets)]

\* What the host has decided always reaches everyone: a client that reads all that is on its way
\* to it knows the players and the authorities of the host, those set before it joined included,
\* however joins, leaves and setAuthority() were interleaved.
ViewsConverge ==
  \A p \in Players : server[p] \in Clients =>
    Learned(Known(p), down[server[p]]["Reliable"]) = HostsView(clientId[server[p]])

\* The next reliable packet of a client, when there is one.
Awaited(p) == IF server[p] = NoLink THEN <<>> ELSE down[server[p]]["Reliable"]

\* A client is told who it is before anything else, once; whoever joins is new to it and whoever
\* leaves was there; and whoever speaks on the reliable channel is a player it knows.
NewsIsInOrder ==
  \A p \in Players : Awaited(p) # <<>> =>
    LET packet == Head(Awaited(p))
    IN  /\ packet.kind = "Welcome" <=> state[p] = "Connecting"
        /\ packet.kind = "PeerJoined" => packet.peer \notin peers[p] \cup {local[p]}
        /\ packet.kind = "PeerLeft" => packet.peer \in peers[p]
        /\ packet.kind \in {"Data", "Rpc"} => packet.from \in peers[p]

\* A call on the reliable channel that the host passed on, or made, is never refused by the player
\* it reaches: accepts() judges it there by the authorities the host judged it by.
PassedCallsRun ==
  \A p \in Players : Awaited(p) # <<>> =>
    LET packet == Head(Awaited(p))
    IN  packet.kind = "Rpc" => accepts(p, packet.call, packet.from)

\* No event is dropped before the code of the game was given it, in particular none of those that
\* arrived while the game was paused: Multiplayer.hpp, "keeping the events for the next poll".
NothingLostUnread ==
  [][\A g \in Games : \A i \in DOMAIN events[g] :
       events[g][i].given = 0 => i \in DOMAIN events'[g] /\ events'[g][i].kind = events[g][i].kind]_events

\* MultiplayerTests.cpp, "A paused game keeps its place in the session": "Back to playing, it finds
\* what came. And not twice."  The code of the game is given each event in one frame only.
EventsGivenOnce == \A g \in Games : \A i \in DOMAIN events[g] : events[g][i].given <= 1

\* A player that joins ends in the session or outside it: Connected or ConnectionFailed tells,
\* whatever the host does meanwhile, refusing included.
JoinEnds == \A p \in Players : state[p] = "Connecting" ~> state[p] # "Connecting"

\* Once nobody joins, leaves or gives anything any more, the players in the session agree with
\* the host on who plays and who decides, and no one is left in a session that ended.
Agrees(p) ==
  /\ server[p] \in Clients
  /\ peers[p] = {hostPeer} \cup (peers[Host] \ {local[p]})
  /\ authorities[p] = authorities[Host]

EventuallyAgreed == \A p \in Players : <>[](state[p] = "Online" => Agrees(p))
=============================================================================
