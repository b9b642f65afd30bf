---------------------------- MODULE MCReplication ----------------------------
(* Instances of Replication for TLC: a hut holds a nest a bird is placed in, a cart has values. *)
EXTENDS Replication, TLC

CONSTANTS c1, c2, body, spot, nest, hut, bird, cart

MCClients == {c1, c2}
MCSpawnerOf == [i \in {hut, bird, cart} |-> IF i = bird THEN nest ELSE spot]
MCInside == (body :> cart) @@ (spot :> Root) @@ (nest :> hut)
Allows(joins, leaves, writes, grants, places, destroys) ==
  [joins |-> joins, leaves |-> leaves, writes |-> writes,
   grants |-> grants, places |-> places, destroys |-> destroys]

\* Instances inside instances, with a spawner or both given away; two sessions of one client;
\* values given away among three games, or to a client that leaves; values written several times.
MCBudgets ==
  {Allows(2, 1, 0, {spot}, {hut, bird}, {hut, bird}),
   Allows(2, 1, 0, {spot, nest}, {hut, bird}, {hut}),
   Allows(3, 1, 0, {spot}, {hut}, {hut}),
   Allows(2, 0, 0, {body}, {cart}, {}),
   Allows(1, 1, 1, {body}, {cart}, {}),
   Allows(1, 0, 2, {body}, {cart}, {cart})}

Alike == Permutations(MCClients)
=============================================================================
