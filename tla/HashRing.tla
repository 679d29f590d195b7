------------------------------ MODULE HashRing ------------------------------
(***************************************************************************)
(* internal/cache/advanced_cache.go: the ConsistentHashRing and the table  *)
(* of nodes DistributedCache keeps beside it.                              *)
(*                                                                         *)
(* The hash is a constant function, so that virtual nodes may collide: the *)
(* later of two then takes the place on the ring, and takes it along when  *)
(* it is removed.  sortedKeys is sorted after every change, so a set says  *)
(* it but for repeated hashes, which no look-up can tell from one.         *)
(***************************************************************************)
EXTENDS Integers, FiniteSets

CONSTANTS
  RingNodes,   \* the node ids
  Weights,     \* the weights a node may be added with
  RingPlaces,  \* the values of the hash
  PlaceOf      \* the hash of every virtual node, [RingNodes \X Nat -> RingPlaces]

Nobody == "nobody"

ASSUME RingAssumption ==
  /\ Nobody \notin RingNodes
  /\ RingPlaces \subseteq Nat /\ Weights \subseteq Nat
  /\ \A n \in RingNodes, w \in Weights : \A i \in 0..(w - 1) : PlaceOf[<<n, i>>] \in RingPlaces

VARIABLES
  members,     \* dc.nodes: the ids and the weights they were added with last
  ring,        \* chr.nodes: the node at a place, or Nobody
  sortedKeys   \* chr.sortedKeys, as a set

ringVars == <<members, ring, sortedKeys>>

RingInit ==
  /\ members = {}
  /\ ring = [p \in RingPlaces |-> Nobody]
  /\ sortedKeys = {}

VirtualPlaces(n, w) == {PlaceOf[<<n, i>>] : i \in 0..(w - 1)}

AddNode(n, w) ==
  /\ members' = members \cup {n}
  /\ ring' = [p \in RingPlaces |-> IF p \in VirtualPlaces(n, w) THEN n ELSE ring[p]]
  /\ sortedKeys' = sortedKeys \cup VirtualPlaces(n, w)

\* sortedKeys is not rebuilt.
RemoveNodeKeepsKeys(n) ==
  /\ members' = members \ {n}
  /\ ring' = [p \in RingPlaces |-> IF ring[p] = n THEN Nobody ELSE ring[p]]
  /\ UNCHANGED sortedKeys

RemoveNode(n) ==
  /\ members' = members \ {n}
  /\ ring' = [p \in RingPlaces |-> IF ring[p] = n THEN Nobody ELSE ring[p]]
  /\ sortedKeys' = {p \in RingPlaces : ring'[p] # Nobody}

RingNext ==
  \/ \E n \in RingNodes, w \in Weights : AddNode(n, w)
  \/ \E n \in RingNodes : RemoveNode(n)

RingSpec == RingInit /\ [][RingNext]_ringVars

Least(S) == CHOOSE p \in S : \A q \in S : p <= q

\* GetNode: the first place at or after the key's, or else the first of all.
GetNode(h) ==
  LET after == {p \in sortedKeys : p >= h} IN
  IF sortedKeys = {} THEN Nobody ELSE ring[Least(IF after = {} THEN sortedKeys ELSE after)]

-----------------------------------------------------------------------------
RingTypeOK ==
  /\ members \subseteq RingNodes
  /\ ring \in [RingPlaces -> RingNodes \cup {Nobody}]
  /\ sortedKeys \subseteq RingPlaces

\* A key is looked after by a node that is there, whenever the ring holds
\* one: never by a removed one, and never by nobody.
KeysLookedAfter ==
  /\ \A h \in RingPlaces : GetNode(h) \in members \/ GetNode(h) = Nobody
  /\ (\E p \in RingPlaces : ring[p] # Nobody) => \A h \in RingPlaces : GetNode(h) # Nobody
=============================================================================
