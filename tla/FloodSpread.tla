---------------------------- MODULE FloodSpread ----------------------------
(***************************************************************************)
(* What flooding promises: packets spread outwards from their origin, from *)
(* neighbour to neighbour, and each node relays a packet once.             *)
(***************************************************************************)
CONSTANTS Nodes, Packets, Origin

VARIABLES neighbours, \* the links of the mesh, which never change
          relayed     \* relayed[p]: the nodes that have relayed p

vars == <<neighbours, relayed>>

Init == relayed = [p \in Packets |-> {}]

Reached(p, n) == \E m \in relayed[p] \cup {Origin[p]} : n \in neighbours[m]

Relay(p, n) ==
    /\ Reached(p, n) /\ n \notin relayed[p] \cup {Origin[p]}
    /\ relayed' = [relayed EXCEPT ![p] = @ \cup {n}]
    /\ UNCHANGED neighbours

Next == \E p \in Packets, n \in Nodes : Relay(p, n)

Spec == Init /\ [][Next]_vars
=============================================================================
