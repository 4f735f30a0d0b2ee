---------------------------- MODULE Forwarding ----------------------------
(***************************************************************************)
(* RepeaterHandler.process_packet: whether a node relays a received packet *)
(* and what it puts on the air instead. Pure operators, parameterised by   *)
(* the node n and the set of keys it has seen; Repeater and Mesh give them *)
(* state.                                                                  *)
(*                                                                         *)
(* A packet is a record: id (its payload), type ("data", "ack", or         *)
(* "multiack", an ACK inside a MULTIPART wrapper), route ("flood",         *)
(* "tflood", "direct", "tdirect"), scope (the key of its transport code),  *)
(* size (bytes per path hash), path (hashes), dnr (do-not-retransmit).     *)
(***************************************************************************)
EXTENDS Integers, Sequences, FiniteSets

CONSTANTS
    HashOf,         \* HashOf[n][s]: the first s bytes of node n's public key
    MaxFloodHops,   \* repeater.max_flood_hops, 0 for no limit
    MaxHopCount,    \* the hop counts path_len can encode: 63
    MaxPathBytes,   \* MAX_PATH_SIZE
    LoopMax,        \* LOOP_DETECT_MAX_COUNTERS[mode], an empty function when off
    UnscopedAllow,  \* mesh.unscoped_flood_allow
    MultiAcks       \* repeater.multi_acks

ASSUME ForwardingAssumption ==
    /\ MaxFloodHops \in Nat /\ MaxHopCount \in Nat /\ MaxPathBytes \in Nat
    /\ DOMAIN LoopMax \subseteq 1..3
    /\ \A s \in DOMAIN LoopMax : LoopMax[s] \in Nat \ {0}
    /\ UnscopedAllow \in BOOLEAN
    /\ MultiAcks \in 0..1

Hops(p) == Len(p.path)

\* Packet.calculate_packet_hash covers the payload and its type, not the path.
\* A wrapper is keyed by the ACK inside it, apart from the ACK itself.
Key(p) == <<p.type, p.id>>

\* 3 is the widest path hash, and the path fits its buffer.
Valid(p) == p.size <= 3 /\ Hops(p) * p.size <= MaxPathBytes

---------------------------------------------------------------------------
(* flood_forward *)

OwnHops(n, p) == {i \in DOMAIN p.path : p.path[i] = HashOf[n][p.size]}

\* Mutant: the threshold is passed, not met.
Looped_OffByOne(n, p) ==
    p.size \in DOMAIN LoopMax /\ Cardinality(OwnHops(n, p)) > LoopMax[p.size]

Looped(n, p) == p.size \in DOMAIN LoopMax /\ Cardinality(OwnHops(n, p)) >= LoopMax[p.size]

\* allowed: the scopes whose transport key lets floods through.
ScopeAllows(p, allowed) ==
    /\ p.route = "flood" => UnscopedAllow
    /\ p.route = "tflood" => p.scope \in allowed

\* Mutant: no room is kept for this node.
RoomInPath_Full(p) ==
    /\ MaxFloodHops > 0 => Hops(p) <= MaxFloodHops
    /\ Hops(p) <= MaxHopCount
    /\ Hops(p) * p.size <= MaxPathBytes

\* Mutant: the last hop of the limit is lost.
RoomInPath_Short(p) == (MaxFloodHops > 0 => Hops(p) + 1 < MaxFloodHops) /\ Hops(p) < MaxHopCount

\* Adding this node keeps the path within every limit.
RoomInPath(p) ==
    /\ MaxFloodHops > 0 => Hops(p) < MaxFloodHops
    /\ Hops(p) < MaxHopCount
    /\ (Hops(p) + 1) * p.size <= MaxPathBytes

CanFlood(n, p, seen, allowed) ==
    /\ Valid(p) /\ ~p.dnr
    /\ ScopeAllows(p, allowed)
    /\ ~Looped(n, p)
    /\ Key(p) \notin seen
    /\ RoomInPath(p)

\* Mutant: the path grows at the wrong end.
FloodOut_Prepend(n, p) == [p EXCEPT !.path = <<HashOf[n][p.size]>> \o @]

FloodOut(n, p) == [p EXCEPT !.path = Append(@, HashOf[n][p.size])]

---------------------------------------------------------------------------
(* direct_forward, forward_routed_ack, forward_multipart_direct *)

\* Mutant: any node on the path relays.
ForUs_Anywhere(n, p) == OwnHops(n, p) # {}

ForUs(n, p) == p.path # <<>> /\ Head(p.path) = HashOf[n][p.size]

\* Mutant: no duplicate check.
CanDirect_Again(n, p, seen) == Valid(p) /\ ~p.dnr /\ ForUs(n, p)

CanDirect(n, p, seen) ==
    /\ Valid(p) /\ ~p.dnr
    /\ ForUs(n, p)
    /\ Key(p) \notin seen

DirectOut(p) == [p EXCEPT !.path = Tail(@)]

\* The plain DIRECT ACK an intermediate hop regenerates.
AckOut(p) == [p EXCEPT !.type = "ack", !.route = "direct", !.path = Tail(@)]

\* Mutant: no copies.
AckCopies_None(p) == {}

\* With multi_acks a wrapped copy goes out beside it.
AckCopies(p) ==
    IF MultiAcks = 1 THEN {[AckOut(p) EXCEPT !.type = "multiack"]} ELSE {}

---------------------------------------------------------------------------
IsFlood(p) == p.route \in {"flood", "tflood"}

\* process_packet accepts p for relaying. A wrapper is never relayed by flood.
Accepts(n, p, seen, allowed) ==
    IF IsFlood(p)
    THEN p.type # "multiack" /\ CanFlood(n, p, seen, allowed)
    ELSE CanDirect(n, p, seen)

\* What it hands to the transmitter for a packet it accepts.
Relayed(n, p) ==
    IF IsFlood(p) THEN {FloodOut(n, p)}
    ELSE IF p.type = "data" THEN {DirectOut(p)}
    ELSE AckCopies(p) \cup {AckOut(p)}
=============================================================================
