------------------------------- MODULE Mesh -------------------------------
(***************************************************************************)
(* Several repeaters and the stations at the edge of the mesh, over a radio*)
(* that every neighbour hears and that may lose each reception. A repeater *)
(* is RepeaterHandler with its bounded seen_packets; its transmit scheduler*)
(* sends the packets it holds in any order or gives up on them.            *)
(*                                                                         *)
(* A frame is a packet with its trail: the transmissions that led to it,   *)
(* as <<node, type sent>>. No code reads the trail; it tells apart copies  *)
(* of a packet that are alike, so that a set of frames loses none.         *)
(***************************************************************************)
EXTENDS Forwarding

CONSTANTS
    Repeaters, Stations,
    Traffic,        \* the packets there are to originate, as [from, pkt]
    Scopes,         \* the transport keys whose flood policy is "allow"
    Worlds          \* the meshes considered, each a record of: neighbours, who
                    \* hears whom transmit; sends, the part of Traffic that is
                    \* originated; cache, the repeaters' max_cache_size

Nodes == Repeaters \cup Stations

\* What a path may name, and the packets there are.
PathHashes == {HashOf[r][size] : r \in Repeaters, size \in 1..3}
                 \cup UNION {{t.pkt.path[i] : i \in DOMAIN t.pkt.path} : t \in Traffic}
Packets == [id : {t.pkt.id : t \in Traffic}, type : {"data", "ack", "multiack"},
            route : {"flood", "tflood", "direct", "tdirect"},
            scope : {t.pkt.scope : t \in Traffic}, size : 1..4,
            path : Seq(PathHashes), dnr : BOOLEAN]

\* A payload names its sender and its time, so two packets that are originated
\* differ in it; a flood starts with an empty path.
ASSUME MeshAssumption ==
    /\ Repeaters \cap Stations = {}
    /\ IsFiniteSet(Traffic) /\ Traffic \subseteq [from : Nodes, pkt : Packets]
    /\ \A t, u \in Traffic : t.pkt.id = u.pkt.id => t = u
    /\ \A t \in Traffic : IsFlood(t.pkt) => t.pkt.path = <<>>
    /\ \A w \in Worlds : /\ w.neighbours \in [Nodes -> SUBSET Nodes]
                         /\ w.sends \subseteq Traffic
                         /\ w.cache \in Nat \ {0}

VARIABLES
    world,      \* the mesh this is, which never changes
    unsent,     \* packets not yet originated
    seen,       \* seen[r]: keys of seen_packets, oldest first
    queue,      \* queue[r]: frames the scheduler of r holds
    air,        \* receptions in progress, as [to, frame]
    heard,      \* heard[s]: frames station s received
    relays,     \* relays[r][k]: how often r has relayed key k, never read
    lost        \* lost[n]: frames of n lost on the way outwards, never read

ghosts == <<relays, lost>>
vars == <<world, unsent, seen, queue, air, heard, ghosts>>

KeysOf(T) == {Key(t.pkt) : t \in T} \cup
                {<<"multiack", t.pkt.id>> : t \in {u \in T : u.pkt.type = "ack"}} \cup
                {<<"ack", t.pkt.id>> : t \in {u \in T : u.pkt.type = "multiack"}}
Keys == KeysOf(Traffic)

Neighbours == world.neighbours
CacheSize  == world.cache

SeenKeys(r) == {seen[r][i] : i \in DOMAIN seen[r]}

\* A frame once it has been sent by n.
Sent(n, f) == [f EXCEPT !.trail = Append(@, <<n, f.pkt.type>>)]

\* The nodes a frame has passed.
Passed(f) == {f.trail[i][1] : i \in DOMAIN f.trail}

\* n's frame does not reach m: it counts unless m has sent the packet before.
\* The count stops at 2, enough to tell one loss from more.
CountLoss(n, m, f) ==
    lost' = IF m # n /\ m \in Passed(f) THEN lost
            ELSE [lost EXCEPT ![n] = IF @ < 2 THEN @ + 1 ELSE 2]

Broadcast(n, f) == {[to |-> m, frame |-> Sent(n, f)] : m \in Neighbours[n]}

Init ==
    /\ world \in Worlds
    /\ unsent = world.sends
    /\ seen = [r \in Repeaters |-> <<>>]
    /\ queue = [r \in Repeaters |-> {}]
    /\ air = {} /\ heard = [s \in Stations |-> {}]
    /\ relays = [r \in Repeaters |-> [k \in Keys |-> 0]]
    /\ lost = [n \in Nodes |-> 0]

\* mark_seen: a key already there keeps its place, and the oldest goes when
\* the cache overflows.
MarkSeen(r, key) ==
    IF key \in SeenKeys(r) THEN seen
    ELSE [seen EXCEPT ![r] = LET grown == Append(@, key)
                             IN IF Len(grown) > CacheSize THEN Tail(grown) ELSE grown]

\* A station transmits its own packet.
StationSends(t) ==
    /\ t \in unsent /\ t.from \in Stations
    /\ unsent' = unsent \ {t}
    /\ air' = air \cup Broadcast(t.from, [pkt |-> t.pkt, trail |-> <<>>])
    /\ UNCHANGED <<world, seen, queue, heard, ghosts>>

\* Mutant: a repeater does not mark its own packet as seen.
RepeaterSends_Unmarked(t) ==
    /\ t \in unsent /\ t.from \in Repeaters
    /\ unsent' = unsent \ {t}
    /\ queue' = [queue EXCEPT ![t.from] = @ \cup {[pkt |-> t.pkt, trail |-> <<>>]}]
    /\ UNCHANGED <<world, seen, air, heard, ghosts>>

\* A repeater originates a packet: __call__ with local_transmission.
RepeaterSends(t) ==
    /\ t \in unsent /\ t.from \in Repeaters
    /\ unsent' = unsent \ {t}
    /\ seen' = MarkSeen(t.from, Key(t.pkt))
    /\ queue' = [queue EXCEPT ![t.from] = @ \cup {[pkt |-> t.pkt, trail |-> <<>>]}]
    /\ UNCHANGED <<world, air, heard, ghosts>>

\* A repeater receives a frame and relays it. The check and the mark are one
\* step: there is no await between them.
Relay(x) ==
    LET r == x.to p == x.frame.pkt IN
    /\ r \in Repeaters /\ Accepts(r, p, SeenKeys(r), Scopes)
    /\ air' = air \ {x}
    /\ seen' = MarkSeen(r, Key(p))
    /\ queue' = [queue EXCEPT ![r] = @ \cup {[x.frame EXCEPT !.pkt = q] : q \in Relayed(r, p)}]
    /\ relays' = [relays EXCEPT ![r][Key(p)] = @ + 1]
    /\ UNCHANGED <<world, unsent, heard, lost>>

\* A repeater receives a frame and refuses to relay it.
Ignore(x) ==
    /\ x.to \in Repeaters /\ ~Accepts(x.to, x.frame.pkt, SeenKeys(x.to), Scopes)
    /\ air' = air \ {x}
    /\ UNCHANGED <<world, unsent, seen, queue, heard, ghosts>>

StationHears(x) ==
    /\ x.to \in Stations
    /\ air' = air \ {x}
    /\ heard' = [heard EXCEPT ![x.to] = @ \cup {x.frame}]
    /\ UNCHANGED <<world, unsent, seen, queue, ghosts>>

\* The scheduler's delay is over and the radio accepts the frame.
Transmit(r, f) ==
    /\ f \in queue[r]
    /\ queue' = [queue EXCEPT ![r] = @ \ {f}]
    /\ air' = air \cup Broadcast(r, f)
    /\ UNCHANGED <<world, unsent, seen, heard, ghosts>>

\* The duty cycle or a radio failure ends the frame; its key stays seen.
GiveUp(r, f) ==
    /\ f \in queue[r]
    /\ queue' = [queue EXCEPT ![r] = @ \ {f}]
    /\ CountLoss(r, r, f)
    /\ UNCHANGED <<world, unsent, seen, air, heard, relays>>

\* A neighbour does not receive the frame.
Lose(x) ==
    /\ air' = air \ {x}
    /\ CountLoss(x.frame.trail[Len(x.frame.trail)][1], x.to, x.frame)
    /\ UNCHANGED <<world, unsent, seen, queue, heard, relays>>

Originate == \E t \in unsent : StationSends(t) \/ RepeaterSends(t)
Receive   == \E x \in air : Relay(x) \/ Ignore(x) \/ StationHears(x) \/ Lose(x)
Schedule  == \E r \in Repeaters : \E f \in queue[r] : Transmit(r, f) \/ GiveUp(r, f)

Next == Originate \/ Receive \/ Schedule

Spec == Init /\ [][Next]_vars


---------------------------------------------------------------------------
(* Properties *)

Frames == {x.frame : x \in air} \cup (UNION {queue[r] : r \in Repeaters})
              \cup (UNION {heard[s] : s \in Stations})
Quiet  == unsent = {} /\ air = {} /\ \A r \in Repeaters : queue[r] = {}

\* The hashes of the repeaters that relayed f, in order.
RelayHashes(f) == [i \in 1..(Len(f.trail) - 1) |-> HashOf[f.trail[i + 1][1]][f.pkt.size]]

\* No packet on the air breaks a limit of the wire format or of the
\* configuration, however often caches overflow and packets come round again.
PathFits ==
    \A f \in Frames : IsFlood(f.pkt) =>
        /\ Hops(f.pkt) <= MaxHopCount
        /\ MaxFloodHops > 0 => Hops(f.pkt) <= MaxFloodHops
        /\ Hops(f.pkt) * f.pkt.size <= MaxPathBytes

\* With loop detection on, no hash occurs in a path more often than the mode
\* allows, even between nodes that have forgotten the packet.
LoopBound ==
    \A f \in Frames : IsFlood(f.pkt) /\ f.pkt.size \in DOMAIN LoopMax =>
        \A i \in DOMAIN f.pkt.path :
            Cardinality({j \in DOMAIN f.pkt.path : f.pkt.path[j] = f.pkt.path[i]})
                <= LoopMax[f.pkt.size]

\* The path a flood packet carries names the repeaters it came through, in
\* order: a reply sent back along it retraces real links.
PathIsRoute ==
    \A x \in air : IsFlood(x.frame.pkt) => x.frame.pkt.path = RelayHashes(x.frame)

\* A direct packet goes where its sender sent it: the relays it passed and the
\* path it still carries are together the path it started with.
OnRoute ==
    \A x \in air : ~IsFlood(x.frame.pkt) =>
        \E t \in world.sends : /\ t.pkt.id = x.frame.pkt.id
                               /\ RelayHashes(x.frame) \o x.frame.pkt.path = t.pkt.path

\* A path says where a flood packet has been and where a direct one goes; and
\* however often caches overflow and packets come round again, that of a flood
\* neither outgrows the frame nor goes round in a loop.
PathTells == PathIsRoute /\ OnRoute /\ PathFits /\ LoopBound

\* While the caches hold every packet in circulation, a repeater relays each
\* packet at most once and never one of its own.
RelayOnce ==
    CacheSize >= Cardinality(KeysOf(world.sends)) =>
        \A r \in Repeaters, k \in Keys :
            relays[r][k] <= (IF \E t \in world.sends : t.from = r /\ Key(t.pkt) = k THEN 0 ELSE 1)

\* The repeaters a flood from o can come to: those in every set that holds o and
\* the repeaters its members are heard by.
Reachable(o) ==
    {r \in Repeaters \ {o} : \A C \in SUBSET Nodes :
        o \in C /\ (\A n \in C : Neighbours[n] \cap Repeaters \subseteq C) => r \in C}

\* When the air is quiet and nothing was lost on its way, every repeater in
\* reach has relayed each flood, in whatever order the copies came, provided
\* max_flood_hops covers the longest route. (A wrapped ACK is never flooded.)
Coverage ==
    Quiet /\ lost = [n \in Nodes |-> 0] =>
        \A t \in {u \in world.sends : IsFlood(u.pkt) /\ u.pkt.type # "multiack"} :
            LET R == Reachable(t.from)
            IN (MaxFloodHops > 0 => Cardinality(R) <= MaxFloodHops) =>
                   \A r \in R : relays[r][Key(t.pkt)] >= 1

\* With multi_acks on, an ACK is relayed as a pair of frames with distinct
\* keys, and reaches its destination even if every repeater on the way loses
\* one frame.
AckSurvives ==
    Quiet /\ (\A n \in Nodes : lost[n] <= (IF n \in Repeaters THEN 1 ELSE 0)) =>
        \A t \in {u \in world.sends : u.pkt.type = "ack"} :
            \E s \in Stations \ {t.from} : \E f \in heard[s] : f.pkt.id = t.pkt.id

\* The mesh spreads a flood as FloodSpread says.
FloodPackets == {Key(t.pkt) : t \in {u \in Traffic : IsFlood(u.pkt)}}
Spread == INSTANCE FloodSpread WITH
              Nodes <- Repeaters,
              Packets <- FloodPackets,
              Origin <- [k \in FloodPackets |->
                            (CHOOSE t \in Traffic : Key(t.pkt) = k).from],
              neighbours <- world.neighbours,
              relayed <- [k \in FloodPackets |-> {r \in Repeaters : relays[r][k] > 0}]
ImplementsSpread == Spread!Spec
=============================================================================
