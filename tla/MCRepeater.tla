---------------------------- MODULE MCRepeater ----------------------------
(***************************************************************************)
(* Small instances for TLC of the engine of a repeater and of the limiter   *)
(* of the adverts it relays. They share nothing, so a behaviour is one of   *)
(* one of them, `part`, while the other stays as it begins.                 *)
(***************************************************************************)
EXTENDS Repeater, AdvertLimiter, TLC

VARIABLE part

repeaterVars == <<part, engineVars, limiterVars>>

---------------------------------------------------------------------------
(* Repeater *)
CONSTANTS me, p1, p2, p3, q, x, l    \* this node; calls: p1..p3 and l carry one packet

Packet(i, t, r, path) ==
    [id |-> i, type |-> t, route |-> r, scope |-> "region", size |-> 1, path |-> path, dnr |-> FALSE]

OwnHash == [n \in {me} |-> [w \in 1..3 |-> n]]
LoopOff == [w \in {} |-> 1]

Load(calls, pkt(_), locals, ttls, keys) ==
    [pkt |-> [n \in calls |-> pkt(n)], local |-> locals, ttls |-> ttls, keys |-> keys,
     dedup |-> FALSE]

\* Three receptions of one flood and one of another packet, and a reload.
ThreeAndOne(n) == Packet(IF n = q THEN 2 ELSE 1, "data", "flood", <<>>)
Forgetting == Load({p1, p2, p3, q}, ThreeAndOne, {}, {1}, {})

\* Three receptions of one flood and a wrapped ACK.
ThreeAndAck(n) == IF n = x THEN Packet(2, "multiack", "direct", <<me>>) ELSE Packet(1, "data", "flood", <<>>)
Filing == Load({p1, p2, p3, x}, ThreeAndAck, {}, {}, {})

\* Receptions of two scoped floods.
TwoScoped(n) == Packet(IF n = q THEN 2 ELSE 1, "data", "tflood", <<>>)
Keyed == Load({q, x}, TwoScoped, {}, {}, {"region"})

\* A flood received twice and a packet from here.
OwnAndRelayed(n) == Packet(IF n = l THEN 2 ELSE 1, "data", "flood", <<>>)
Sending == Load({q, x, l}, OwnAndRelayed, {l}, {}, {})

\* Filing also with the dispatcher's check.
RepeaterLoads == {Forgetting, Filing, Keyed, Sending, [Filing EXCEPT !.dedup = TRUE]}

\* The receptions p1, p2, p3 are interchangeable in every one of RepeaterLoads.
Receptions == Permutations({p1, p2, p3})

---------------------------------------------------------------------------
(* AdvertLimiter: limits a few ticks long. The refill of a congested mesh   *)
(* is not slowed further, to keep the ages small.                           *)
CONSTANTS a1, a2, key1, key2

MCKeyOf == [a \in {a1, a2} |-> IF a = a2 THEN key2 ELSE key1]
MCRate == [t \in Limited |-> IF t = "normal" THEN 2 ELSE 1]
MCMinGap == [t \in Limited |-> CASE t = "normal" -> 0 [] t = "busy" -> 1 [] t = "congested" -> 2]

---------------------------------------------------------------------------
RepeaterInit ==
    /\ part \in {"engine", "adverts"}
    /\ EngineInit /\ LimiterInit
    /\ \/ part = "engine"
       \/ load = (CHOOSE n \in Loads : TRUE) /\ mode = "forward" /\ scopes = {}

RepeaterNext ==
    \/ part = "engine" /\ EngineNext /\ UNCHANGED <<part, limiterVars>>
    \/ part = "adverts" /\ LimiterNext /\ UNCHANGED <<part, engineVars>>

RepeaterSpec == RepeaterInit /\ [][RepeaterNext]_repeaterVars
=============================================================================
