-------------------------- MODULE MCPacketRouter --------------------------
(* Small instances of PacketRouter for TLC. *)
EXTENDS PacketRouter

CONSTANTS p, q, t, i, j,    \* packets
          a, b              \* bridges

Load(packets, kind(_)) ==
    [kind |-> [k \in packets |-> kind(k)], hash |-> [k \in packets |-> k],
     dest |-> [k \in packets |-> {}], injected |-> packets \cap {i, j},
     origin |-> [k \in packets |-> a],
     owns |-> {}, blocked |-> {}, final |-> {}, queueSize |-> 2, cap |-> 2]

\* Two copies of a PATH, for nobody in particular.
APath(k) == "path"
Copies  == [Load({p, q}, APath) EXCEPT !.hash = [k \in {p, q} |-> p]]

\* A text message whose destination hash a and the room server share, a RESPONSE
\* to nobody in particular, and an injected advert.
Mixed(k) == CASE k = p -> "owned" [] k = q -> "answer" [] k = i -> "share"
Shared == [Load({p, q, i}, Mixed) EXCEPT !.dest[p] = {a}, !.owns = {p}]

\* A request and a RESPONSE at their last hop, and one more request.
Asked(k) == IF k = q THEN "answer" ELSE "request"
Final == [Load({p, q, t}, Asked) EXCEPT !.final = {p, q}, !.dest[t] = {b}]

\* A burst over a queue of one and a cap of one: a packet the policy drops, a
\* TRACE, and two injected packets.
Busy(k) == CASE k = p -> "share" [] k = q -> "taken" [] k \in {i, j} -> "onward"
Burst == [Load({p, q, i, j}, Busy) EXCEPT !.blocked = {p}, !.queueSize = 1, !.cap = 1]

RouterLoads == {Copies, Shared, Final, Burst}
=============================================================================
