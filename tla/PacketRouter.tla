--------------------------- MODULE PacketRouter ---------------------------
(***************************************************************************)
(* PacketRouter: a bounded queue of received packets, one task per packet  *)
(* up to a cap, local transmissions injected one at a time, and the fan-out*)
(* of each packet to the local identities that may own it, before the      *)
(* forwarding engine gets it. Each offer to an identity is an await, and   *)
(* the tasks of other packets run in between.                              *)
(*                                                                         *)
(* Kind[p] says how _route_packet treats p:                                *)
(*   "share"   ADVERT, ACK, GRP_TXT, GRP_DATA: to every bridge and onwards *)
(*   "owned"   login, TXT_MSG, REQ: to the identities at its one-byte dest *)
(*   "path"    PATH: to the path helper, then once to the bridges          *)
(*   "answer"  RESPONSE: to the scope helper, then to the bridges          *)
(*   "taken"   TRACE: to its helper, which always consumes it              *)
(*   "onward"  anything else, and a direct packet with hops left           *)
(***************************************************************************)
EXTENDS Integers, Sequences, FiniteSets

CONSTANTS
    Bridges,        \* companion bridges
    Helper,         \* the repeater's or a room server's helper
    NoPacket,
    Loads           \* the traffic and the limits considered, each a record of:
                    \*   kind[p], hash[p]  copies of one logical packet share a hash
                    \*   injected          packets handed to inject_packet, not received
                    \*   origin[p]         the bridge an injected packet comes from
                    \*   dest[p]           the bridges at p's destination hash
                    \*   owns              packets whose hash a local identity also has
                    \*   blocked           packets the policy drops
                    \*   final             direct packets with no hop left
                    \*   queueSize, cap    queue.maxsize and _max_in_flight

ASSUME RouterAssumption ==
    /\ Helper \notin Bridges
    /\ \A n \in Loads : LET P == DOMAIN n.kind IN
        /\ n.kind \in [P -> {"share", "owned", "request", "path", "answer", "taken", "onward"}]
        /\ n.dest \in [P -> SUBSET Bridges] /\ DOMAIN n.hash = P
        /\ n.injected \cup n.blocked \cup n.owns \cup n.final \subseteq P
        /\ NoPacket \notin P
        /\ n.queueSize \in Nat \ {0} /\ n.cap \in Nat

VARIABLES
    load,       \* the traffic and limits of this behaviour, which never change
    at,         \* at[p]: where packet p is
    queue,      \* PacketRouter.queue
    inFlight,   \* _in_flight
    sender,     \* holder of _inject_lock
    waiting,    \* injections waiting for it, in order
    todo,       \* identities p's task has still to offer it to
    reached,    \* packets some bridge processed without raising
    owned,      \* packets some identity authenticated
    delivered,  \* hashes in _companion_delivered
    phase,      \* of the router: running, draining, stopped
    relayed,    \* relayed[p]: calls of the engine with received packet p
    asked, sent     \* injected packets in the order of their calls, of their sends

taskVars == <<todo, reached, owned, delivered>>
ghosts   == <<relayed, asked, sent>>     \* never read
vars     == <<load, at, queue, inFlight, sender, waiting, taskVars, phase, ghosts>>

Packets     == DOMAIN load.kind
Injected    == load.injected
Kind        == load.kind
Hash        == load.hash
Dest        == load.dest
QueueSize   == load.queueSize
MaxInFlight == load.cap

Running == {"spawned", "helper", "offering", "engine"}    \* a task awaits
Ending  == {"ended", "broke", "cut"}                      \* its callback is due
Settled == {"done", "failed", "dropped", "unsent", "cancelled"}

Init ==
    /\ load \in Loads
    /\ at = [p \in Packets |-> "new"]
    /\ queue = <<>> /\ inFlight = 0
    /\ sender = NoPacket /\ waiting = <<>>
    /\ todo = [p \in Packets |-> {}]
    /\ reached = {} /\ owned = {} /\ delivered = {}
    /\ phase = "running"
    /\ relayed = [p \in Packets |-> 0]
    /\ asked = <<>> /\ sent = <<>>

Move(p, place) == at' = [at EXCEPT ![p] = place]

---------------------------------------------------------------------------
(* enqueue, inject_packet *)

IsFull == Len(queue) = QueueSize

\* enqueue: the oldest packet of a full queue is dropped.
Enqueue(p) ==
    IF IsFull
    THEN /\ queue' = Append(Tail(queue), p)
         /\ at' = [at EXCEPT ![p] = "queued", ![Head(queue)] = "dropped"]
    ELSE /\ queue' = Append(queue, p)
         /\ Move(p, "queued")

\* The dispatcher hands over a received packet.
ReceivePacket(p) ==
    /\ p \notin Injected /\ at[p] = "new"
    /\ Enqueue(p)
    /\ UNCHANGED <<load, inFlight, sender, waiting, taskVars, phase, ghosts>>

\* inject_packet asks for _inject_lock.
Inject(p) ==
    /\ p \in Injected /\ at[p] = "new"
    /\ Move(p, "waiting") /\ waiting' = Append(waiting, p)
    /\ asked' = Append(asked, p)
    /\ UNCHANGED <<load, queue, inFlight, sender, taskVars, phase, relayed, sent>>

\* Mutant: the lock is taken while it is held.
CanInject_Shared(p) == waiting # <<>> /\ p = Head(waiting)

CanInject(p) == sender = NoPacket /\ waiting # <<>> /\ p = Head(waiting)

\* The lock is its own: the packet goes to the engine as a local transmission.
BeginInject(p) ==
    /\ CanInject(p)
    /\ sender' = p /\ waiting' = Tail(waiting) /\ Move(p, "sending")
    /\ UNCHANGED <<load, queue, inFlight, taskVars, phase, ghosts>>

\* Transmitted: the lock goes before the echo to the other companions.
InjectSent(p) ==
    /\ at[p] = "sending" /\ sender' = NoPacket
    /\ Move(p, "echoing")
    /\ sent' = Append(sent, p)
    /\ UNCHANGED <<load, queue, inFlight, waiting, taskVars, phase, relayed, asked>>

\* Echoed, or the echo failed: it is enqueued for their bridges.
EchoEnds(p) ==
    /\ at[p] = "echoing" /\ Enqueue(p)
    /\ UNCHANGED <<load, inFlight, sender, waiting, taskVars, phase, ghosts>>

\* The engine did not send it.
InjectFailed(p) ==
    /\ at[p] = "sending" /\ sender' = NoPacket
    /\ Move(p, "unsent")
    /\ UNCHANGED <<load, queue, inFlight, waiting, taskVars, phase, ghosts>>

---------------------------------------------------------------------------
(* _process_queue *)

AtCap == inFlight >= MaxInFlight

Spawn ==
    /\ phase = "running" /\ queue # <<>> /\ ~AtCap
    /\ queue' = Tail(queue) /\ Move(Head(queue), "spawned")
    /\ inFlight' = inFlight + 1
    /\ UNCHANGED <<load, sender, waiting, taskVars, phase, ghosts>>

CapDrop ==
    /\ phase = "running" /\ queue # <<>> /\ AtCap
    /\ queue' = Tail(queue) /\ Move(Head(queue), "dropped")
    /\ UNCHANGED <<load, inFlight, sender, waiting, taskVars, phase, ghosts>>

---------------------------------------------------------------------------
(* _route_packet *)

\* _companion_bridges_for_packet: none if the policy drops p, and never the
\* bridge p comes from.
BridgesFor(p) == IF p \in load.blocked THEN {} ELSE Bridges \ (IF p \in Injected THEN {load.origin[p]} ELSE {})

\* _consume_via_local_candidates offers p to the companion at its destination
\* and to the helper that shares the hash, or stands in for no companion.
Candidates(p) ==
    LET c == Dest[p] \cap BridgesFor(p)
    IN c \cup (IF p \in load.owns \/ c = {} THEN {Helper} ELSE {})

\* The bridges that may own a PATH or a RESPONSE: those at its destination,
\* or all of them if there are none.
Owners(p) ==
    IF Dest[p] \cap BridgesFor(p) # {} THEN Dest[p] \cap BridgesFor(p) ELSE BridgesFor(p)

\* p belongs to this node, or ends here for want of a next hop. (Such a
\* request is also offered to every bridge, which changes nothing here.)
Consumed(p) ==
    \/ Kind[p] = "taken"
    \/ Kind[p] \in {"owned", "request", "path", "answer"} /\ p \in owned
    \/ Kind[p] \in {"request", "answer"} /\ p \in load.final /\ BridgesFor(p) # {}

\* Mutant: a packet this node has injected goes to the engine once more.
IsDone_NotInjected(p) == Consumed(p)

\* The engine has no business with p.
IsDone(p) == p \in Injected \/ Consumed(p)

\* p's task goes on without an await: to the identities S, to the engine, or
\* to its end. owned' is already known.
Proceed(p, S) ==
    /\ UNCHANGED <<load, queue, inFlight, sender, waiting, phase, asked, sent>>
    /\ todo' = [todo EXCEPT ![p] = S]
    /\ Move(p, IF S # {} THEN "offering" ELSE IF IsDone(p)' THEN "ended" ELSE "engine")
    /\ relayed' = IF S = {} /\ ~IsDone(p)' THEN [relayed EXCEPT ![p] = @ + 1] ELSE relayed

Start(p) ==
    /\ at[p] = "spawned" /\ Kind[p] \notin {"path", "answer"}
    /\ UNCHANGED <<reached, owned, delivered>>
    /\ Proceed(p, CASE Kind[p] = "share"  -> BridgesFor(p)
                    [] Kind[p] \in {"owned", "request"} -> Candidates(p)
                    [] Kind[p] = "taken"  -> IF p \in Injected THEN {} ELSE {Helper}
                    [] OTHER -> {})                        \* "onward"

\* A PATH or a RESPONSE goes to a helper first.
AskHelper(p) ==
    /\ at[p] = "spawned" /\ Kind[p] \in {"path", "answer"}
    /\ Move(p, "helper")
    /\ UNCHANGED <<load, queue, inFlight, sender, waiting, taskVars, phase, ghosts>>

\* The helper answers; what it recognises of a RESPONSE is not offered to the
\* bridges, nor is a PATH of which a copy was delivered before.
HelperAnswers(p, authentic) ==
    /\ at[p] = "helper"
    /\ owned' = IF authentic THEN owned \cup {p} ELSE owned
    /\ UNCHANGED <<reached, delivered>>
    /\ Proceed(p, IF \/ Kind[p] = "answer" /\ authentic
                     \/ Kind[p] = "path" /\ Hash[p] \in delivered
                  THEN {} ELSE Owners(p))

\* Mutant: a PATH every bridge failed on counts as delivered.
Reached_Always(p, got) == TRUE

\* Some bridge has processed p.
Reached(p, got) == p \in got

\* Identity b answers, or a bridge raises, which ends nothing. After the last
\* one a PATH that reached a bridge is marked as delivered.
Answer(p, b, outcome) ==
    /\ at[p] = "offering" /\ b \in todo[p]
    /\ b = Helper => outcome # "raised"
    /\ owned' = IF outcome = "authentic" THEN owned \cup {p} ELSE owned
    /\ IF b # Helper /\ outcome # "raised"
       THEN reached' = reached \cup {p}
       ELSE UNCHANGED reached
    /\ delivered' = IF Kind[p] = "path" /\ todo[p] = {b} /\ Reached(p, reached')
                    THEN delivered \cup {Hash[p]} ELSE delivered
    /\ Proceed(p, todo[p] \ {b})

\* A helper raises, and with it the task.
HelperRaises(p) ==
    /\ at[p] = "offering" /\ Helper \in todo[p]
    /\ Move(p, "broke")
    /\ UNCHANGED <<load, queue, inFlight, sender, waiting, taskVars, phase, ghosts>>

\* The engine returns or raises.
EngineEnds(p, how) ==
    /\ at[p] = "engine" /\ how \in {"ended", "broke"}
    /\ Move(p, how)
    /\ UNCHANGED <<load, queue, inFlight, sender, waiting, taskVars, phase, ghosts>>

\* Mutant: a failed task keeps its place.
Released_Done(p) == IF at[p] = "ended" THEN inFlight - 1 ELSE inFlight

Released(p) == inFlight - 1

\* Mutant: the callback does nothing for a task that raised.
OnRouteDone_NoError(p) ==
    /\ at[p] \in Ending \ {"broke"}
    /\ inFlight' = Released(p)
    /\ Move(p, IF at[p] = "ended" THEN "done" ELSE "cancelled")
    /\ UNCHANGED <<load, queue, sender, waiting, taskVars, phase, ghosts>>

\* The done-callback _on_route_done.
OnRouteDone(p) ==
    /\ at[p] \in Ending
    /\ inFlight' = Released(p)
    /\ Move(p, CASE at[p] = "ended" -> "done" [] at[p] = "broke" -> "failed" [] at[p] = "cut" -> "cancelled")
    /\ UNCHANGED <<load, queue, sender, waiting, taskVars, phase, ghosts>>

\* The entry of a delivered PATH expires.
Expire(h) ==
    /\ h \in delivered /\ delivered' = delivered \ {h}
    /\ UNCHANGED <<load, at, queue, inFlight, sender, waiting, todo, reached, owned, phase, relayed, asked, sent>>

---------------------------------------------------------------------------
(* stop *)

\* The queue loop is cancelled; no task is spawned from here on.
Stop ==
    /\ phase = "running" /\ phase' = "draining"
    /\ UNCHANGED <<load, at, queue, inFlight, sender, waiting, taskVars, ghosts>>

\* Mutant: only tasks that have reached the engine are cancelled.
ToCancel_Some == {p \in Packets : at[p] = "engine"}

ToCancel == {p \in Packets : at[p] \in Running}

\* The drain timeout passes with tasks pending.
DrainTimeout ==
    /\ phase = "draining" /\ ToCancel # {}
    /\ at' = [p \in Packets |-> IF p \in ToCancel THEN "cut" ELSE at[p]]
    /\ UNCHANGED <<load, queue, inFlight, sender, waiting, taskVars, phase, ghosts>>

\* Mutant: tasks that are still asking identities are not waited for.
Drained_Engine == \A p \in Packets : at[p] # "engine"

Drained == \A p \in Packets : at[p] \notin Running \cup Ending

StopEnds ==
    /\ phase = "draining" /\ Drained
    /\ phase' = "stopped"
    /\ UNCHANGED <<load, at, queue, inFlight, sender, waiting, taskVars, ghosts>>

---------------------------------------------------------------------------
InjectStep(p) == BeginInject(p) \/ InjectSent(p) \/ EchoEnds(p) \/ InjectFailed(p)

RouteStep(p) ==
    \/ Start(p) \/ AskHelper(p) \/ HelperRaises(p) \/ OnRouteDone(p)
    \/ \E authentic \in BOOLEAN : HelperAnswers(p, authentic)
    \/ \E b \in Bridges \cup {Helper} : \E o \in {"ignored", "authentic", "raised"} : Answer(p, b, o)
    \/ \E how \in {"ended", "broke"} : EngineEnds(p, how)

Serve == Spawn \/ CapDrop

Shutdown == DrainTimeout \/ StopEnds

Next == \/ \E p \in Packets : ReceivePacket(p) \/ Inject(p) \/ InjectStep(p) \/ RouteStep(p)
        \/ \E h \in delivered : Expire(h)
        \/ Serve \/ Stop \/ Shutdown

Spec == Init /\ [][Next]_vars

\* The event loop runs what is ready: the queue loop, the done-callbacks and,
\* once its timeout has passed, the drain. Nothing is assumed of the handlers.
FairSpec == /\ Spec
            /\ WF_vars(Serve) /\ WF_vars(Shutdown) /\ WF_vars(\E p \in Packets : OnRouteDone(p))

\* Every handler an identity or the engine runs for a packet returns or raises.
HandlersEnd == WF_vars(\E p \in Packets : RouteStep(p))

---------------------------------------------------------------------------
(* Properties *)

Live == {p \in Packets : at[p] \in Running \cup Ending}

\* The counter that the cap is checked against is the number of tasks alive,
\* however they end, and stays within the cap. A stopped router has none left,
\* and none is started again.
InFlightExact ==
    /\ inFlight = Cardinality(Live) /\ inFlight <= MaxInFlight
    /\ phase = "stopped" => Live = {}

\* Injected packets are transmitted one at a time and in the order of the
\* calls, some of which may fail. Their echoes and their way to the companions
\* come after the lock and may overtake each other.
InjectInOrder ==
    /\ \A p, q \in Packets : at[p] = "sending" /\ at[q] = "sending" => p = q
    /\ \E S \in SUBSET DOMAIN asked :
           /\ Cardinality(S) = Len(sent)
           /\ \A i \in S : asked[i] = sent[Cardinality({j \in S : j <= i})]

\* A received packet whose task is over went to the forwarding engine exactly
\* once unless a local identity authenticated it (or it is a request or an
\* answer with no hop left), whichever identities shared its destination hash;
\* an injected packet never does; and a PATH is withheld from the companions as
\* delivered only when one of their bridges did get a copy of it.
OwnersDecide ==
    /\ \A p \in Packets :
          /\ at[p] = "done" => relayed[p] = (IF p \in Injected \/ Consumed(p) THEN 0 ELSE 1)
          /\ p \in owned \/ p \in Injected => relayed[p] = 0 \/ Kind[p] = "share"
    /\ \A h \in delivered : \E p \in reached : Hash[p] = h

\* If the handlers end, every queued packet is settled, unless the router is
\* stopped first.
EveryPacketSettles ==
    HandlersEnd => \A p \in UNION {DOMAIN n.kind : n \in Loads} :
        (p \in Packets /\ at[p] = "queued")
            ~> (p \in Packets => at[p] \in Settled \/ phase # "running")

\* Shutdown ends, whatever the tasks are waiting for.
ShutdownEnds == phase = "draining" ~> phase = "stopped"
=============================================================================
