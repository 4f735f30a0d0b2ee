------------------------ MODULE PacketRouter_proofs ------------------------
(***************************************************************************)
(* For any packets, bridges and limits: the count of tasks is exact, local *)
(* transmissions keep their order, and the owners of a packet decide       *)
(* whether it is forwarded.                                                *)
(***************************************************************************)
EXTENDS PacketRouter, Functions, FiniteSetTheorems, TLAPS

Places == {"new", "waiting", "sending", "echoing", "queued"} \cup Running \cup Ending \cup Settled

TypeInv ==
    /\ load \in Loads
    /\ at \in [Packets -> Places]
    /\ queue \in Seq(Packets)
    /\ inFlight \in Nat
    /\ sender \in Packets \cup {NoPacket} /\ waiting \in Seq(Packets)
    /\ phase \in {"running", "draining", "stopped"}
    /\ relayed \in [Packets -> Nat]
    /\ asked \in Seq(Packets) /\ sent \in Seq(Packets)

\* The queue and the injections that wait for the lock hold the packets in that
\* place, each once.
QueueInv ==
    /\ IsInjective(queue) /\ \A p \in Range(queue) : at[p] = "queued"
    /\ IsInjective(waiting) /\ \A p \in Range(waiting) : at[p] = "waiting"

CountInv == IsFiniteSet(Live) /\ InFlightExact

\* Who holds the lock sends, and waited just before those that wait, in the
\* order of the calls.
LockInv ==
    /\ \A p \in Packets : at[p] = "sending" => sender = p
    /\ Len(waiting) <= Len(asked)
    /\ \A i \in DOMAIN waiting : waiting[i] = asked[Len(asked) - Len(waiting) + i]
    /\ sender # NoPacket => Len(waiting) < Len(asked) /\ sender = asked[Len(asked) - Len(waiting)]

\* The calls whose turn is over.
Over == 1 .. (Len(asked) - Len(waiting) - (IF sender # NoPacket THEN 1 ELSE 0))

UpTo(S, i) == {j \in S : j <= i}

\* S is the calls that were sent.
SentAre(S) ==
    /\ Cardinality(S) = Len(sent)
    /\ \A i \in S : asked[i] = sent[Cardinality(UpTo(S, i))]

SentInv == \E S \in SUBSET Over : SentAre(S)

OrderInv == LockInv /\ SentInv

\* The engine had the packet if and when its task found that it had to.
RelayOk(p) ==
    /\ at[p] \in {"new", "waiting", "sending", "echoing", "queued", "spawned", "helper", "offering"} => relayed[p] = 0
    /\ at[p] = "engine" => relayed[p] = 1
    /\ at[p] \in {"ended", "done"} => relayed[p] = (IF IsDone(p) THEN 0 ELSE 1)
    /\ relayed[p] # 0 => relayed[p] = 1 /\ ~IsDone(p)
    /\ at[p] \in {"helper", "offering"} \/ p \in owned => Kind[p] # "onward"

RelayInv == \A p \in Packets : RelayOk(p)

DeliveredInv == \A h \in delivered : \E p \in reached : Hash[p] = h

IInv == TypeInv /\ QueueInv /\ CountInv /\ OrderInv /\ RelayInv /\ DeliveredInv

---------------------------------------------------------------------------
(* Sequences without repetitions, and what the operators of the module do to *)
(* the place of a packet.                                                  *)

LEMMA TailDistinct ==
    ASSUME NEW S, NEW s \in Seq(S), s # <<>>, IsInjective(s)
    PROVE  /\ Tail(s) \in Seq(S) /\ IsInjective(Tail(s)) /\ Head(s) \in S
           /\ Head(s) \in Range(s) /\ Range(Tail(s)) = Range(s) \ {Head(s)}
<1>1. /\ Tail(s) \in Seq(S) /\ Len(Tail(s)) = Len(s) - 1
      /\ \A i \in DOMAIN Tail(s) : i + 1 \in DOMAIN s /\ Tail(s)[i] = s[i + 1]
      /\ Head(s) = s[1] /\ 1 \in DOMAIN s /\ s[1] \in S
  OBVIOUS
<1>2. IsInjective(Tail(s))
  BY <1>1 DEF IsInjective
<1>3. \A i \in DOMAIN s : i = 1 \/ (i - 1 \in DOMAIN Tail(s) /\ Tail(s)[i - 1] = s[i])
  BY <1>1
<1>4. Range(Tail(s)) = Range(s) \ {s[1]}
  BY <1>1, <1>3 DEF Range, IsInjective
<1>. QED  BY <1>1, <1>2, <1>4 DEF Range

LEMMA AppendDistinct ==
    ASSUME NEW S, NEW s \in Seq(S), NEW x \in S, IsInjective(s), x \notin Range(s)
    PROVE  /\ Append(s, x) \in Seq(S) /\ IsInjective(Append(s, x))
           /\ Range(Append(s, x)) = Range(s) \cup {x}
<1>1. /\ Append(s, x) \in Seq(S) /\ DOMAIN Append(s, x) = DOMAIN s \cup {Len(s) + 1}
      /\ Len(s) + 1 \notin DOMAIN s /\ Append(s, x)[Len(s) + 1] = x
      /\ \A i \in DOMAIN s : Append(s, x)[i] = s[i]
  OBVIOUS
<1>. QED  BY <1>1 DEF IsInjective, Range

\* What Append leaves of a sequence.
LEMMA AppendFacts ==
    ASSUME NEW S, NEW s \in Seq(S), NEW x \in S
    PROVE  /\ Len(s) \in Nat /\ Len(Append(s, x)) = Len(s) + 1
           /\ DOMAIN Append(s, x) = 1..(Len(s) + 1) /\ Append(s, x)[Len(s) + 1] = x
           /\ \A i \in 1..Len(s) : Append(s, x)[i] = s[i]
  OBVIOUS

\* A behaviour keeps its load.
LEMMA LoadKept ==
    ASSUME [Next]_vars
    PROVE  UNCHANGED <<load, Packets, Injected, MaxInFlight, QueueSize>>
<1>1. UNCHANGED load
  BY DEF Next, vars, ReceivePacket, Inject, InjectStep, BeginInject, InjectSent, EchoEnds, InjectFailed, RouteStep,
         Start, AskHelper, HelperRaises, OnRouteDone, HelperAnswers, Answer, EngineEnds, Proceed, Expire,
         Serve, Spawn, CapDrop, Stop, Shutdown, DrainTimeout, StopEnds
<1>. QED  BY <1>1 DEF Packets, Injected, MaxInFlight, QueueSize

\* The steps a task takes.
TaskStep(p) ==
    \/ Start(p) \/ AskHelper(p) \/ HelperRaises(p)
    \/ \E authentic \in BOOLEAN : HelperAnswers(p, authentic)
    \/ \E b \in Bridges \cup {Helper} : \E o \in {"ignored", "authentic", "raised"} : Answer(p, b, o)
    \/ \E how \in {"ended", "broke"} : EngineEnds(p, how)

\* A task goes from one place it is alive at to another, and touches neither the
\* queue nor the lock.
LEMMA TaskMoves ==
    ASSUME NEW p \in Packets, TaskStep(p)
    PROVE  /\ at[p] \in Running
           /\ \E place \in Running \cup Ending : Move(p, place)
           /\ UNCHANGED <<load, queue, inFlight, sender, waiting, phase, asked, sent>>
<1> USE DEF Running, Ending
<1>1. ASSUME NEW S, Proceed(p, S)
      PROVE  /\ \E place \in Running \cup Ending : Move(p, place)
             /\ UNCHANGED <<load, queue, inFlight, sender, waiting, phase, asked, sent>>
  BY <1>1 DEF Proceed
<1>2. CASE Start(p)
  <2>1. at[p] = "spawned" /\ \E S : Proceed(p, S)
    BY <1>2, Zenon DEF Start
  <2>. QED  BY <1>1, <2>1
<1>3. CASE AskHelper(p) \/ HelperRaises(p)
  BY <1>3 DEF AskHelper, HelperRaises, ghosts
<1>4. ASSUME NEW authentic, HelperAnswers(p, authentic)
      PROVE  at[p] \in Running /\ \E S : Proceed(p, S)
  BY <1>4 DEF HelperAnswers
<1>5. ASSUME NEW b, NEW o, Answer(p, b, o)
      PROVE  at[p] \in Running /\ \E S : Proceed(p, S)
  BY <1>5 DEF Answer
<1>6. ASSUME NEW how, EngineEnds(p, how)
      PROVE  /\ at[p] \in Running
             /\ \E place \in Running \cup Ending : Move(p, place)
             /\ UNCHANGED <<load, queue, inFlight, sender, waiting, phase, asked, sent>>
  BY <1>6 DEF EngineEnds, ghosts
<1>. QED  BY <1>1, <1>2, <1>3, <1>4, <1>5, <1>6 DEF TaskStep, ghosts

\* Another packet moves, so queue and lock hold what they held.
LEMMA OthersMove ==
    ASSUME TypeInv, QueueInv, NEW p \in Packets, NEW place \in Places, Move(p, place),
           UNCHANGED <<queue, waiting, Packets>>, at[p] \notin {"queued", "waiting"}
    PROVE  at' \in [Packets -> Places] /\ QueueInv'
<1>1. \A q \in Packets : q # p => at'[q] = at[q]
  BY DEF TypeInv, Move
<1>2. Range(queue) \subseteq Packets /\ Range(waiting) \subseteq Packets
  BY DEF TypeInv, Range
<1>. QED  BY <1>1, <1>2 DEF TypeInv, QueueInv, Move

\* A packet gets into the queue, and another may be dropped from it.
LEMMA Enqueued ==
    ASSUME TypeInv, QueueInv, NEW p \in Packets, at[p] \in {"new", "echoing"}, Enqueue(p),
           UNCHANGED <<waiting, Packets>>
    PROVE  /\ at' \in [Packets -> Places] /\ queue' \in Seq(Packets) /\ QueueInv'
           /\ at'[p] = "queued"
           /\ \A q \in Packets \ {p} : at'[q] = at[q] \/ (at[q] = "queued" /\ at'[q] = "dropped")
<1>1. Range(queue) \subseteq Packets /\ Range(waiting) \subseteq Packets /\ p \notin Range(queue)
  <2>1. Range(queue) \subseteq Packets /\ Range(waiting) \subseteq Packets
    BY DEF TypeInv, Range
  <2>. QED  BY <2>1 DEF QueueInv
<1>2. CASE IsFull
  <2> DEFINE rest == Tail(queue)
  <2>1. queue # <<>>
    BY <1>2, RouterAssumption DEF RouterAssumption, IsFull, QueueSize, TypeInv
  <2>2. /\ rest \in Seq(Packets) /\ IsInjective(rest) /\ Head(queue) \in Packets
        /\ Head(queue) \in Range(queue) /\ Range(rest) = Range(queue) \ {Head(queue)}
    BY <2>1, TailDistinct DEF TypeInv, QueueInv
  <2>3. at' = [at EXCEPT ![p] = "queued", ![Head(queue)] = "dropped"] /\ queue' = Append(rest, p)
    BY <1>2 DEF Enqueue
  <2>4. queue' \in Seq(Packets) /\ IsInjective(queue') /\ Range(queue') = Range(rest) \cup {p}
    <3>1. p \notin Range(rest)
      BY <1>1, <2>2
    <3> HIDE DEF rest
    <3>2. Append(rest, p) \in Seq(Packets) /\ IsInjective(Append(rest, p)) /\ Range(Append(rest, p)) = Range(rest) \cup {p}
      BY <2>2, <3>1, AppendDistinct
    <3>. QED  BY <2>3, <3>2
  <2>5. /\ at' \in [Packets -> Places] /\ at'[p] = "queued" /\ at'[Head(queue)] = "dropped"
        /\ \A q \in Packets : q # p /\ q # Head(queue) => at'[q] = at[q]
    BY <1>1, <2>2, <2>3 DEF TypeInv, Places, Settled
  <2>6. QueueInv'
    BY <1>1, <2>2, <2>4, <2>5 DEF QueueInv
  <2>. QED  BY <2>2, <2>4, <2>5, <2>6 DEF QueueInv
<1>3. CASE ~IsFull
  <2>1. queue' = Append(queue, p) /\ at' = [at EXCEPT ![p] = "queued"]
    BY <1>3 DEF Enqueue, Move
  <2>2. queue' \in Seq(Packets) /\ IsInjective(queue') /\ Range(queue') = Range(queue) \cup {p}
    BY <1>1, <2>1, AppendDistinct DEF TypeInv, QueueInv
  <2>3. /\ at' \in [Packets -> Places] /\ at'[p] = "queued"
        /\ \A q \in Packets : q # p => at'[q] = at[q]
    BY <2>1 DEF TypeInv, Places
  <2>4. QueueInv'
    BY <1>1, <2>2, <2>3 DEF QueueInv
  <2>. QED  BY <2>2, <2>3, <2>4
<1>. QED  BY <1>2, <1>3

\* The first packet leaves the queue.
LEMMA Dequeued ==
    ASSUME TypeInv, QueueInv, queue # <<>>, queue' = Tail(queue), NEW place \in Places,
           Move(Head(queue), place), UNCHANGED <<waiting, Packets>>
    PROVE  /\ Head(queue) \in Packets /\ at[Head(queue)] = "queued"
           /\ at' \in [Packets -> Places] /\ queue' \in Seq(Packets) /\ QueueInv'
<1>1. /\ queue' \in Seq(Packets) /\ IsInjective(queue') /\ Head(queue) \in Packets
      /\ Head(queue) \in Range(queue) /\ Range(queue') = Range(queue) \ {Head(queue)}
  BY TailDistinct DEF TypeInv, QueueInv
<1>2. Range(queue) \subseteq Packets /\ Range(waiting) \subseteq Packets
  BY DEF TypeInv, Range
<1>3. at' \in [Packets -> Places] /\ \A q \in Packets : q # Head(queue) => at'[q] = at[q]
  BY <1>1 DEF Move, TypeInv
<1>4. QueueInv'
  BY <1>1, <1>2, <1>3 DEF QueueInv
<1>. QED  BY <1>1, <1>3, <1>4 DEF QueueInv

---------------------------------------------------------------------------
(* The types, the queue and the lock's waiting list.                       *)

LEMMA TypeStep ==
    ASSUME TypeInv, QueueInv, CountInv, [Next]_vars
    PROVE  TypeInv' /\ QueueInv'
<1>0. UNCHANGED <<load, Packets>>
  BY LoadKept
<1>1. ASSUME NEW p \in Packets, ReceivePacket(p) \/ EchoEnds(p) PROVE TypeInv' /\ QueueInv'
  <2>1. at' \in [Packets -> Places] /\ queue' \in Seq(Packets) /\ QueueInv'
    BY <1>0, <1>1, Enqueued DEF ReceivePacket, EchoEnds
  <2>. QED  BY <1>0, <1>1, <2>1 DEF ReceivePacket, EchoEnds, TypeInv, ghosts
<1>2. ASSUME NEW p \in Packets, Inject(p) PROVE TypeInv' /\ QueueInv'
  <2>1. Range(queue) \subseteq Packets /\ Range(waiting) \subseteq Packets /\ p \notin Range(waiting)
    <3>1. Range(queue) \subseteq Packets /\ Range(waiting) \subseteq Packets
      BY DEF TypeInv, Range
    <3>. QED  BY <1>2, <3>1 DEF QueueInv, Inject
  <2>2. waiting' \in Seq(Packets) /\ IsInjective(waiting') /\ Range(waiting') = Range(waiting) \cup {p}
    BY <1>2, <2>1, AppendDistinct DEF Inject, TypeInv, QueueInv
  <2>3. /\ at' \in [Packets -> Places] /\ at'[p] = "waiting"
        /\ \A q \in Packets : q # p => at'[q] = at[q]
    BY <1>2 DEF Inject, Move, TypeInv, Places
  <2>4. QueueInv'
    BY <1>2, <2>1, <2>2, <2>3 DEF Inject, QueueInv
  <2>. QED  BY <1>0, <1>2, <2>2, <2>3, <2>4 DEF Inject, TypeInv
<1>3. ASSUME NEW p \in Packets, BeginInject(p) PROVE TypeInv' /\ QueueInv'
  <2>1. /\ waiting' \in Seq(Packets) /\ IsInjective(waiting') /\ p \in Range(waiting)
        /\ Range(waiting') = Range(waiting) \ {p}
    BY <1>3, TailDistinct DEF BeginInject, CanInject, TypeInv, QueueInv
  <2>2. Range(queue) \subseteq Packets /\ Range(waiting) \subseteq Packets
    BY DEF TypeInv, Range
  <2>3. /\ at' \in [Packets -> Places] /\ at'[p] = "sending"
        /\ \A q \in Packets : q # p => at'[q] = at[q]
    BY <1>3 DEF BeginInject, Move, TypeInv, Places
  <2>4. QueueInv'
    BY <1>3, <2>1, <2>2, <2>3 DEF BeginInject, QueueInv
  <2>. QED  BY <1>0, <1>3, <2>1, <2>3, <2>4 DEF BeginInject, TypeInv, ghosts
<1>4. ASSUME NEW p \in Packets, InjectSent(p) PROVE TypeInv' /\ QueueInv'
  <2>1. at' \in [Packets -> Places] /\ QueueInv'
    BY <1>0, <1>4, OthersMove DEF InjectSent, Places
  <2>. QED  BY <1>0, <1>4, <2>1 DEF InjectSent, TypeInv
<1>5. ASSUME NEW p \in Packets, InjectFailed(p) PROVE TypeInv' /\ QueueInv'
  <2>1. at' \in [Packets -> Places] /\ QueueInv'
    BY <1>0, <1>5, OthersMove DEF InjectFailed, Places, Settled
  <2>. QED  BY <1>0, <1>5, <2>1 DEF InjectFailed, TypeInv, ghosts
<1>6. ASSUME NEW p \in Packets, TaskStep(p) PROVE TypeInv' /\ QueueInv'
  <2>1. at' \in [Packets -> Places] /\ QueueInv'
    BY <1>0, <1>6, TaskMoves, OthersMove DEF Places, Running
  <2>2. relayed' \in [Packets -> Nat]
    <3>1. ASSUME NEW S, Proceed(p, S) PROVE relayed' \in [Packets -> Nat]
      BY <3>1 DEF Proceed, TypeInv
    <3>2. (\E S : Proceed(p, S)) \/ UNCHANGED relayed
      BY <1>6 DEF TaskStep, Start, AskHelper, HelperRaises, HelperAnswers, Answer, EngineEnds, ghosts
    <3>. QED  BY <3>1, <3>2 DEF TypeInv
  <2>. QED  BY <1>0, <1>6, <2>1, <2>2, TaskMoves DEF TypeInv
<1>7. ASSUME NEW p \in Packets, OnRouteDone(p) PROVE TypeInv' /\ QueueInv'
  <2>1. inFlight' \in Nat
    <3>1. p \in Live
      BY <1>7 DEF OnRouteDone, Live
    <3>2. inFlight # 0
      BY <3>1, FS_EmptySet DEF CountInv, InFlightExact
    <3>. QED  BY <1>7, <3>2 DEF OnRouteDone, Released, TypeInv
  <2>2. at' \in [Packets -> Places] /\ QueueInv'
    BY <1>0, <1>7, OthersMove DEF OnRouteDone, Ending, Settled, Places
  <2>. QED  BY <1>0, <1>7, <2>1, <2>2 DEF OnRouteDone, TypeInv, ghosts
<1>8. CASE Spawn
  BY <1>0, <1>8, Dequeued DEF Spawn, TypeInv, Places, Running, ghosts
<1>9. CASE CapDrop
  BY <1>0, <1>9, Dequeued DEF CapDrop, TypeInv, Places, Settled, ghosts
<1>10. CASE DrainTimeout
  <2>1. Range(queue) \subseteq Packets /\ Range(waiting) \subseteq Packets
    BY DEF TypeInv, Range
  <2>. QED  BY <1>0, <1>10, <2>1 DEF DrainTimeout, ToCancel, TypeInv, QueueInv, Places, Running, Ending, ghosts
<1>11. CASE Stop \/ StopEnds
  BY <1>0, <1>11 DEF Stop, StopEnds, TypeInv, QueueInv, ghosts
<1>12. CASE UNCHANGED vars \/ \E h \in delivered : Expire(h)
  BY <1>0, <1>12 DEF vars, ghosts, Expire, TypeInv, QueueInv
<1>. QED
  BY <1>1, <1>2, <1>3, <1>4, <1>5, <1>6, <1>7, <1>8, <1>9, <1>10, <1>11, <1>12
  DEF Next, InjectStep, RouteStep, TaskStep, Serve, Shutdown

---------------------------------------------------------------------------
(* The count of tasks.                                                     *)

LEMMA CountStep ==
    ASSUME TypeInv, QueueInv, CountInv, [Next]_vars
    PROVE  CountInv'
<1>0. UNCHANGED <<load, Packets, MaxInFlight>> /\ MaxInFlight \in Nat /\ at \in [Packets -> Places]
  BY LoadKept, RouterAssumption DEF RouterAssumption, MaxInFlight, TypeInv
<1>1. ASSUME Live' = Live, UNCHANGED inFlight, phase' = "stopped" => phase = "stopped" \/ Live = {}
      PROVE  CountInv'
  BY <1>0, <1>1 DEF CountInv, InFlightExact
<1>2. ASSUME NEW p \in Packets, ReceivePacket(p) \/ EchoEnds(p) PROVE CountInv'
  <2>1. /\ at[p] \notin Running \cup Ending /\ at'[p] \notin Running \cup Ending
        /\ \A q \in Packets \ {p} : at'[q] \in Running \cup Ending <=> at[q] \in Running \cup Ending
    BY <1>0, <1>2, Enqueued DEF ReceivePacket, EchoEnds, Running, Ending
  <2>2. Live' = Live
    BY <1>0, <2>1 DEF Live
  <2>. QED  BY <1>1, <1>2, <2>2 DEF ReceivePacket, EchoEnds
<1>3. ASSUME NEW p \in Packets, Inject(p) \/ InjectSent(p) \/ InjectFailed(p) \/ BeginInject(p) PROVE CountInv'
  <2>1. at[p] \notin Running \cup Ending
    <3>1. CASE BeginInject(p)
      <4>1. p \in Range(waiting)
        BY <3>1, TailDistinct DEF BeginInject, CanInject, TypeInv, QueueInv
      <4>. QED  BY <4>1 DEF QueueInv, Running, Ending
    <3>. QED  BY <1>3, <3>1 DEF Inject, InjectSent, InjectFailed, Running, Ending
  <2>2. \E place \in {"waiting", "unsent", "sending", "echoing"} : at' = [at EXCEPT ![p] = place]
    BY <1>3 DEF Inject, InjectSent, InjectFailed, BeginInject, Move
  <2>3. Live' = Live
    BY <1>0, <2>1, <2>2 DEF Live, Running, Ending
  <2>. QED  BY <1>1, <1>3, <2>3 DEF Inject, InjectSent, InjectFailed, BeginInject
<1>4. ASSUME NEW p \in Packets, TaskStep(p) PROVE CountInv'
  <2>1. Live' = Live
    BY <1>0, <1>4, TaskMoves DEF Move, Live
  <2>. QED  BY <1>1, <1>4, <2>1, TaskMoves
<1>5. ASSUME NEW p \in Packets, OnRouteDone(p) PROVE CountInv'
  <2>1. p \in Live /\ Live' = Live \ {p}
    BY <1>0, <1>5 DEF OnRouteDone, Move, Live, Running, Ending
  <2>2. inFlight' = inFlight - 1 /\ UNCHANGED phase
    BY <1>5 DEF OnRouteDone, Released
  <2>3. IsFiniteSet(Live') /\ Cardinality(Live') = Cardinality(Live) - 1
    BY <2>1, FS_RemoveElement DEF CountInv
  <2>. QED  BY <1>0, <2>1, <2>2, <2>3 DEF CountInv, InFlightExact, TypeInv
<1>6. CASE Spawn
  <2>1. Head(queue) \in Packets /\ at[Head(queue)] = "queued" /\ at' = [at EXCEPT ![Head(queue)] = "spawned"]
    BY <1>0, <1>6, Dequeued DEF Spawn, Move, Places, Running
  <2>2. Head(queue) \notin Live /\ Live' = Live \cup {Head(queue)}
    BY <1>0, <2>1 DEF Live, Running, Ending
  <2>3. inFlight' = inFlight + 1 /\ inFlight < MaxInFlight /\ phase' = "running"
    BY <1>0, <1>6 DEF Spawn, AtCap, TypeInv
  <2>4. IsFiniteSet(Live') /\ Cardinality(Live') = Cardinality(Live) + 1
    BY <2>2, FS_AddElement DEF CountInv
  <2>. QED  BY <1>0, <2>3, <2>4 DEF CountInv, InFlightExact, TypeInv
<1>7. CASE CapDrop
  <2>1. Head(queue) \in Packets /\ at[Head(queue)] = "queued" /\ at' = [at EXCEPT ![Head(queue)] = "dropped"]
    BY <1>0, <1>7, Dequeued DEF CapDrop, Move, Places, Settled
  <2>2. Live' = Live
    BY <1>0, <2>1 DEF Live, Running, Ending
  <2>. QED  BY <1>1, <1>7, <2>2 DEF CapDrop
<1>8. CASE DrainTimeout
  <2>1. Live' = Live
    BY <1>0, <1>8 DEF DrainTimeout, ToCancel, Live, Running, Ending
  <2>. QED  BY <1>1, <1>8, <2>1 DEF DrainTimeout
<1>9. CASE StopEnds
  <2>1. Live = {} /\ Live' = Live
    BY <1>0, <1>9 DEF StopEnds, Drained, Live
  <2>. QED  BY <1>1, <1>9, <2>1 DEF StopEnds
<1>10. CASE UNCHANGED vars \/ (\E h \in delivered : Expire(h)) \/ Stop
  <2>1. Live' = Live
    BY <1>0, <1>10 DEF vars, Expire, Stop, Live
  <2>. QED  BY <1>1, <1>10, <2>1 DEF vars, Expire, Stop
<1>. QED
  BY <1>2, <1>3, <1>4, <1>5, <1>6, <1>7, <1>8, <1>9, <1>10
  DEF Next, InjectStep, RouteStep, TaskStep, Serve, Shutdown

---------------------------------------------------------------------------
(* The order of the local transmissions.                                   *)

LEMMA LockStep ==
    ASSUME TypeInv, QueueInv, LockInv, [Next]_vars
    PROVE  LockInv'
<1> USE DEF TypeInv
<1>0. UNCHANGED Packets /\ NoPacket \notin Packets
  BY LoadKept, RouterAssumption DEF RouterAssumption, Packets
<1>1. ASSUME UNCHANGED <<sender, waiting, asked>>,
             \A q \in Packets : at'[q] = "sending" => at[q] = "sending"
      PROVE  LockInv'
  BY <1>0, <1>1 DEF LockInv
<1>2. ASSUME NEW p \in Packets, ReceivePacket(p) \/ EchoEnds(p) PROVE LockInv'
  <2>1. \A q \in Packets : at'[q] = "sending" => at[q] = "sending"
    BY <1>0, <1>2, Enqueued DEF ReceivePacket, EchoEnds
  <2>. QED  BY <1>1, <1>2, <2>1 DEF ReceivePacket, EchoEnds, ghosts
<1>3. ASSUME NEW p \in Packets, Inject(p) PROVE LockInv'
  <2>1. \A q \in Packets : at'[q] = "sending" => at[q] = "sending"
    BY <1>3 DEF Inject, Move
  <2> DEFINE m == Len(waiting)
             n == Len(asked)
  <2>2. /\ m \in Nat /\ n \in Nat /\ m <= n /\ Len(waiting') = m + 1 /\ Len(asked') = n + 1
        /\ \A i \in 1..m : waiting'[i] = asked[n - m + i]
        /\ waiting'[m + 1] = p /\ \A i \in 1..n : asked'[i] = asked[i]
        /\ asked'[n + 1] = p /\ DOMAIN waiting' = 1..(m + 1) /\ UNCHANGED sender
    <3>1. waiting' = Append(waiting, p) /\ asked' = Append(asked, p) /\ UNCHANGED sender
      BY <1>3 DEF Inject
    <3>. DOMAIN waiting = 1..m
      BY <1>0
    <3>2. m <= n /\ \A i \in 1..m : waiting[i] = asked[n - m + i]
      BY DEF LockInv
    <3>3. /\ m \in Nat /\ Len(waiting') = m + 1 /\ DOMAIN waiting' = 1..(m + 1)
          /\ waiting'[m + 1] = p /\ \A i \in 1..m : waiting'[i] = waiting[i]
      BY <3>1, AppendFacts
    <3>4. n \in Nat /\ Len(asked') = n + 1 /\ asked'[n + 1] = p /\ \A i \in 1..n : asked'[i] = asked[i]
      BY <3>1, AppendFacts
    <3>. QED  BY <3>1, <3>2, <3>3, <3>4
  <2> HIDE DEF m, n
  <2>3. ASSUME NEW i \in 1..(m + 1) PROVE waiting'[i] = asked'[(n + 1) - (m + 1) + i]
    <3>1. CASE i = m + 1
      BY <2>2, <3>1
    <3>2. CASE i \in 1..m
      BY <2>2, <3>2
    <3>. QED  BY <2>2, <3>1, <3>2
  <2>4. sender # NoPacket => m < n /\ sender = asked[n - m]
    BY DEF LockInv, m, n
  <2>5. sender # NoPacket => m < n /\ sender = asked'[(n + 1) - (m + 1)]
    BY <2>2, <2>4
  <2>6. /\ Len(waiting') <= Len(asked')
        /\ \A i \in DOMAIN waiting' : waiting'[i] = asked'[Len(asked') - Len(waiting') + i]
        /\ sender' # NoPacket => Len(waiting') < Len(asked') /\ sender' = asked'[Len(asked') - Len(waiting')]
    BY <2>2, <2>3, <2>5
  <2>. QED  BY <1>0, <2>1, <2>2, <2>6 DEF LockInv
<1>4. ASSUME NEW p \in Packets, BeginInject(p) PROVE LockInv'
  <2>1. \A q \in Packets : at'[q] = "sending" => q = p
    BY <1>0, <1>4 DEF BeginInject, CanInject, Move, LockInv
  <2> DEFINE m == Len(waiting)
             n == Len(asked)
  <2>2. /\ m \in Nat /\ n \in Nat /\ m <= n /\ m >= 1 /\ Len(waiting') = m - 1
        /\ DOMAIN waiting' = 1..(m - 1)
        /\ \A i \in 1..(m - 1) : waiting'[i] = waiting[i + 1]
        /\ \A i \in 1..m : waiting[i] = asked[n - m + i]
        /\ p = waiting[1] /\ sender' = p /\ UNCHANGED asked
    <3>1. /\ waiting # <<>> /\ p = Head(waiting) /\ waiting' = Tail(waiting) /\ sender' = p /\ UNCHANGED asked
      BY <1>4 DEF BeginInject, CanInject, ghosts
    <3>2. m \in Nat /\ n \in Nat /\ m <= n /\ m >= 1 /\ \A i \in 1..m : waiting[i] = asked[n - m + i]
      <4>1. m \in Nat /\ n \in Nat /\ m >= 1 /\ DOMAIN waiting = 1..m
        BY <3>1
      <4>. QED  BY <4>1 DEF LockInv
    <3>. QED  BY <3>1, <3>2
  <2> HIDE DEF m, n
  <2>3. ASSUME NEW i \in 1..(m - 1) PROVE waiting'[i] = asked[n - (m - 1) + i]
    <3>1. i + 1 \in 1..m /\ n - m + (i + 1) = n - (m - 1) + i
      BY <2>2
    <3>. QED  BY <2>2, <3>1
  <2>4. p = asked[n - (m - 1)]
    <3>1. waiting[1] = asked[n - m + 1] /\ n - m + 1 = n - (m - 1)
      BY <2>2
    <3>. QED  BY <2>2, <3>1
  <2>5. asked' = asked /\ Len(asked) = n /\ Len(waiting') = m - 1
    BY <2>2 DEF n
  <2>6. \A i \in DOMAIN waiting' : waiting'[i] = asked'[Len(asked') - Len(waiting') + i]
    BY <2>2, <2>3, <2>5
  <2>7. Len(waiting') < Len(asked') /\ sender' = asked'[Len(asked') - Len(waiting')]
    BY <2>2, <2>4, <2>5
  <2>8. /\ \A q \in Packets' : at'[q] = "sending" => sender' = q
        /\ Len(waiting') <= Len(asked')
    BY <1>0, <2>1, <2>2, <2>5
  <2>. QED  BY <2>6, <2>7, <2>8 DEF LockInv
<1>5. ASSUME NEW p \in Packets, InjectSent(p) \/ InjectFailed(p) PROVE LockInv'
  <2>1. \A q \in Packets : at'[q] = "sending" => at[q] = "sending" /\ q # p
    BY <1>5 DEF InjectSent, InjectFailed, Move
  <2>2. at[p] = "sending" /\ sender' = NoPacket /\ UNCHANGED <<waiting, asked>>
    BY <1>5 DEF InjectSent, InjectFailed, ghosts
  <2>. QED  BY <1>0, <2>1, <2>2 DEF LockInv
<1>6. ASSUME NEW p \in Packets, TaskStep(p) PROVE LockInv'
  <2>1. \A q \in Packets : at'[q] = "sending" => at[q] = "sending"
    BY <1>6, TaskMoves DEF Move, Running, Ending
  <2>. QED  BY <1>1, <1>6, <2>1, TaskMoves
<1>7. ASSUME NEW p \in Packets, OnRouteDone(p) PROVE LockInv'
  <2>1. \A q \in Packets : at'[q] = "sending" => at[q] = "sending"
    BY <1>7 DEF OnRouteDone, Move, Ending
  <2>. QED  BY <1>1, <1>7, <2>1 DEF OnRouteDone, ghosts
<1>8. CASE Serve
  <2>1. \A q \in Packets : at'[q] = "sending" => at[q] = "sending"
    BY <1>8 DEF Serve, Spawn, CapDrop, Move
  <2>. QED  BY <1>1, <1>8, <2>1 DEF Serve, Spawn, CapDrop, ghosts
<1>9. CASE Stop \/ Shutdown
  <2>1. \A q \in Packets : at'[q] = "sending" => at[q] = "sending"
    BY <1>9 DEF Stop, Shutdown, DrainTimeout, StopEnds, ToCancel
  <2>. QED  BY <1>1, <1>9, <2>1 DEF Stop, Shutdown, DrainTimeout, StopEnds, ghosts
<1>10. CASE UNCHANGED vars \/ \E h \in delivered : Expire(h)
  BY <1>1, <1>10 DEF vars, ghosts, Expire
<1>. QED
  BY <1>2, <1>3, <1>4, <1>5, <1>6, <1>7, <1>8, <1>9, <1>10 DEF Next, InjectStep, RouteStep, TaskStep

\* A number beyond those of S counts as the next.
LEMMA BeyondAll ==
    ASSUME NEW S, NEW k \in Nat, S \subseteq 1 .. (k - 1)
    PROVE  /\ IsFiniteSet(S) /\ Cardinality(S) \in Nat /\ Cardinality(S \cup {k}) = Cardinality(S) + 1
           /\ UpTo(S \cup {k}, k) = S \cup {k}
           /\ \A i \in S : /\ UpTo(S \cup {k}, i) = UpTo(S, i)
                           /\ Cardinality(UpTo(S, i)) \in 1 .. Cardinality(S)
<1>1. \A j \in S : j \in Nat /\ j < k
  OBVIOUS
<1>2. IsFiniteSet(S) /\ Cardinality(S) \in Nat
  <2>1. IsFiniteSet(1 .. (k - 1))
    BY FS_Interval
  <2>2. IsFiniteSet(S)
    BY <2>1, FS_Subset
  <2>. QED  BY <2>2, FS_CardinalityType
<1>3. Cardinality(S \cup {k}) = Cardinality(S) + 1
  <2>1. k \notin S
    BY <1>1
  <2>. QED  BY <1>2, <2>1, FS_AddElement
<1>4. UpTo(S \cup {k}, k) = S \cup {k}
  <2>1. \A j \in S \cup {k} : j <= k
    BY <1>1
  <2>. QED  BY <2>1 DEF UpTo
<1>5. ASSUME NEW i \in S PROVE UpTo(S \cup {k}, i) = UpTo(S, i)
  <2>1. ~(k <= i)
    BY <1>1
  <2>. QED  BY <2>1 DEF UpTo
<1>6. ASSUME NEW i \in S PROVE Cardinality(UpTo(S, i)) \in 1 .. Cardinality(S)
  <2>1. UpTo(S, i) \in SUBSET S /\ i \in UpTo(S, i)
    BY <1>1 DEF UpTo
  <2>2. IsFiniteSet(UpTo(S, i)) /\ Cardinality(UpTo(S, i)) <= Cardinality(S)
    BY <1>2, <2>1, FS_Subset
  <2>3. Cardinality(UpTo(S, i)) \in Nat /\ Cardinality(UpTo(S, i)) # 0
    BY <2>1, <2>2, FS_EmptySet, FS_CardinalityType
  <2>. QED  BY <1>2, <2>2, <2>3
<1>. QED  BY <1>2, <1>3, <1>4, <1>5, <1>6

\* One more call is sent, after all that were.
LEMMA OneMoreSent ==
    ASSUME NEW S, NEW k \in Nat, NEW p, S \subseteq 1 .. (k - 1), sent \in Seq(Packets), p \in Packets,
           asked[k] = p, SentAre(S), sent' = Append(sent, p), UNCHANGED asked
    PROVE  SentAre(S \cup {k})'
<1>1. /\ Len(sent) \in Nat /\ Len(sent') = Len(sent) + 1 /\ sent'[Len(sent) + 1] = p
      /\ \A i \in 1 .. Len(sent) : sent'[i] = sent[i]
  OBVIOUS
<1>2. Cardinality(S) = Len(sent) /\ \A i \in S : asked[i] = sent[Cardinality(UpTo(S, i))]
  BY DEF SentAre
<1>3. Cardinality(S \cup {k}) = Len(sent')
  BY <1>1, <1>2, BeyondAll
<1>4. ASSUME NEW i \in S PROVE asked[i] = sent'[Cardinality(UpTo(S \cup {k}, i))]
  <2>1. UpTo(S \cup {k}, i) = UpTo(S, i) /\ Cardinality(UpTo(S, i)) \in 1 .. Cardinality(S)
    BY BeyondAll, Zenon
  <2>. QED  BY <1>1, <1>2, <2>1
<1>5. asked[k] = sent'[Cardinality(UpTo(S \cup {k}, k))]
  <2>1. UpTo(S \cup {k}, k) = S \cup {k}
    BY BeyondAll
  <2>. QED  BY <1>1, <1>3, <2>1
<1>6. \A i \in S \cup {k} : asked'[i] = sent'[Cardinality(UpTo(S \cup {k}, i))]
  BY <1>4, <1>5
<1>. QED  BY <1>3, <1>6 DEF SentAre

LEMMA SentStep ==
    ASSUME TypeInv, QueueInv, LockInv, SentInv, [Next]_vars
    PROVE  SentInv'
<1> USE DEF TypeInv
<1>0. NoPacket \notin Packets
  BY RouterAssumption DEF RouterAssumption, Packets
<1>1. PICK S \in SUBSET Over : SentAre(S)
  BY DEF SentInv
<1>2. ASSUME UNCHANGED <<asked, sent>>, Over \subseteq Over' PROVE SentInv'
  BY <1>1, <1>2 DEF SentInv, SentAre
<1>3. ASSUME NEW p \in Packets, Inject(p) PROVE SentInv'
  <2>1. /\ waiting' = Append(waiting, p) /\ asked' = Append(asked, p) /\ UNCHANGED <<sender, sent>>
        /\ Len(asked') - Len(waiting') = Len(asked) - Len(waiting)
    BY <1>3 DEF Inject
  <2>2. Over' = Over /\ \A i \in Over : asked'[i] = asked[i]
    BY <2>1 DEF Over, LockInv
  <2>. QED  BY <1>1, <2>1, <2>2 DEF SentInv, SentAre
<1>4. ASSUME NEW p \in Packets, BeginInject(p) PROVE SentInv'
  <2>1. /\ sender = NoPacket /\ sender' # NoPacket /\ Len(waiting') = Len(waiting) - 1
        /\ UNCHANGED <<asked, sent>>
    BY <1>0, <1>4 DEF BeginInject, CanInject, ghosts
  <2>. QED  BY <1>2, <2>1 DEF Over
<1>5. ASSUME NEW p \in Packets, InjectSent(p) PROVE SentInv'
  <2>1. /\ sender = p /\ p # NoPacket /\ sender' = NoPacket /\ UNCHANGED <<asked, waiting>>
        /\ sent' = Append(sent, p)
    BY <1>0, <1>5 DEF InjectSent, LockInv
  <2>2. PICK k \in Nat : k >= 1 /\ asked[k] = p /\ Over = 1 .. (k - 1) /\ Over' = 1 .. k
    <3>1. Len(asked) - Len(waiting) \in Nat /\ Len(asked) - Len(waiting) >= 1
          /\ asked[Len(asked) - Len(waiting)] = p
      BY <2>1 DEF LockInv
    <3>2. /\ Over = 1 .. (Len(asked) - Len(waiting) - 1)
          /\ Over' = 1 .. (Len(asked) - Len(waiting))
      BY <2>1, <3>1 DEF Over
    <3>. QED  BY <3>1, <3>2
  <2>3. SentAre(S \cup {k})'
    BY <1>1, <2>1, <2>2, OneMoreSent
  <2>4. S \cup {k} \subseteq Over'
    BY <2>2
  <2>. QED  BY <2>3, <2>4 DEF SentInv
<1>6. ASSUME NEW p \in Packets, InjectFailed(p) PROVE SentInv'
  <2>1. sender' = NoPacket /\ UNCHANGED <<asked, waiting, sent>>
    BY <1>6 DEF InjectFailed, ghosts
  <2>. QED  BY <1>2, <2>1 DEF Over
<1>7. ASSUME UNCHANGED <<asked, waiting, sent, sender>> PROVE SentInv'
  BY <1>2, <1>7 DEF Over
<1>8. ASSUME NEW p \in Packets, TaskStep(p) PROVE SentInv'
  BY <1>7, <1>8, TaskMoves
<1>9. CASE \/ \E p \in Packets : ReceivePacket(p) \/ EchoEnds(p) \/ OnRouteDone(p)
           \/ Serve \/ Stop \/ Shutdown \/ UNCHANGED vars \/ \E h \in delivered : Expire(h)
  BY <1>7, <1>9 DEF ReceivePacket, EchoEnds, OnRouteDone, Serve, Spawn, CapDrop, Stop, Shutdown, DrainTimeout,
                    StopEnds, vars, ghosts, Expire
<1>. QED
  BY <1>3, <1>4, <1>5, <1>6, <1>8, <1>9 DEF Next, InjectStep, RouteStep, TaskStep

---------------------------------------------------------------------------
(* The engine and the owners.                                              *)

\* Nothing that decides about a packet changes with its place.
LEMMA RelayFrame ==
    ASSUME NEW p, UNCHANGED load, p \in owned' <=> p \in owned
    PROVE  IsDone(p)' <=> IsDone(p)
  BY DEF IsDone, Consumed, Injected, Kind, BridgesFor

\* A packet moves, or stays, without a call of the engine.
LEMMA MovedOn ==
    ASSUME NEW p \in Packets, RelayOk(p), UNCHANGED load, p \in owned' <=> p \in owned,
           relayed'[p] = relayed[p],
           \/ at'[p] = at[p]
           \/ at[p] \in {"new", "waiting", "sending", "echoing", "queued"} /\ at'[p] \in {"waiting", "sending", "echoing", "queued", "spawned"}
           \/ at[p] = "engine" /\ at'[p] = "ended"
           \/ at[p] = "ended" /\ at'[p] = "done"
           \/ at'[p] \in {"dropped", "unsent", "broke", "failed", "cut", "cancelled"}
    PROVE  RelayOk(p)'
<1>1. IsDone(p)' <=> IsDone(p)
  BY RelayFrame
<1>. QED  BY <1>1 DEF RelayOk, Kind

\* A task goes on to identities, to the engine or to its end.
LEMMA Proceeds ==
    ASSUME TypeInv, RelayInv, NEW p \in Packets, NEW S, Proceed(p, S),
           at[p] \in {"spawned", "helper", "offering"},
           \A q \in Packets \ {p} : q \in owned' <=> q \in owned,
           Kind[p] = "onward" => S = {} /\ p \notin owned'
    PROVE  RelayInv'
<1>1. UNCHANGED <<load, Packets>> /\ relayed[p] = 0 /\ relayed \in [Packets -> Nat] /\ at \in [Packets -> Places]
  BY DEF Proceed, Packets, RelayInv, RelayOk, TypeInv
<1>2. ASSUME NEW q \in Packets \ {p} PROVE RelayOk(q)'
  <2>1. at'[q] = at[q] /\ relayed'[q] = relayed[q]
    BY <1>1 DEF Proceed, Move
  <2>. QED  BY <1>1, <2>1, MovedOn DEF RelayInv
<1>3. RelayOk(p)'
  <2>1. CASE S # {}
    BY <1>1, <2>1 DEF Proceed, Move, RelayOk, Kind
  <2>2. CASE S = {} /\ IsDone(p)'
    BY <1>1, <2>2 DEF Proceed, Move, RelayOk, Kind
  <2>3. CASE S = {} /\ ~IsDone(p)'
    BY <1>1, <2>3 DEF Proceed, Move, RelayOk, Kind
  <2>. QED  BY <2>1, <2>2, <2>3
<1>. QED  BY <1>1, <1>2, <1>3 DEF RelayInv

LEMMA RelayStep ==
    ASSUME TypeInv, QueueInv, RelayInv, [Next]_vars
    PROVE  RelayInv'
<1>0. UNCHANGED <<load, Packets>> /\ at \in [Packets -> Places]
  BY LoadKept DEF TypeInv
<1>1. ASSUME UNCHANGED <<owned, relayed>>,
             \A p \in Packets :
                \/ at'[p] = at[p]
                \/ at[p] \in {"new", "waiting", "sending", "echoing", "queued"} /\ at'[p] \in {"waiting", "sending", "echoing", "queued", "spawned"}
                \/ at[p] = "engine" /\ at'[p] = "ended"
                \/ at[p] = "ended" /\ at'[p] = "done"
                \/ at'[p] \in {"dropped", "unsent", "broke", "failed", "cut", "cancelled"}
      PROVE  RelayInv'
  BY <1>0, <1>1, MovedOn DEF RelayInv
<1>2. ASSUME NEW p \in Packets, ReceivePacket(p) \/ EchoEnds(p) PROVE RelayInv'
  <2>1. /\ at[p] \in {"new", "echoing"} /\ at'[p] = "queued"
        /\ \A q \in Packets \ {p} : at'[q] = at[q] \/ at'[q] = "dropped"
    BY <1>0, <1>2, Enqueued DEF ReceivePacket, EchoEnds
  <2>. QED  BY <1>1, <1>2, <2>1 DEF ReceivePacket, EchoEnds, taskVars, ghosts
<1>3. ASSUME NEW p \in Packets, Inject(p) \/ InjectSent(p) \/ InjectFailed(p) PROVE RelayInv'
  <2>1. \/ at[p] = "new" /\ at' = [at EXCEPT ![p] = "waiting"]
        \/ at[p] = "sending" /\ at' = [at EXCEPT ![p] = "echoing"]
        \/ at' = [at EXCEPT ![p] = "unsent"]
    BY <1>3 DEF Inject, InjectSent, InjectFailed, Move
  <2>. QED  BY <1>0, <1>1, <1>3, <2>1 DEF Inject, InjectSent, InjectFailed, taskVars, ghosts
<1>4. ASSUME NEW p \in Packets, BeginInject(p) PROVE RelayInv'
  <2>1. at[p] = "waiting"
    BY <1>4, TailDistinct DEF BeginInject, CanInject, TypeInv, QueueInv
  <2>. QED  BY <1>0, <1>1, <1>4, <2>1 DEF BeginInject, Move, taskVars, ghosts
<1>5. ASSUME NEW p \in Packets, Start(p) PROVE RelayInv'
  <2>1. \E S : Proceed(p, S) /\ (Kind[p] = "onward" => S = {})
    BY <1>5 DEF Start
  <2>2. at[p] = "spawned" /\ UNCHANGED owned /\ (Kind[p] = "onward" => p \notin owned)
    BY <1>5 DEF Start, RelayInv, RelayOk
  <2>. QED  BY <2>1, <2>2, Proceeds
<1>6. ASSUME NEW p \in Packets, AskHelper(p) PROVE RelayInv'
  <2>1. /\ at[p] = "spawned" /\ Kind[p] # "onward" /\ at' = [at EXCEPT ![p] = "helper"]
        /\ UNCHANGED <<owned, relayed>>
    BY <1>6 DEF AskHelper, Move, taskVars, ghosts
  <2>2. RelayOk(p)'
    BY <1>0, <2>1 DEF RelayInv, RelayOk, Kind
  <2>3. ASSUME NEW q \in Packets \ {p} PROVE RelayOk(q)'
    BY <1>0, <2>1, MovedOn DEF RelayInv
  <2>. QED  BY <1>0, <2>2, <2>3 DEF RelayInv
<1>7. ASSUME NEW p \in Packets, NEW authentic \in BOOLEAN, HelperAnswers(p, authentic) PROVE RelayInv'
  <2>1. /\ at[p] = "helper" /\ \E S : Proceed(p, S)
        /\ owned' = owned \/ owned' = owned \cup {p}
    BY <1>7 DEF HelperAnswers
  <2>2. Kind[p] # "onward"
    BY <2>1 DEF RelayInv, RelayOk
  <2>. QED  BY <2>1, <2>2, Proceeds
<1>8. ASSUME NEW p \in Packets, NEW b, NEW o, Answer(p, b, o) PROVE RelayInv'
  <2>1. /\ at[p] = "offering" /\ \E S : Proceed(p, S)
        /\ owned' = owned \/ owned' = owned \cup {p}
    BY <1>8 DEF Answer
  <2>2. Kind[p] # "onward"
    BY <2>1 DEF RelayInv, RelayOk
  <2>. QED  BY <2>1, <2>2, Proceeds
<1>9. ASSUME NEW p \in Packets, HelperRaises(p) PROVE RelayInv'
  BY <1>0, <1>1, <1>9 DEF HelperRaises, Move, taskVars, ghosts
<1>10. ASSUME NEW p \in Packets, NEW how, EngineEnds(p, how) PROVE RelayInv'
  BY <1>0, <1>1, <1>10 DEF EngineEnds, Move, taskVars, ghosts
<1>11. ASSUME NEW p \in Packets, OnRouteDone(p) PROVE RelayInv'
  BY <1>0, <1>1, <1>11 DEF OnRouteDone, Move, Ending, taskVars, ghosts
<1>12. CASE Serve
  <2>1. Head(queue) \in Packets /\ at[Head(queue)] = "queued"
    BY <1>0, <1>12, Dequeued DEF Serve, Spawn, CapDrop, Places, Running, Settled
  <2>2. at' = [at EXCEPT ![Head(queue)] = "spawned"] \/ at' = [at EXCEPT ![Head(queue)] = "dropped"]
    BY <1>12 DEF Serve, Spawn, CapDrop, Move
  <2>. QED  BY <1>0, <1>1, <1>12, <2>1, <2>2 DEF Serve, Spawn, CapDrop, taskVars, ghosts
<1>13. CASE Stop \/ Shutdown
  BY <1>0, <1>1, <1>13 DEF Stop, Shutdown, DrainTimeout, StopEnds, taskVars, ghosts
<1>14. CASE UNCHANGED vars \/ \E h \in delivered : Expire(h)
  BY <1>1, <1>14 DEF vars, taskVars, ghosts, Expire
<1>. QED
  BY <1>2, <1>3, <1>4, <1>5, <1>6, <1>7, <1>8, <1>9, <1>10, <1>11, <1>12, <1>13, <1>14
  DEF Next, InjectStep, RouteStep

\* A PATH is marked as delivered when a bridge had it.
LEMMA DeliveredStep ==
    ASSUME DeliveredInv, [Next]_vars
    PROVE  DeliveredInv'
<1>0. UNCHANGED load
  BY LoadKept
<1>1. ASSUME UNCHANGED reached, delivered' \subseteq delivered PROVE DeliveredInv'
  BY <1>0, <1>1 DEF DeliveredInv, Hash
<1>2. ASSUME NEW p, NEW b, NEW o, Answer(p, b, o) PROVE DeliveredInv'
  <2>1. /\ reached \subseteq reached'
        /\ delivered' = delivered \/ (delivered' = delivered \cup {Hash[p]} /\ p \in reached')
    BY <1>2 DEF Answer, Reached
  <2>. QED  BY <1>0, <2>1 DEF DeliveredInv, Hash
<1>3. ASSUME NEW p, Start(p) \/ AskHelper(p) \/ HelperRaises(p) \/ (\E authentic : HelperAnswers(p, authentic))
      PROVE  UNCHANGED <<reached, delivered>>
  BY <1>3 DEF Start, AskHelper, HelperRaises, HelperAnswers, taskVars
<1>. QED
  BY <1>1, <1>2, <1>3 DEF Next, InjectStep, RouteStep, Serve, Shutdown, ReceivePacket, Inject, BeginInject,
     InjectSent, EchoEnds, InjectFailed, OnRouteDone, EngineEnds, Spawn, CapDrop, Stop, DrainTimeout, StopEnds, Expire,
     taskVars, vars

---------------------------------------------------------------------------
(* The theorems.                                                           *)

LEMMA InitInv ==
    ASSUME Init
    PROVE  IInv
<1> USE DEF Init
<1>1. TypeInv /\ QueueInv
  BY DEF TypeInv, QueueInv, Places, IsInjective, Range
<1>2. CountInv
  <2>1. Live = {}
    BY DEF Live, Running, Ending
  <2>. QED  BY <2>1, FS_EmptySet, RouterAssumption DEF CountInv, InFlightExact, MaxInFlight, RouterAssumption
<1>3. LockInv /\ SentInv
  <2>1. SentAre({})
    BY FS_EmptySet DEF SentAre
  <2>. QED  BY <2>1 DEF LockInv, SentInv
<1>4. RelayInv /\ DeliveredInv
  BY DEF RelayInv, RelayOk, DeliveredInv
<1>. QED  BY <1>1, <1>2, <1>3, <1>4 DEF IInv, OrderInv

\* The inductive invariant.
THEOREM RouterInvariance == Spec => []IInv
<1>1. ASSUME IInv, [Next]_vars PROVE IInv'
  BY <1>1, TypeStep, CountStep, LockStep, SentStep, RelayStep, DeliveredStep DEF IInv, OrderInv
<1>. QED  BY <1>1, InitInv, PTL DEF Spec

\* The counter the cap is checked against is the number of tasks alive, however
\* each ends (_process_queue, _on_route_done, stop).
THEOREM CountExact == Spec => []InFlightExact
<1>1. IInv => InFlightExact
  BY DEF IInv, CountInv
<1>. QED  BY <1>1, RouterInvariance, PTL

\* Local transmissions go out one at a time, in the order of the calls of
\* inject_packet.
THEOREM InjectedInOrder == Spec => []InjectInOrder
<1>1. IInv => InjectInOrder
  <2> SUFFICES ASSUME IInv PROVE InjectInOrder
    OBVIOUS
  <2>1. PICK S \in SUBSET Over : SentAre(S)
    BY DEF IInv, OrderInv, SentInv
  <2>2. S \subseteq DOMAIN asked
    BY DEF IInv, TypeInv, OrderInv, LockInv, Over
  <2>. QED  BY <2>1, <2>2 DEF IInv, OrderInv, LockInv, SentAre, UpTo, InjectInOrder
<1>. QED  BY <1>1, RouterInvariance, PTL

\* Whether a packet is forwarded is for the identities that own it to say, and a
\* PATH is withheld only once it was delivered (_route_packet,
\* _consume_via_local_candidates).
THEOREM OwnersAlwaysDecide == Spec => []OwnersDecide
<1>1. IInv => OwnersDecide
  <2> SUFFICES ASSUME IInv PROVE OwnersDecide
    OBVIOUS
  <2>1. ASSUME NEW p \in Packets
        PROVE  /\ at[p] = "done" => relayed[p] = (IF p \in Injected \/ Consumed(p) THEN 0 ELSE 1)
               /\ p \in owned \/ p \in Injected => relayed[p] = 0 \/ Kind[p] = "share"
    <3>1. RelayOk(p)
      BY DEF IInv, RelayInv
    <3>2. Kind[p] \in {"share", "owned", "request", "path", "answer", "taken", "onward"}
      BY RouterAssumption DEF RouterAssumption, IInv, TypeInv, Kind, Packets
    <3>. QED  BY <3>1, <3>2 DEF RelayOk, IsDone, Consumed
  <2>. QED  BY <2>1 DEF IInv, DeliveredInv, OwnersDecide
<1>. QED  BY <1>1, RouterInvariance, PTL
=============================================================================
