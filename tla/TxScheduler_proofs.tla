------------------------ MODULE TxScheduler_proofs ------------------------
(***************************************************************************)
(* Proofs about TxScheduler, for every set of tasks, window and budget:    *)
(* the types, the half-duplex radio, the attempt bound, the duty cycle,    *)
(* the counters, and that the scheduler implements DutyRadio.              *)
(***************************************************************************)
EXTENDS TxScheduler, FiniteSetTheorems, NaturalsInduction, TLAPS

---------------------------------------------------------------------------
(* Airtime of a set of entries *)

\* The units of one entry number its airtime.
LEMMA UnitsOfOne ==
    ASSUME TimeAssumption, NEW k \in Tasks
    PROVE  /\ Units({k}) = {k} \X (1..Air[k])
           /\ IsFiniteSet(Units({k}))
           /\ Cardinality(Units({k})) = Air[k]
<1>1. Air[k] \in Nat
  BY DEF TimeAssumption
<1>2. Units({k}) = {k} \X (1..Air[k])
  BY DEF Units
<1>3. IsFiniteSet({k}) /\ Cardinality({k}) = 1
  BY FS_Singleton
<1>4. IsFiniteSet(1..Air[k]) /\ Cardinality(1..Air[k]) = Air[k]
  <2>1. /\ IsFiniteSet(1..Air[k])
        /\ Cardinality(1..Air[k]) = IF 1 > Air[k] THEN 0 ELSE Air[k] - 1 + 1
    BY <1>1, FS_Interval
  <2>2. QED
    BY <1>1, <2>1
<1>5. IsFiniteSet({k} \X (1..Air[k])) /\ Cardinality({k} \X (1..Air[k])) = 1 * Air[k]
  <2>1. /\ IsFiniteSet({k} \X (1..Air[k]))
        /\ Cardinality({k} \X (1..Air[k])) = Cardinality({k}) * Cardinality(1..Air[k])
    BY <1>3, <1>4, FS_Product
  <2>2. QED
    BY <1>3, <1>4, <2>1
<1>6. Cardinality({k} \X (1..Air[k])) = Air[k]
  BY <1>1, <1>5
<1>7. QED
  BY <1>2, <1>5, <1>6, Zenon

\* Fewer entries never weigh more.
LEMMA AirtimeMonotone ==
    ASSUME NEW S, NEW T, T \subseteq S, IsFiniteSet(Units(S))
    PROVE  /\ IsFiniteSet(Units(T))
           /\ Airtime(T) \in Nat /\ Airtime(S) \in Nat
           /\ Airtime(T) <= Airtime(S)
<1>1. Units(T) \in SUBSET Units(S)
  BY DEF Units
<1>2. IsFiniteSet(Units(T)) /\ Cardinality(Units(T)) <= Cardinality(Units(S))
  BY <1>1, FS_Subset
<1>3. Cardinality(Units(T)) \in Nat /\ Cardinality(Units(S)) \in Nat
  BY <1>2, FS_CardinalityType
<1>4. QED
  BY <1>2, <1>3 DEF Airtime

\* A new entry adds at most its own airtime.
LEMMA AirtimeAdd ==
    ASSUME TimeAssumption, NEW S, IsFiniteSet(Units(S)), NEW k \in Tasks
    PROVE  /\ IsFiniteSet(Units(S \cup {k}))
           /\ Airtime(S \cup {k}) \in Nat
           /\ Airtime(S \cup {k}) <= Airtime(S) + Air[k]
<1>1. Units(S \cup {k}) = Units(S) \cup Units({k})
  BY DEF Units
<1>2. IsFiniteSet(Units({k})) /\ Cardinality(Units({k})) = Air[k]
  BY UnitsOfOne
<1>3. /\ IsFiniteSet(Units(S \cup {k}))
      /\ Cardinality(Units(S \cup {k})) =
           Cardinality(Units(S)) + Cardinality(Units({k}))
             - Cardinality(Units(S) \cap Units({k}))
  <2>1. /\ IsFiniteSet(Units(S) \cup Units({k}))
        /\ Cardinality(Units(S) \cup Units({k})) =
             Cardinality(Units(S)) + Cardinality(Units({k}))
               - Cardinality(Units(S) \cap Units({k}))
    BY <1>2, FS_Union
  <2>. QED  BY <1>1, <2>1, Zenon
<1>4. IsFiniteSet(Units(S) \cap Units({k}))
  BY <1>2, FS_Intersection
<1>5. /\ Cardinality(Units(S)) \in Nat
      /\ Cardinality(Units(S) \cap Units({k})) \in Nat
      /\ Cardinality(Units(S \cup {k})) \in Nat
  BY <1>3, <1>4, FS_CardinalityType
<1>6. Air[k] \in Nat
  BY DEF TimeAssumption
<1>7. QED
  BY <1>2, <1>3, <1>5, <1>6 DEF Airtime

\* Entries without airtime do not count.
LEMMA AirtimeIgnoresZero ==
    ASSUME TimeAssumption, NEW S \in SUBSET Tasks, NEW T \in SUBSET S,
           \A k \in S : Air[k] > 0 => k \in T
    PROVE  Airtime(T) = Airtime(S)
<1>1. Units(T) = Units(S)
  <2>1. ASSUME NEW k \in S, k \notin T
        PROVE  {k} \X (1..Air[k]) = {}
    <3>1. Air[k] = 0
      BY <2>1 DEF TimeAssumption
    <3>2. QED
      BY <3>1
  <2>2. QED
    BY <2>1 DEF Units
<1>2. QED
  BY <1>1 DEF Airtime

---------------------------------------------------------------------------
(* Types *)

\* The copies of a packet that went out can be counted.
LEMMA CopiesCountable ==
    ASSUME TaskAssumption, NEW c \in Calls
    PROVE  Cardinality(CopiesSent(c)) \in Nat
<1>1. CopiesSent(c) \in SUBSET {k \in Tasks : Wraps[k] = c}
  BY DEF CopiesSent, Copies
<1>2. IsFiniteSet({k \in Tasks : Wraps[k] = c})
  BY DEF TaskAssumption, Calls
<1>3. QED
  BY <1>1, <1>2, FS_Subset, FS_CardinalityType

\* Entering the retry loop keeps the types.
LEMMA ApproachTypes ==
    ASSUME TimeAssumption, TypeOK, NEW k \in Tasks, Approach(k)
    PROVE  /\ phase' \in [Tasks -> Phases]
           /\ timer' \in [Tasks -> Nat]
           /\ waiters' \in Seq(Tasks)
<1>1. CASE k \in Local /\ ~link
  <2>1. /\ phase' = [phase EXCEPT ![k] = IF LinkWait = 0 THEN "failed" ELSE "link"]
        /\ timer' = [timer EXCEPT ![k] = LinkWait]
        /\ waiters' = waiters
    BY <1>1 DEF Approach
  <2>2. (IF LinkWait = 0 THEN "failed" ELSE "link") \in Phases
    BY DEF Phases, Settled
  <2>3. QED
    BY <2>1, <2>2 DEF TypeOK, TimeAssumption
<1>2. CASE ~(k \in Local /\ ~link)
  <2>1. /\ phase' = [phase EXCEPT ![k] = "lock"]
        /\ waiters' = Append(waiters, k)
        /\ timer' = timer
    BY <1>2 DEF Approach
  <2>2. QED
    BY <2>1 DEF TypeOK, Phases
<1>3. QED
  BY <1>1, <1>2

\* Every state of the scheduler is well typed.
THEOREM TypeCorrect == Spec => []TypeOK
<1> USE TaskAssumption, TimeAssumption
<1>1. Init => TypeOK
  BY DEF Init, TypeOK, TimeAssumption, Phases, Calls
<1>2. TypeOK /\ [Next]_vars => TypeOK'
  <2> SUFFICES ASSUME TypeOK, [Next]_vars
               PROVE  TypeOK'
    OBVIOUS
  <2> USE DEF TypeOK
  <2>1. ASSUME NEW c \in Calls, NEW d \in Delays, ScheduleNow(c, d)
        PROVE  TypeOK'
    <3>1. d \in Nat /\ history' \subseteq Tasks
      BY <2>1 DEF ScheduleNow, Prune, Recent, TimeAssumption
    <3>2. phase' \in [Tasks -> Phases] /\ timer' \in [Tasks -> Nat]
      BY <2>1, <3>1 DEF ScheduleNow, StartDelay, Phases
    <3>3. caller' \in [Calls -> {"idle", "primary", "copies", "done", "raised"}]
      BY <2>1 DEF ScheduleNow
    <3>4. QED
      BY <2>1, <3>1, <3>2, <3>3 DEF ScheduleNow, lockVars, ghosts
  <2>2. ASSUME NEW c \in Calls, NEW d \in Delays, ScheduleDeferred(c, d)
        PROVE  TypeOK'
    <3>1. \A w \in WaitTimes : d + w \in Nat
      <4>1. d \in Nat
        BY DEF TimeAssumption
      <4>2. \A k \in Oldest : Window - age[k] \in Nat
        BY DEF Oldest, Recent, TimeAssumption
      <4>3. \A w \in WaitTimes : w \in Nat
        BY <4>2 DEF WaitTimes
      <4>4. QED
        BY <4>1, <4>3
    <3>2. PICK w \in WaitTimes : StartDelay({c}, d + w)
      BY <2>2 DEF ScheduleDeferred
    <3>3. phase' \in [Tasks -> Phases] /\ timer' \in [Tasks -> Nat]
      BY <3>1, <3>2 DEF StartDelay, Phases
    <3>4. QED
      BY <2>2, <3>3 DEF ScheduleDeferred, Prune, Recent, lockVars, ghosts, Calls
  <2>3. ASSUME NEW c \in Calls, NEW d \in Delays, RefuseRelay(c, d)
        PROVE  TypeOK'
    <3>1. d \in Nat /\ history' \subseteq Tasks
      BY <2>3 DEF RefuseRelay, Prune, Recent, TimeAssumption
    <3>2. phase' \in [Tasks -> Phases] /\ timer' \in [Tasks -> Nat]
      BY <2>3, <3>1 DEF RefuseRelay, StartDelay, Phases
    <3>3. caller' \in [Calls -> {"idle", "primary", "copies", "done", "raised"}]
      BY <2>3 DEF RefuseRelay
    <3>4. QED
      BY <2>3, <3>1, <3>2, <3>3 DEF RefuseRelay, lockVars, ghosts
  <2>4. ASSUME NEW c \in Calls, CollectPrimary(c)
        PROVE  TypeOK'
    <3>1. caller' \in [Calls -> {"idle", "primary", "copies", "done", "raised"}]
      BY <2>4 DEF CollectPrimary
    <3>2. forwarded' \in Nat /\ dropped' \in Nat
      BY <2>4 DEF CollectPrimary
    <3>. QED
      BY <2>4, <3>1, <3>2 DEF CollectPrimary, taskVars, lockVars, airVars, ghosts
  <2>5. ASSUME NEW c \in Calls, CollectCopies(c)
        PROVE  TypeOK'
    <3>1. caller' \in [Calls -> {"idle", "primary", "copies", "done", "raised"}]
      BY <2>5 DEF CollectCopies
    <3>2. forwarded' \in Nat
      BY <2>5, CopiesCountable DEF CollectCopies
    <3>. QED
      BY <2>5, <3>1, <3>2 DEF CollectCopies, taskVars, lockVars, airVars, ghosts
  <2>6. ASSUME NEW k \in Tasks, Wake(k)
        PROVE  TypeOK'
    BY <2>6, ApproachTypes DEF Wake, airVars, callVars, ghosts
  <2>7. ASSUME NEW k \in Tasks, LinkFound(k)
        PROVE  TypeOK'
    BY <2>7 DEF LinkFound, airVars, callVars, ghosts, Phases
  <2>8. ASSUME NEW k \in Tasks, LinkGiveUp(k)
        PROVE  TypeOK'
    BY <2>8 DEF LinkGiveUp, lockVars, airVars, callVars, ghosts, Phases, Settled
  <2>9. ASSUME NEW k \in Tasks, AcquireAndSend(k)
        PROVE  TypeOK'
    <3>1. waiters' \in Seq(Tasks) /\ history' \subseteq Tasks
      <4>1. waiters # <<>> /\ waiters' = Tail(waiters)
        BY <2>9 DEF AcquireAndSend, CanLock
      <4>2. waiters' \in Seq(Tasks)
        BY <4>1
      <4>3. history' \subseteq Tasks
        BY <2>9 DEF AcquireAndSend, Prune, Recent
      <4>4. QED
        BY <4>2, <4>3
    <3>2. phase' \in [Tasks -> Phases] /\ sends' \in [Tasks -> Nat] /\ owner' \in Tasks
      BY <2>9 DEF AcquireAndSend, Phases
    <3>3. QED
      BY <2>9, <3>1, <3>2 DEF AcquireAndSend, callVars
  <2>10. ASSUME NEW k \in Tasks, AcquireAndDrop(k)
         PROVE  TypeOK'
    <3>1. waiters' \in Seq(Tasks) /\ history' \subseteq Tasks
      BY <2>10 DEF AcquireAndDrop, CanLock, Prune, Recent
    <3>2. phase' \in [Tasks -> Phases]
      BY <2>10 DEF AcquireAndDrop, Phases, Settled
    <3>3. QED
      BY <2>10, <3>1, <3>2 DEF AcquireAndDrop, callVars, ghosts
  <2>11. ASSUME NEW k \in Tasks, SendOk(k)
         PROVE  TypeOK'
    BY <2>11 DEF SendOk, callVars, Phases, Settled, TimeAssumption
  <2>12. ASSUME NEW k \in Tasks, Retry(k)
         PROVE  TypeOK'
    <3>1. /\ phase' \in [Tasks -> Phases] /\ timer' \in [Tasks -> Nat]
          /\ waiters' \in Seq(Tasks)
      <4>1. CASE link
        <5>1. /\ phase' = [phase EXCEPT ![k] = "backoff"]
              /\ timer' = [timer EXCEPT ![k] = Backoff] /\ waiters' = waiters
          BY <2>12, <4>1 DEF Retry
        <5>2. QED
          BY <5>1 DEF Phases, TimeAssumption
      <4>2. CASE ~link
        BY <2>12, <4>2, ApproachTypes DEF Retry
      <4>3. QED
        BY <4>1, <4>2
    <3>2. attempt' \in [Tasks -> 0..1] /\ owner' = NoTask
      BY <2>12 DEF Retry
    <3>3. QED
      BY <2>12, <3>1, <3>2 DEF Retry, airVars, callVars, ghosts
  <2>13. ASSUME NEW k \in Tasks, SendFail(k, "failed") \/ SendFail(k, "raised")
         PROVE  TypeOK'
    BY <2>13 DEF SendFail, airVars, callVars, ghosts, Phases, Settled
  <2>14. CASE Tick
    BY <2>14 DEF Tick, lockVars, callVars, ghosts, TimeAssumption
  <2>15. CASE LinkChange
    BY <2>15 DEF LinkChange, taskVars, lockVars, airVars, callVars, ghosts
  <2>16. CASE UNCHANGED vars
    BY <2>16 DEF vars, taskVars, lockVars, airVars, callVars, ghosts
  <2>17. QED
    BY <2>1, <2>2, <2>3, <2>4, <2>5, <2>6, <2>7, <2>8, <2>9, <2>10, <2>11, <2>12,
       <2>13, <2>14, <2>15, <2>16 DEF Next, Handle, DelayedSend, Radio
<1>3. QED
  BY <1>1, <1>2, PTL DEF Spec

---------------------------------------------------------------------------
(* The lock and its queue *)

\* A task that joins the queue was not in it.
LEMMA AppendKeepsQueue ==
    ASSUME TypeOK, QueueInv, NEW k \in Tasks, phase[k] \notin {"idle", "lock"},
           phase' = [phase EXCEPT ![k] = "lock"], waiters' = Append(waiters, k),
           caller' = caller
    PROVE  QueueInv'
<1>1. /\ Len(waiters) \in Nat /\ Len(waiters') = Len(waiters) + 1
      /\ waiters'[Len(waiters) + 1] = k
      /\ \A i \in 1..Len(waiters) : waiters'[i] = waiters[i] /\ waiters[i] \in Tasks
  BY DEF TypeOK
<1>2. \A i \in 1..Len(waiters) : waiters[i] # k
  BY <1>1 DEF QueueInv
<1>3. \A j \in Tasks : phase'[j] = IF j = k THEN "lock" ELSE phase[j]
  BY DEF TypeOK
<1>4. \A j \in Tasks : caller'[Wraps[j]] = "idle" => phase'[j] = "idle"
  BY <1>3 DEF QueueInv
<1>5. \A i \in 1..Len(waiters') : phase'[waiters'[i]] = "lock"
  BY <1>1, <1>3 DEF QueueInv
<1>6. \A i, j \in 1..Len(waiters') : waiters'[i] = waiters'[j] => i = j
  <2>1. \A i \in 1..Len(waiters') : i \in 1..Len(waiters) \/ i = Len(waiters) + 1
    BY <1>1
  <2>2. \A i, j \in 1..Len(waiters) : waiters'[i] = waiters'[j] => i = j
    BY <1>1 DEF QueueInv
  <2>3. QED
    BY <1>1, <1>2, <2>1, <2>2
<1>7. QED
  BY <1>4, <1>5, <1>6 DEF QueueInv

\* A task that moves on without queueing was not in the queue.
LEMMA MoveKeepsQueue ==
    ASSUME TypeOK, QueueInv, NEW k \in Tasks, phase[k] \notin {"idle", "lock"},
           NEW p \in Phases, phase' = [phase EXCEPT ![k] = p], waiters' = waiters,
           caller' = caller
    PROVE  QueueInv'
<1>1. \A j \in Tasks : phase'[j] = IF j = k THEN p ELSE phase[j]
  BY DEF TypeOK
<1>2. \A i \in 1..Len(waiters) : waiters[i] \in Tasks /\ waiters[i] # k
  <2>1. \A i \in 1..Len(waiters) : waiters[i] \in Tasks
    BY DEF TypeOK
  <2>2. \A i \in 1..Len(waiters) : phase[waiters[i]] = "lock"
    BY DEF QueueInv
  <2>3. QED
    BY <2>1, <2>2
<1>3. \A j \in Tasks : caller'[Wraps[j]] = "idle" => phase'[j] = "idle"
  BY <1>1 DEF QueueInv
<1>4. \A i \in 1..Len(waiters') : phase'[waiters'[i]] = "lock"
  BY <1>1, <1>2 DEF QueueInv
<1>5. QED
  BY <1>3, <1>4 DEF QueueInv

\* Entering the retry loop leaves the radio alone and queues a task once.
LEMMA ApproachKeepsQueue ==
    ASSUME TypeOK, HalfDuplex, QueueInv, NEW k \in Tasks, Approach(k),
           phase[k] \in {"delay", "backoff", "send"}, caller' = caller,
           owner' = (IF owner = k THEN NoTask ELSE owner)
    PROVE  HalfDuplex' /\ QueueInv'
<1>0. NoTask \notin Tasks /\ Wraps \in [Tasks -> Tasks]
  BY TaskAssumption DEF TaskAssumption
<1>1. CASE k \in Local /\ ~link
  <2>1. PICK p \in {"failed", "link"} :
           phase' = [phase EXCEPT ![k] = p] /\ waiters' = waiters
    BY <1>1 DEF Approach
  <2>2. HalfDuplex'
    BY <1>0, <2>1 DEF TypeOK, HalfDuplex
  <2>3. QueueInv'
    BY <2>1, MoveKeepsQueue DEF Phases, Settled
  <2>4. QED
    BY <2>2, <2>3
<1>2. CASE ~(k \in Local /\ ~link)
  <2>1. /\ phase' = [phase EXCEPT ![k] = "lock"]
        /\ waiters' = Append(waiters, k)
    BY <1>2 DEF Approach
  <2>2. HalfDuplex'
    BY <1>0, <2>1 DEF TypeOK, HalfDuplex
  <2>3. QueueInv'
    BY <2>1, AppendKeepsQueue
  <2>4. QED
    BY <2>2, <2>3
<1>3. QED
  BY <1>1, <1>2

\* The head of the queue leaves it; the others stay, each once.
LEMMA PopKeepsQueue ==
    ASSUME TypeOK, QueueInv, NEW k \in Tasks, waiters # <<>>, k = Head(waiters),
           NEW p \in {"send", "gated"}, phase' = [phase EXCEPT ![k] = p],
           waiters' = Tail(waiters), caller' = caller
    PROVE  QueueInv' /\ phase[k] = "lock"
<1>0. Wraps \in [Tasks -> Tasks]
  BY TaskAssumption DEF TaskAssumption
<1>1. /\ Len(waiters) \in Nat /\ Len(waiters) > 0 /\ waiters[1] = k
      /\ Len(waiters') = Len(waiters) - 1
      /\ \A i \in 1..Len(waiters') : /\ waiters'[i] = waiters[i + 1]
                                     /\ i + 1 \in 1..Len(waiters)
                                     /\ waiters[i + 1] \in Tasks
  BY DEF TypeOK
<1>2. phase[k] = "lock"
  BY <1>1 DEF QueueInv
<1>3. \A i \in 1..Len(waiters') : waiters'[i] # k /\ phase'[waiters'[i]] = "lock"
  <2> TAKE i \in 1..Len(waiters')
  <2>1. waiters'[i] = waiters[i + 1] /\ i + 1 \in 1..Len(waiters) /\ 1 \in 1..Len(waiters)
    BY <1>1
  <2>2. waiters[i + 1] # waiters[1]
    BY <1>1, <2>1 DEF QueueInv
  <2>3. phase[waiters[i + 1]] = "lock"
    BY <2>1 DEF QueueInv
  <2>4. phase'[waiters[i + 1]] = phase[waiters[i + 1]]
    BY <1>1, <2>2
  <2>5. QED
    BY <1>1, <2>1, <2>2, <2>3, <2>4
<1>4. \A i, j \in 1..Len(waiters') : waiters'[i] = waiters'[j] => i = j
  BY <1>1 DEF QueueInv
<1>5. \A j \in Tasks : caller'[Wraps[j]] = "idle" => phase'[j] = "idle"
  BY <1>0, <1>2 DEF QueueInv, TypeOK
<1>6. QED
  BY <1>2, <1>3, <1>4, <1>5 DEF QueueInv

\* HalfDuplex and QueueInv are inductive, relative to the types.
LEMMA QueueStep ==
    ASSUME TypeOK, HalfDuplex, QueueInv, [Next]_vars
    PROVE  HalfDuplex' /\ QueueInv'
<1>0. NoTask \notin Tasks /\ Wraps \in [Tasks -> Tasks]
      /\ \A k \in Tasks : Wraps[k] \in Calls
  BY TaskAssumption DEF TaskAssumption, Calls
<1> USE <1>0
<1>1. ASSUME NEW c \in Calls, NEW S \in SUBSET Tasks, NEW d,
             \A k \in S : Wraps[k] = c,
             caller[c] = "idle", StartDelay(S, d),
             caller' = [caller EXCEPT ![c] = "primary"]
               \/ caller' = [caller EXCEPT ![c] = "copies"],
             UNCHANGED lockVars
      PROVE  HalfDuplex' /\ QueueInv'
  <2>1. \A k \in S : phase[k] = "idle"
    BY <1>1 DEF QueueInv
  <2>2. HalfDuplex'
    BY <1>1, <2>1 DEF HalfDuplex, StartDelay, lockVars, TypeOK
  <2>3. QueueInv'
    <3>1. \A k \in Tasks : phase'[k] = IF k \in S THEN "delay" ELSE phase[k]
      BY <1>1 DEF StartDelay
    <3>2. waiters' = waiters /\ \A i \in 1..Len(waiters) : waiters[i] \in Tasks \ S
      <4>1. \A i \in 1..Len(waiters) : waiters[i] \in Tasks
        BY DEF TypeOK
      <4>2. \A i \in 1..Len(waiters) : phase[waiters[i]] = "lock"
        BY DEF QueueInv
      <4>3. QED
        BY <1>1, <2>1, <4>1, <4>2 DEF lockVars
    <3>3. \A k \in Tasks : caller'[Wraps[k]] = "idle" => k \notin S /\ caller[Wraps[k]] = "idle"
      BY <1>1 DEF TypeOK
    <3>4. \A k \in Tasks : caller'[Wraps[k]] = "idle" => phase'[k] = "idle"
      BY <3>1, <3>3 DEF QueueInv
    <3>5. \A i \in 1..Len(waiters') : phase'[waiters'[i]] = "lock"
      BY <3>1, <3>2 DEF QueueInv
    <3>6. QED
      BY <3>2, <3>4, <3>5 DEF QueueInv
  <2>4. QED
    BY <2>2, <2>3
<1>2. ASSUME NEW c \in Calls, NEW d \in Delays,
             ScheduleNow(c, d) \/ ScheduleDeferred(c, d) \/ RefuseRelay(c, d)
      PROVE  HalfDuplex' /\ QueueInv'
  <2>1. /\ Copies(c) \cup {c} \in SUBSET Tasks /\ \A k \in Copies(c) \cup {c} : Wraps[k] = c
        /\ {c} \in SUBSET Tasks /\ Copies(c) \in SUBSET Tasks
    BY DEF Copies, Calls
  <2>2. CASE ScheduleNow(c, d)
    BY <2>1, <2>2, <1>1 DEF ScheduleNow
  <2>3. CASE ScheduleDeferred(c, d)
    BY <2>1, <2>3, <1>1 DEF ScheduleDeferred
  <2>4. CASE RefuseRelay(c, d)
    BY <2>1, <2>4, <1>1 DEF RefuseRelay
  <2>5. QED
    BY <1>2, <2>2, <2>3, <2>4
<1>3. ASSUME NEW c \in Calls, CollectPrimary(c) \/ CollectCopies(c)
      PROVE  HalfDuplex' /\ QueueInv'
  <2>1. /\ UNCHANGED <<phase, owner, waiters>>
        /\ \A b \in Calls : caller'[b] = "idle" => caller[b] = "idle"
    BY <1>3 DEF CollectPrimary, CollectCopies, taskVars, lockVars, TypeOK
  <2>2. QED
    BY <2>1 DEF HalfDuplex, QueueInv
<1>4. ASSUME NEW k \in Tasks, Wake(k)
      PROVE  HalfDuplex' /\ QueueInv'
  <2>1. owner # k
    BY <1>4 DEF Wake, HalfDuplex
  <2>2. QED
    BY <1>4, <2>1, ApproachKeepsQueue DEF Wake, callVars
<1>5. ASSUME NEW k \in Tasks, LinkFound(k)
      PROVE  HalfDuplex' /\ QueueInv'
  <2>1. HalfDuplex'
    BY <1>5 DEF LinkFound, HalfDuplex, TypeOK
  <2>2. QueueInv'
    BY <1>5, AppendKeepsQueue DEF LinkFound, callVars
  <2>3. QED
    BY <2>1, <2>2
<1>6. ASSUME NEW k \in Tasks, LinkGiveUp(k)
      PROVE  HalfDuplex' /\ QueueInv'
  <2>1. HalfDuplex'
    BY <1>6 DEF LinkGiveUp, HalfDuplex, TypeOK, lockVars
  <2>2. QueueInv'
    BY <1>6, MoveKeepsQueue DEF LinkGiveUp, Phases, Settled, lockVars, callVars
  <2>3. QED
    BY <2>1, <2>2
<1>7. ASSUME NEW k \in Tasks, AcquireAndSend(k)
      PROVE  HalfDuplex' /\ QueueInv'
  <2>1. QueueInv'
    BY <1>7, PopKeepsQueue DEF AcquireAndSend, CanLock, callVars
  <2>2. HalfDuplex'
    BY <1>7 DEF AcquireAndSend, CanLock, HalfDuplex, TypeOK
  <2>3. QED
    BY <2>1, <2>2
<1>8. ASSUME NEW k \in Tasks, AcquireAndDrop(k)
      PROVE  HalfDuplex' /\ QueueInv'
  <2>1. QueueInv'
    BY <1>8, PopKeepsQueue DEF AcquireAndDrop, CanLock, callVars
  <2>2. HalfDuplex'
    BY <1>8 DEF AcquireAndDrop, CanLock, HalfDuplex, TypeOK
  <2>3. QED
    BY <2>1, <2>2
<1>9. ASSUME NEW k \in Tasks, NEW p \in {"sent", "failed", "raised", "backoff"},
             phase[k] = "send", phase' = [phase EXCEPT ![k] = p], owner' = NoTask,
             waiters' = waiters, caller' = caller
      PROVE  HalfDuplex' /\ QueueInv'
  <2>1. HalfDuplex'
    BY <1>9 DEF HalfDuplex, TypeOK
  <2>2. QueueInv'
    BY <1>9, MoveKeepsQueue DEF Phases, Settled
  <2>3. QED
    BY <2>1, <2>2
<1>10. ASSUME NEW k \in Tasks, SendOk(k)
       PROVE  HalfDuplex' /\ QueueInv'
  BY <1>9, <1>10 DEF SendOk, callVars
<1>11. ASSUME NEW k \in Tasks, Retry(k)
       PROVE  HalfDuplex' /\ QueueInv'
  <2>1. CASE link
    BY <1>9, <1>11, <2>1 DEF Retry, callVars
  <2>2. CASE ~link
    <3>1. owner = k
      BY <1>11 DEF Retry, HalfDuplex
    <3>2. QED
      BY <1>11, <2>2, <3>1, ApproachKeepsQueue DEF Retry, callVars
  <2>3. QED
    BY <2>1, <2>2
<1>12. ASSUME NEW k \in Tasks, SendFail(k, "failed") \/ SendFail(k, "raised")
       PROVE  HalfDuplex' /\ QueueInv'
  BY <1>9, <1>12 DEF SendFail, callVars
<1>13. CASE Tick \/ LinkChange \/ UNCHANGED vars
  <2>1. UNCHANGED <<phase, owner, waiters, caller>>
    BY <1>13 DEF Tick, LinkChange, vars, taskVars, lockVars, callVars
  <2>2. QED
    BY <2>1 DEF HalfDuplex, QueueInv
<1>14. QED
  BY <1>2, <1>3, <1>4, <1>5, <1>6, <1>7, <1>8, <1>10, <1>11, <1>12, <1>13
     DEF Next, Handle, DelayedSend, Radio

---------------------------------------------------------------------------
(* Attempts *)

\* AttemptInv is inductive, relative to the types and the lock.
LEMMA AttemptStep ==
    ASSUME TypeOK, HalfDuplex, QueueInv, AttemptInv, [Next]_vars
    PROVE  AttemptInv'
<1>0. /\ Local \subseteq Tasks /\ Wraps \in [Tasks -> Tasks]
      /\ \A c \in Calls : c \in Tasks /\ Wraps[c] = c
      /\ \A c \in Calls : \A k \in Copies(c) : k \in Tasks /\ Wraps[k] = c
  BY TaskAssumption DEF TaskAssumption, Calls, Copies
<1> USE <1>0
<1>1. ASSUME NEW c \in Calls, NEW S, NEW d,
             S \subseteq Copies(c) \cup {c}, caller[c] = "idle", StartDelay(S, d),
             UNCHANGED <<attempt, sends, radiated>>
      PROVE  AttemptInv'
  <2>1. \A k \in S : k \in Tasks /\ phase[k] = "idle"
    BY <1>1 DEF QueueInv
  <2>2. \A k \in Tasks : phase'[k] = IF k \in S THEN "delay" ELSE phase[k]
    BY <1>1 DEF StartDelay
  <2>3. QED
    BY <1>1, <2>1, <2>2 DEF AttemptInv
<1>2. ASSUME NEW c \in Calls, NEW d \in Delays,
             ScheduleNow(c, d) \/ ScheduleDeferred(c, d) \/ RefuseRelay(c, d)
      PROVE  AttemptInv'
  <2>1. CASE ScheduleNow(c, d)
    BY <2>1, <1>1 DEF ScheduleNow, ghosts
  <2>2. CASE ScheduleDeferred(c, d)
    BY <2>2, <1>1 DEF ScheduleDeferred, ghosts
  <2>3. CASE RefuseRelay(c, d)
    BY <2>3, <1>1 DEF RefuseRelay, ghosts
  <2>4. QED
    BY <1>2, <2>1, <2>2, <2>3
<1>3. ASSUME NEW k \in Tasks, NEW p \in {"failed", "link", "lock", "gated"},
             phase' = [phase EXCEPT ![k] = p],
             phase[k] \in {"delay", "backoff", "link", "lock"},
             UNCHANGED <<attempt, sends, radiated>>
      PROVE  AttemptInv'
  BY <1>3 DEF AttemptInv, TypeOK
<1>4. ASSUME NEW k \in Tasks, Wake(k)
      PROVE  AttemptInv'
  <2>1. PICK p \in {"failed", "link", "lock"} : phase' = [phase EXCEPT ![k] = p]
    BY <1>4 DEF Wake, Approach
  <2>2. QED
    BY <1>3, <1>4, <2>1 DEF Wake, ghosts
<1>5. ASSUME NEW k \in Tasks, LinkFound(k) \/ LinkGiveUp(k)
      PROVE  AttemptInv'
  BY <1>3, <1>5 DEF LinkFound, LinkGiveUp, ghosts
<1>6. ASSUME NEW k \in Tasks, AcquireAndSend(k)
      PROVE  AttemptInv'
  <2>1. phase[k] = "lock"
    BY <1>6, PopKeepsQueue DEF AcquireAndSend, CanLock, callVars
  <2>2. QED
    BY <1>6, <2>1 DEF AcquireAndSend, AttemptInv, TypeOK
<1>7. ASSUME NEW k \in Tasks, AcquireAndDrop(k)
      PROVE  AttemptInv'
  <2>1. phase[k] = "lock"
    BY <1>7, PopKeepsQueue DEF AcquireAndDrop, CanLock, callVars
  <2>2. QED
    BY <1>3, <1>7, <2>1 DEF AcquireAndDrop, ghosts
<1>8. ASSUME NEW k \in Tasks, SendOk(k)
      PROVE  AttemptInv'
  BY <1>8 DEF SendOk, AttemptInv, TypeOK
<1>9. ASSUME NEW k \in Tasks, Retry(k)
      PROVE  AttemptInv'
  <2>1. PICK p \in {"backoff", "failed", "link", "lock"} : phase' = [phase EXCEPT ![k] = p]
    BY <1>9 DEF Retry, Approach
  <2>2. attempt' = [attempt EXCEPT ![k] = 1] /\ attempt[k] = 0 /\ k \in Local
    BY <1>9 DEF Retry, RetryLeft
  <2>3. k \notin radiated /\ UNCHANGED <<sends, radiated>>
    BY <1>9 DEF Retry, ghosts, AttemptInv
  <2>4. QED
    BY <2>1, <2>2, <2>3 DEF AttemptInv, TypeOK
<1>10. ASSUME NEW k \in Tasks, SendFail(k, "failed") \/ SendFail(k, "raised")
       PROVE  AttemptInv'
  BY <1>10 DEF SendFail, ghosts, AttemptInv, TypeOK
<1>11. ASSUME UNCHANGED <<phase, attempt, sends, radiated>>
       PROVE  AttemptInv'
  BY <1>11 DEF AttemptInv
<1>12. ASSUME NEW c \in Calls, CollectPrimary(c) \/ CollectCopies(c)
       PROVE  AttemptInv'
  BY <1>11, <1>12 DEF CollectPrimary, CollectCopies, taskVars, ghosts
<1>13. CASE Tick \/ LinkChange \/ UNCHANGED vars
  BY <1>11, <1>13 DEF Tick, LinkChange, vars, taskVars, ghosts
<1>14. QED
  BY <1>2, <1>4, <1>5, <1>6, <1>7, <1>8, <1>9, <1>10, <1>12, <1>13
     DEF Next, Handle, DelayedSend, Radio

---------------------------------------------------------------------------
(* The duty-cycle window *)

\* When tx_history holds the window, the gate's sum is the window's airtime.
LEMMA GateSeesWindow ==
    ASSUME TypeOK, WindowInv
    PROVE  Airtime(Recent(history)) = Airtime(Recent(radiated))
<1>1. Recent(history) \in SUBSET Recent(radiated) /\ Recent(radiated) \in SUBSET Tasks
  BY DEF Recent, WindowInv, TypeOK
<1>2. \A k \in Recent(radiated) : Air[k] > 0 => k \in Recent(history)
  BY DEF Recent, WindowInv
<1>3. QED
  BY <1>1, <1>2, AirtimeIgnoresZero, TimeAssumption

\* Steps that send nothing: tx_history loses at most expired entries.
LEMMA QuietKeepsWindow ==
    ASSUME TypeOK, WindowInv, UNCHANGED <<radiated, age>>,
           Prune \/ history' = history, owner' \in {owner, NoTask}
    PROVE  WindowInv'
<1>1. Recent(radiated)' = Recent(radiated)
  BY DEF Recent
<1>2. history' \subseteq history /\ Recent(history) \subseteq history'
  BY DEF Prune, Recent
<1>3. \A k \in Recent(radiated)' : Air[k] > 0 => k \in history'
  BY <1>1, <1>2 DEF WindowInv, Recent
<1>4. Airtime(Recent(radiated))' = Airtime(Recent(radiated))
      /\ IsFiniteSet(Units(radiated))' = IsFiniteSet(Units(radiated))
  BY <1>1 DEF Airtime, Units
<1>5. QED
  BY <1>1, <1>2, <1>3, <1>4 DEF WindowInv

\* WindowInv is inductive, relative to the types, the lock and the attempts.
LEMMA WindowStep ==
    ASSUME TypeOK, TypeOK', HalfDuplex, QueueInv, WindowInv, [Next]_vars
    PROVE  WindowInv'
<1>0. NoTask \notin Tasks /\ Budget \in Nat /\ Air \in [Tasks -> Nat]
  BY TaskAssumption, TimeAssumption DEF TaskAssumption, TimeAssumption
<1> USE <1>0
<1>1. ASSUME UNCHANGED <<radiated, age>>, Prune \/ history' = history,
             owner' \in {owner, NoTask}
      PROVE  WindowInv'
  BY <1>1, QuietKeepsWindow
<1>2. ASSUME NEW c \in Calls, Handle(c)
      PROVE  WindowInv'
  BY <1>1, <1>2 DEF Handle, ScheduleNow, ScheduleDeferred, RefuseRelay, CollectPrimary,
                    CollectCopies, lockVars, airVars, ghosts
<1>3. ASSUME NEW k \in Tasks, Wake(k) \/ LinkFound(k) \/ LinkGiveUp(k) \/ AcquireAndDrop(k)
      PROVE  WindowInv'
  BY <1>1, <1>3 DEF Wake, LinkFound, LinkGiveUp, AcquireAndDrop, lockVars, airVars, ghosts
<1>4. ASSUME NEW k \in Tasks, AcquireAndSend(k)
      PROVE  WindowInv'
  <2>1. /\ UNCHANGED <<radiated, age>> /\ (Prune \/ history' = history)
        /\ owner = NoTask /\ owner' = k /\ (Air[k] = 0 \/ Fits(k))
    BY <1>4 DEF AcquireAndSend, CanLock
  <2>2. Recent(radiated)' = Recent(radiated)
    BY <2>1 DEF Recent
  <2>3. history' \subseteq radiated' /\ \A j \in Recent(radiated)' : Air[j] > 0 => j \in history'
    BY <2>1, <2>2 DEF WindowInv, Prune, Recent
  <2>4. IsFiniteSet(Units(radiated))' /\ (Enforced => Airtime(Recent(radiated))' <= Budget)
    BY <2>1, <2>2 DEF WindowInv, Units, Airtime
  <2>5. Enforced /\ Air[k] > 0 => Airtime(Recent(radiated))' + Air[k] <= Budget
    BY <2>1, <2>2, GateSeesWindow DEF Fits, Airtime, Units
  <2>6. QED
    BY <2>1, <2>3, <2>4, <2>5 DEF WindowInv
<1>5. ASSUME NEW k \in Tasks, SendOk(k)
      PROVE  WindowInv'
  <2>1. /\ owner = k /\ owner' = NoTask /\ k # NoTask
        /\ history' = IF Air[k] > 0 THEN history \cup {k} ELSE history
        /\ age' = [age EXCEPT ![k] = 0] /\ radiated' = radiated \cup {k}
    BY <1>5 DEF SendOk, HalfDuplex
  <2>2. Recent(radiated)' \in SUBSET (Recent(radiated) \cup {k})
    BY <2>1 DEF Recent, TypeOK
  <2>3. history' \subseteq radiated' /\ \A j \in Recent(radiated)' : Air[j] > 0 => j \in history'
    BY <2>1, <2>2 DEF WindowInv
  <2>4. Recent(radiated) \in SUBSET radiated /\ IsFiniteSet(Units(radiated))
    BY DEF Recent, WindowInv
  <2>5. IsFiniteSet(Units(radiated \cup {k}))
    BY <2>4, AirtimeAdd, TimeAssumption
  <2>6. IsFiniteSet(Units(radiated))'
    BY <2>1, <2>5 DEF Units
  <2>7. IsFiniteSet(Units(Recent(radiated))) /\ Airtime(Recent(radiated)) \in Nat
    BY <2>4, AirtimeMonotone
  <2>8. /\ IsFiniteSet(Units(Recent(radiated) \cup {k}))
        /\ Airtime(Recent(radiated) \cup {k}) \in Nat
        /\ Airtime(Recent(radiated) \cup {k}) <= Airtime(Recent(radiated)) + Air[k]
    BY <2>7, AirtimeAdd, TimeAssumption
  <2>9. /\ Airtime(Recent(radiated)') \in Nat
        /\ Airtime(Recent(radiated)') <= Airtime(Recent(radiated) \cup {k})
    BY <2>2, <2>8, AirtimeMonotone
  <2>10. Airtime(Recent(radiated))' = Airtime(Recent(radiated)')
    BY DEF Airtime, Units
  <2>11. Enforced => Airtime(Recent(radiated)) + Air[k] <= Budget
    BY <2>1, <2>7 DEF WindowInv
  <2>12. Enforced => Airtime(Recent(radiated))' <= Budget
    BY <2>7, <2>8, <2>9, <2>10, <2>11
  <2>13. QED
    BY <2>1, <2>3, <2>6, <2>12 DEF WindowInv
<1>6. ASSUME NEW k \in Tasks, Retry(k) \/ SendFail(k, "failed") \/ SendFail(k, "raised")
      PROVE  WindowInv'
  BY <1>1, <1>6 DEF Retry, SendFail, airVars, ghosts
<1>7. CASE Tick
  <2>1. UNCHANGED <<radiated, history, owner>> /\ Recent(radiated)' \in SUBSET Recent(radiated)
    <3>1. UNCHANGED <<radiated, history, owner>>
      BY <1>7 DEF Tick, lockVars, ghosts
    <3>2. \A k \in radiated : age'[k] < Window => age[k] < Window
      BY <1>7, TimeAssumption DEF Tick, TypeOK, TimeAssumption
    <3>3. QED
      BY <3>1, <3>2 DEF Recent
  <2>2. Recent(radiated) \in SUBSET radiated /\ IsFiniteSet(Units(radiated))
    BY DEF Recent, WindowInv
  <2>3. IsFiniteSet(Units(Recent(radiated))) /\ Airtime(Recent(radiated)) \in Nat
    BY <2>2, AirtimeMonotone
  <2>4. /\ Airtime(Recent(radiated)') \in Nat
        /\ Airtime(Recent(radiated)') <= Airtime(Recent(radiated))
    BY <2>1, <2>3, AirtimeMonotone
  <2>5. /\ Airtime(Recent(radiated))' = Airtime(Recent(radiated)')
        /\ IsFiniteSet(Units(radiated))' = IsFiniteSet(Units(radiated))
    BY <2>1 DEF Airtime, Units
  <2>6. Enforced => Airtime(Recent(radiated))' <= Budget
    BY <2>3, <2>4, <2>5 DEF WindowInv
  <2>7. Enforced /\ owner' # NoTask /\ Air[owner'] > 0 =>
          Airtime(Recent(radiated))' + Air[owner'] <= Budget
    <3>1. SUFFICES ASSUME Enforced, owner # NoTask, Air[owner] > 0
                   PROVE  Airtime(Recent(radiated)') + Air[owner] <= Budget
      BY <2>1, <2>5
    <3>2. Airtime(Recent(radiated)) + Air[owner] <= Budget
      BY <3>1 DEF WindowInv
    <3>3. Air[owner] \in Nat /\ Budget \in Nat
      BY <3>1, TimeAssumption DEF TypeOK, TimeAssumption
    <3>4. QED
      BY <2>3, <2>4, <3>2, <3>3
  <2>8. QED
    BY <2>1, <2>2, <2>5, <2>6, <2>7 DEF WindowInv
<1>8. CASE LinkChange \/ UNCHANGED vars
  BY <1>1, <1>8 DEF LinkChange, vars, lockVars, airVars, ghosts
<1>9. QED
  BY <1>2, <1>3, <1>4, <1>5, <1>6, <1>7, <1>8 DEF Next, DelayedSend, Radio

---------------------------------------------------------------------------
(* The theorems *)

\* The inductive invariant holds in every reachable state.
THEOREM Invariance == Spec => []IInv
<1>1. Init => IInv
  <2> SUFFICES ASSUME Init
               PROVE  IInv
    OBVIOUS
  <2>1. TypeOK
    BY TimeAssumption DEF Init, TypeOK, TimeAssumption, Phases, Calls
  <2>2. HalfDuplex /\ QueueInv /\ AttemptInv
    BY TaskAssumption DEF Init, HalfDuplex, QueueInv, AttemptInv, TaskAssumption, Calls
  <2>3. Units({}) = {} /\ Recent({}) = {}
    BY DEF Units, Recent
  <2>4. IsFiniteSet(Units({})) /\ Airtime({}) = 0
    BY <2>3, FS_EmptySet DEF Airtime
  <2>5. WindowInv
    <3>1. radiated = {} /\ history = {} /\ owner = NoTask /\ Budget \in Nat
      BY TimeAssumption DEF Init, TimeAssumption
    <3>2. Recent(radiated) = {}
      BY <2>3, <3>1
    <3>3. Airtime(Recent(radiated)) = 0 /\ IsFiniteSet(Units(radiated))
      BY <2>4, <3>1, <3>2, Zenon
    <3>4. QED
      BY <3>1, <3>2, <3>3 DEF WindowInv
  <2>6. QED
    BY <2>1, <2>2, <2>5 DEF IInv
<1>2. TypeOK' /\ IInv /\ [Next]_vars => IInv'
  BY QueueStep, AttemptStep, WindowStep DEF IInv
<1>3. QED
  BY <1>1, <1>2, TypeCorrect, PTL DEF Spec

\* At most one task is inside send_packet, and it holds _tx_lock.
THEOREM MutualExclusion == Spec => []HalfDuplex
<1>1. IInv => HalfDuplex
  BY DEF IInv
<1>2. QED
  BY <1>1, Invariance, PTL

\* The airtime of every window stays within the budget, whatever the
\* interleaving of the tasks.
THEOREM DutyCycleHolds == Spec => []DutyCycle
<1>1. IInv => DutyCycle
  BY DEF IInv, WindowInv, DutyCycle
<1>2. QED
  BY <1>1, Invariance, PTL

\* A relayed packet is attempted at most once and a local one at most twice.
THEOREM AttemptsBounded == Spec => []AttemptBound
<1>1. IInv => AttemptBound
  BY DEF IInv, TypeOK, AttemptInv, AttemptBound
<1>2. QED
  BY <1>1, Invariance, PTL

\* A packet that went out is never handed to the radio again.
THEOREM NeverResent == Spec => NoResend
<1>1. IInv /\ [Next]_vars => [\A k \in radiated : sends'[k] = sends[k]]_vars
  <2> SUFFICES ASSUME IInv, Next
               PROVE  \A k \in radiated : sends'[k] = sends[k]
    OBVIOUS
  <2>1. ASSUME NEW k \in Tasks, AcquireAndSend(k)
        PROVE  \A j \in radiated : sends'[j] = sends[j]
    <3>1. phase[k] = "lock"
      BY <2>1, PopKeepsQueue DEF AcquireAndSend, CanLock, callVars, IInv
    <3>2. k \notin radiated
      BY <3>1 DEF IInv, AttemptInv
    <3>3. QED
      BY <2>1, <3>2 DEF AcquireAndSend, IInv, TypeOK
  <2>2. (\A k \in Tasks : ~AcquireAndSend(k)) => sends' = sends
    BY DEF Next, Handle, ScheduleNow, ScheduleDeferred, RefuseRelay, CollectPrimary,
           CollectCopies, DelayedSend, Wake, LinkFound, LinkGiveUp, AcquireAndDrop, Radio,
           SendOk, Retry, SendFail, Tick, LinkChange, ghosts
  <2>3. QED
    BY <2>1, <2>2
<1>2. QED
  BY <1>1, Invariance, PTL DEF Spec, NoResend

---------------------------------------------------------------------------
(* The counters *)

\* The call of task k has taken its result into account.
Collected(k) ==
    caller[Wraps[k]] \in (IF Wraps[k] = k THEN {"copies", "done", "raised"} ELSE {"done"})

Counted == {k \in radiated : Collected(k)}
Refused == {c \in Calls : caller[c] \in {"copies", "done"} /\ c \notin radiated}

\* A task is collected when nothing more can happen to it, and the counters are
\* the collected tasks that went out and the calls whose packet did not. A call
\* raises only when its packet's task did.
AccountInv ==
    /\ \A k \in Tasks : phase[k] = "sent" => k \in radiated
    /\ \A c \in Calls : caller[c] = "raised" => phase[c] = "raised"
    /\ \A k \in Tasks : Collected(k) => phase[k] \in Settled \cup {"idle"}
    /\ IsFiniteSet(Counted) /\ forwarded = Cardinality(Counted)
    /\ IsFiniteSet(Refused) /\ dropped = Cardinality(Refused)

\* Who is counted depends only on what was sent and on where the calls stand.
LEMMA SameAccount ==
    ASSUME UNCHANGED <<caller, radiated, forwarded, dropped>>, AccountInv,
           \A k \in Tasks : phase'[k] = "sent" => phase[k] = "sent",
           \A k \in Tasks : phase[k] \in Settled \cup {"idle"} => phase'[k] = phase[k]
    PROVE  AccountInv'
<1>1. \A k \in Tasks : Collected(k)' = Collected(k)
  BY DEF Collected
<1>2. Counted' = Counted /\ Refused' = Refused
  BY DEF Collected, Counted, Refused
<1>3. \A c \in Calls : caller'[c] = "raised" => phase'[c] = "raised"
  BY DEF AccountInv, Calls, Settled
<1>. QED  BY <1>1, <1>2, <1>3 DEF AccountInv

\* AccountInv is inductive, relative to the types, the queue and the attempts.
LEMMA AccountStep ==
    ASSUME TypeOK, QueueInv, AttemptInv, AccountInv, [Next]_vars
    PROVE  AccountInv'
<1>0. /\ Wraps \in [Tasks -> Tasks] /\ \A k \in Tasks : Wraps[k] \in Calls
      /\ \A c \in Calls : c \in Tasks /\ Wraps[c] = c
      /\ \A c \in Calls : \A k \in Copies(c) : k \in Tasks /\ Wraps[k] = c /\ k # c
      /\ \A c \in Calls : IsFiniteSet({k \in Tasks : Wraps[k] = c})
  BY TaskAssumption DEF TaskAssumption, Calls, Copies
<1> USE <1>0
<1>1. ASSUME NEW k \in Tasks, NEW p \in Phases \ {"sent"},
             phase' = [phase EXCEPT ![k] = p], phase[k] \notin Settled \cup {"idle"},
             UNCHANGED <<caller, radiated, forwarded, dropped>>
      PROVE  AccountInv'
  <2>1. \A j \in Tasks : phase'[j] = IF j = k THEN p ELSE phase[j]
    BY <1>1 DEF TypeOK
  <2>. QED  BY <1>1, <2>1, SameAccount
<1>2. ASSUME NEW k \in Tasks, Wake(k)
      PROVE  AccountInv'
  <2>1. PICK p \in {"failed", "link", "lock"} : phase' = [phase EXCEPT ![k] = p]
    BY <1>2 DEF Wake, Approach
  <2>. QED  BY <1>1, <1>2, <2>1 DEF Wake, callVars, ghosts, Phases, Settled
<1>3. ASSUME NEW k \in Tasks, LinkFound(k) \/ LinkGiveUp(k)
      PROVE  AccountInv'
  BY <1>1, <1>3 DEF LinkFound, LinkGiveUp, callVars, ghosts, Phases, Settled
<1>4. ASSUME NEW k \in Tasks, AcquireAndSend(k) \/ AcquireAndDrop(k)
      PROVE  AccountInv'
  <2>1. phase[k] = "lock"
    BY <1>4, PopKeepsQueue DEF AcquireAndSend, AcquireAndDrop, CanLock, callVars
  <2>2. PICK p \in {"send", "gated"} : phase' = [phase EXCEPT ![k] = p]
    BY <1>4 DEF AcquireAndSend, AcquireAndDrop
  <2>. QED
    BY <1>1, <1>4, <2>1, <2>2 DEF AcquireAndSend, AcquireAndDrop, callVars, ghosts, Phases, Settled
<1>5. ASSUME NEW k \in Tasks, Retry(k)
      PROVE  AccountInv'
  <2>1. PICK p \in {"backoff", "failed", "link", "lock"} : phase' = [phase EXCEPT ![k] = p]
    BY <1>5 DEF Retry, Approach
  <2>. QED  BY <1>1, <1>5, <2>1 DEF Retry, callVars, ghosts, Phases, Settled
<1>6. ASSUME NEW k \in Tasks, SendFail(k, "failed") \/ SendFail(k, "raised")
      PROVE  AccountInv'
  BY <1>1, <1>6 DEF SendFail, callVars, ghosts, Phases, Settled
<1>7. ASSUME NEW k \in Tasks, SendOk(k)
      PROVE  AccountInv'
  <2>1. /\ \A j \in Tasks : phase'[j] = IF j = k THEN "sent" ELSE phase[j]
        /\ radiated' = radiated \cup {k} /\ UNCHANGED <<caller, forwarded, dropped>>
    BY <1>7 DEF SendOk, callVars, TypeOK
  <2>2. ~Collected(k) /\ \A j \in Tasks : Collected(j)' = Collected(j)
    BY <1>7, <2>1 DEF SendOk, AccountInv, Collected, Settled
  <2>3. Counted' = Counted
    BY <2>1, <2>2 DEF Counted, TypeOK
  <2>4. Refused' = Refused
    BY <2>1, <2>2 DEF Refused, Collected
  <2>5. \A c \in Calls : caller'[c] = "raised" => phase'[c] = "raised"
    BY <1>7, <2>1 DEF SendOk, AccountInv, Calls
  <2>. QED  BY <2>1, <2>2, <2>3, <2>4, <2>5 DEF AccountInv
<1>8. ASSUME NEW c \in Calls, NEW S \in SUBSET (Copies(c) \cup {c}), NEW d,
             caller[c] = "idle", StartDelay(S, d)
      PROVE  /\ \A k \in Tasks : phase'[k] # phase[k] => k \in S /\ phase[k] = "idle" /\ phase'[k] = "delay"
             /\ phase[c] = "idle" /\ c \notin radiated
  <2>1. \A k \in Copies(c) \cup {c} : k \in Tasks /\ phase[k] = "idle"
    BY <1>8 DEF QueueInv
  <2>2. \A k \in Tasks : phase'[k] = IF k \in S THEN "delay" ELSE phase[k]
    BY <1>8 DEF StartDelay
  <2>. QED  BY <2>1, <2>2 DEF AttemptInv
<1>9. ASSUME NEW c \in Calls, NEW d \in Delays, ScheduleNow(c, d) \/ ScheduleDeferred(c, d)
      PROVE  AccountInv'
  <2>1. PICK S \in SUBSET (Copies(c) \cup {c}) : \E e : StartDelay(S, e)
    BY <1>9 DEF ScheduleNow, ScheduleDeferred
  <2>2. caller[c] = "idle" /\ \A j \in Calls : caller'[j] = IF j = c THEN "primary" ELSE caller[j]
    BY <1>9 DEF ScheduleNow, ScheduleDeferred, TypeOK
  <2>3. UNCHANGED <<radiated, forwarded, dropped>>
    BY <1>9 DEF ScheduleNow, ScheduleDeferred, ghosts
  <2>4. \A k \in Tasks : Collected(k)' = Collected(k) /\ (Wraps[k] = c => ~Collected(k))
    BY <2>2 DEF Collected
  <2>5. Counted' = Counted
    BY <2>3, <2>4 DEF Counted, TypeOK
  <2>6. Refused' = Refused
    BY <2>2, <2>3 DEF Refused
  <2>7. /\ \A k \in Tasks : phase'[k] = "sent" => k \in radiated'
        /\ \A k \in Tasks : Collected(k)' => phase'[k] \in Settled \cup {"idle"}
        /\ \A j \in Calls : caller'[j] = "raised" => phase'[j] = "raised"
    BY <1>8, <2>1, <2>2, <2>3, <2>4 DEF AccountInv
  <2>. QED  BY <2>3, <2>5, <2>6, <2>7 DEF AccountInv
<1>10. ASSUME NEW c \in Calls, NEW d \in Delays, RefuseRelay(c, d)
       PROVE  AccountInv'
  <2>1. StartDelay(Copies(c), d) /\ caller[c] = "idle" /\ UNCHANGED <<radiated, forwarded>>
        /\ dropped' = dropped + 1 /\ \A j \in Calls : caller'[j] = IF j = c THEN "copies" ELSE caller[j]
    BY <1>10 DEF RefuseRelay, ghosts, TypeOK
  <2>2. /\ \A k \in Tasks : phase'[k] # phase[k] => k \in Copies(c) /\ phase[k] = "idle" /\ phase'[k] = "delay"
        /\ phase[c] = "idle" /\ c \notin radiated
    BY <1>8, <2>1
  <2>3. /\ \A k \in Tasks : Collected(k)' <=> Collected(k) \/ k = c
        /\ \A k \in Copies(c) \cup {c} : k \in Tasks /\ ~Collected(k)
    BY <2>1 DEF Collected
  <2>4. Counted' = Counted
    <3>1. \A k \in radiated : k \in Tasks /\ (Collected(k)' <=> Collected(k))
      BY <2>2, <2>3 DEF TypeOK
    <3>. QED  BY <2>1, <3>1 DEF Counted
  <2>5. c \notin Refused /\ Refused' = Refused \cup {c}
    BY <2>1, <2>2 DEF Refused
  <2>6. IsFiniteSet(Refused') /\ Cardinality(Refused') = Cardinality(Refused) + 1
    BY <2>5, FS_AddElement DEF AccountInv
  <2>7. /\ \A k \in Tasks : phase'[k] = "sent" => k \in radiated'
        /\ \A k \in Tasks : Collected(k)' => phase'[k] \in Settled \cup {"idle"}
        /\ \A j \in Calls : caller'[j] = "raised" => phase'[j] = "raised"
    BY <2>1, <2>2, <2>3 DEF AccountInv
  <2>. QED  BY <2>1, <2>4, <2>6, <2>7 DEF AccountInv
<1>11. ASSUME NEW c \in Calls, CollectPrimary(c)
       PROVE  AccountInv'
  <2>1. /\ caller[c] = "primary" /\ phase[c] \in Settled /\ UNCHANGED <<phase, radiated>>
        /\ \A j \in Calls : caller'[j] = IF j = c
                                         THEN IF phase[c] = "raised" THEN "raised" ELSE "copies"
                                         ELSE caller[j]
    BY <1>11 DEF CollectPrimary, taskVars, ghosts, TypeOK
  <2>2. /\ forwarded' = IF phase[c] = "sent" THEN forwarded + 1 ELSE forwarded
        /\ dropped' = IF phase[c] \in {"failed", "gated"} THEN dropped + 1 ELSE dropped
        /\ c \in radiated <=> phase[c] = "sent"
    BY <1>11 DEF CollectPrimary, AccountInv, AttemptInv
  <2>3. /\ \A k \in Tasks : Collected(k)' <=> Collected(k) \/ k = c
        /\ ~Collected(c)
    BY <2>1 DEF Collected
  <2>4. c \notin Counted /\ Counted' = IF phase[c] = "sent" THEN Counted \cup {c} ELSE Counted
    <3>1. \A k \in radiated : k \in Tasks /\ (Collected(k)' <=> Collected(k) \/ k = c)
      BY <2>3 DEF TypeOK
    <3>. QED  BY <2>1, <2>2, <2>3, <3>1 DEF Counted
  <2>5. c \notin Refused /\ Refused' = IF phase[c] \in {"failed", "gated"} THEN Refused \cup {c} ELSE Refused
    BY <2>1, <2>2 DEF Refused, Settled
  <2>6. /\ IsFiniteSet(Counted') /\ forwarded' = Cardinality(Counted')
        /\ IsFiniteSet(Refused') /\ dropped' = Cardinality(Refused')
    BY <2>2, <2>4, <2>5, FS_AddElement DEF AccountInv
  <2>7. /\ \A k \in Tasks : phase'[k] = "sent" => k \in radiated'
        /\ \A k \in Tasks : Collected(k)' => phase'[k] \in Settled \cup {"idle"}
        /\ \A j \in Calls : caller'[j] = "raised" => phase'[j] = "raised"
    BY <2>1, <2>3 DEF AccountInv
  <2>. QED  BY <2>6, <2>7 DEF AccountInv
<1>12. ASSUME NEW c \in Calls, CollectCopies(c)
       PROVE  AccountInv'
  <2>1. /\ caller[c] = "copies" /\ UNCHANGED <<phase, radiated, dropped>>
        /\ \A k \in Copies(c) : phase[k] \in Settled
        /\ forwarded' = forwarded + Cardinality(CopiesSent(c))
        /\ \A j \in Calls : caller'[j] = IF j = c THEN "done" ELSE caller[j]
    BY <1>12 DEF CollectCopies, taskVars, ghosts, TypeOK
  <2>2. \A k \in Tasks : /\ Collected(k)' = (Collected(k) \/ k \in Copies(c))
                         /\ k \in Copies(c) => ~Collected(k)
    BY <2>1 DEF Collected, Copies
  <2>3. CopiesSent(c) = radiated \cap Copies(c)
    BY DEF CopiesSent, AccountInv, AttemptInv, Copies, TypeOK
  <2>4. Counted' = Counted \cup CopiesSent(c) /\ Counted \cap CopiesSent(c) = {}
    BY <2>1, <2>2, <2>3 DEF Counted, TypeOK
  <2>5. IsFiniteSet(CopiesSent(c))
    <3>1. CopiesSent(c) \in SUBSET {k \in Tasks : Wraps[k] = c}
      BY DEF CopiesSent
    <3>. QED  BY <3>1, FS_Subset
  <2>6. IsFiniteSet(Counted') /\ forwarded' = Cardinality(Counted')
    <3>1. /\ IsFiniteSet(Counted \cup CopiesSent(c))
          /\ Cardinality(Counted \cup CopiesSent(c)) =
               Cardinality(Counted) + Cardinality(CopiesSent(c)) - Cardinality({})
      BY <2>4, <2>5, FS_Union DEF AccountInv
    <3>2. /\ Cardinality({}) = 0 /\ Cardinality(Counted) \in Nat
          /\ Cardinality(CopiesSent(c)) \in Nat
      BY <2>5, FS_EmptySet, FS_CardinalityType DEF AccountInv
    <3>. QED  BY <2>1, <2>4, <3>1, <3>2 DEF AccountInv
  <2>7. Refused' = Refused
    BY <2>1 DEF Refused
  <2>8. /\ \A k \in Tasks : phase'[k] = "sent" => k \in radiated'
        /\ \A k \in Tasks : Collected(k)' => phase'[k] \in Settled \cup {"idle"}
        /\ \A j \in Calls : caller'[j] = "raised" => phase'[j] = "raised"
    BY <2>1, <2>2 DEF AccountInv
  <2>. QED  BY <2>1, <2>6, <2>7, <2>8 DEF AccountInv
<1>13. CASE Tick \/ LinkChange \/ UNCHANGED vars
  BY <1>13, SameAccount DEF Tick, LinkChange, vars, taskVars, callVars, ghosts
<1>. QED
  BY <1>2, <1>3, <1>4, <1>5, <1>6, <1>7, <1>9, <1>10, <1>11, <1>12, <1>13
     DEF Next, Handle, DelayedSend, Radio

\* Between calls the counters tell exactly what went out for the calls that
\* returned, for any tasks, copies and outcomes (RepeaterHandler.__call__).
THEOREM CountersTrue == Spec => []Accounted
<1>1. Init => AccountInv
  <2>1. ASSUME Init PROVE Counted = {} /\ Refused = {}
    BY <2>1, TaskAssumption DEF Init, Counted, Refused, TaskAssumption, Calls
  <2>. QED
    BY <2>1, TaskAssumption, FS_EmptySet DEF Init, AccountInv, Collected, TaskAssumption, Calls
<1>2. IInv /\ AccountInv /\ [Next]_vars => AccountInv'
  BY AccountStep DEF IInv
<1>3. IInv /\ AccountInv => Accounted
  <2> SUFFICES ASSUME IInv, AccountInv, \A c \in Calls : caller[c] \in {"idle", "done", "raised"}
               PROVE  /\ forwarded = Cardinality({k \in radiated : caller[Wraps[k]] = "done"})
                      /\ dropped = Cardinality({c \in Calls : caller[c] = "done" /\ c \notin radiated})
    BY DEF Accounted
  <2>1. ASSUME NEW k \in radiated PROVE Collected(k) <=> caller[Wraps[k]] = "done"
    <3>1. k \in Tasks /\ Wraps[k] \in Calls /\ phase[k] = "sent"
      BY TaskAssumption DEF TaskAssumption, IInv, TypeOK, AttemptInv, Calls
    <3>2. Wraps[k] = k => caller[k] # "raised"
      BY <3>1 DEF AccountInv
    <3>. QED  BY <3>1, <3>2 DEF Collected
  <2>2. Counted = {k \in radiated : caller[Wraps[k]] = "done"}
    BY <2>1 DEF Counted
  <2>3. Refused = {c \in Calls : caller[c] = "done" /\ c \notin radiated}
    BY DEF Refused
  <2>. QED  BY <2>2, <2>3 DEF AccountInv
<1>. QED  BY <1>1, <1>2, <1>3, Invariance, PTL DEF Spec

---------------------------------------------------------------------------
(* The scheduler implements DutyRadio *)

\* What the refinement maps the state to.
Verdicts == [k \in Tasks |-> Verdict(k)]

\* The radio that is promised sees nothing of a step that leaves the lock, the
\* window and what is known of every packet.
LEMMA Unseen ==
    ASSUME UNCHANGED owner, \A k \in Tasks : Verdict(k)' = Verdict(k),
           Recent(radiated)' \in SUBSET Recent(radiated)
    PROVE  Radio1!Next
<1>1. Verdicts' = Verdicts
  BY DEF Verdicts
<1>2. UNCHANGED [k \in Tasks |-> Verdict(k)]
  BY <1>1 DEF Verdicts
<1>. QED  BY <1>2 DEF Radio1!Next, Radio1!Expire

\* Both count airtime the same way.
LEMMA RadioAirtime ==
    ASSUME NEW S
    PROVE  Radio1!Airtime(S) = Airtime(S)
<1>0. \A T : Radio1!Cardinality(T) = Cardinality(T)
  BY DEF Radio1!Cardinality, Cardinality
<1>1. Radio1!Airtime(S) = Cardinality(UNION {{k} \X (1..Air[k]) : k \in S})
  BY <1>0 DEF Radio1!Airtime
<1>2. Airtime(S) = Cardinality(UNION {{k} \X (1..Air[k]) : k \in S})
  BY DEF Airtime, Units
<1>. QED  BY <1>1, <1>2

\* At most one packet's verdict changes.
LEMMA OneVerdict ==
    ASSUME NEW k \in Tasks, NEW v, \A j \in Tasks : Verdict(j)' = IF j = k THEN v ELSE Verdict(j)
    PROVE  /\ [j \in Tasks |-> Verdict(j)]' = [[j \in Tasks |-> Verdict(j)] EXCEPT ![k] = v]
           /\ v = Verdict(k) => [j \in Tasks |-> Verdict(j)]' = [j \in Tasks |-> Verdict(j)]
  OBVIOUS

\* A packet is given up away from the radio, or nothing happens to it.
LEMMA GivenUp ==
    ASSUME NEW k \in Tasks, owner # k, Verdict(k) = "pending", Verdict(k)' \in {"pending", "lost"},
           \A j \in Tasks \ {k} : Verdict(j)' = Verdict(j),
           UNCHANGED <<owner, radiated, age>>
    PROVE  Radio1!Next
<1>1. Recent(radiated)' = Recent(radiated)
  BY DEF Recent
<1>2. CASE Verdict(k)' = "pending"
  BY <1>1, <1>2, Unseen
<1>3. CASE Verdict(k)' = "lost"
  <2>1. [j \in Tasks |-> Verdict(j)]' = [[j \in Tasks |-> Verdict(j)] EXCEPT ![k] = "lost"]
    BY <1>3, OneVerdict
  <2>. QED  BY <1>1, <2>1 DEF Radio1!Next, Radio1!GiveUp
<1>. QED  BY <1>2, <1>3

\* Every step of the scheduler is one of the radio's, or changes nothing of it.
LEMMA RadioStep ==
    ASSUME TypeOK, HalfDuplex, QueueInv, AttemptInv, WindowInv, [Next]_vars
    PROVE  [Radio1!Next]_(Radio1!vars)
<1>0. /\ Wraps \in [Tasks -> Tasks] /\ NoTask \notin Tasks /\ Window \in Nat \ {0}
      /\ \A c \in Calls : c \in Tasks /\ Wraps[c] = c
      /\ \A c \in Calls : \A k \in Copies(c) : k \in Tasks /\ Wraps[k] = c /\ k # c
      /\ \A k \in Calls : Wraps[k] = k
  BY TaskAssumption, TimeAssumption DEF TaskAssumption, TimeAssumption, Calls, Copies
<1> USE <1>0
<1>1. ASSUME NEW k \in Tasks, NEW p \in Phases \ {"idle", "sent"}, UNCHANGED <<caller, radiated>>,
             phase' = [phase EXCEPT ![k] = p], phase[k] \notin Settled \cup {"idle"}
      PROVE  /\ \A j \in Tasks \ {k} : Verdict(j)' = Verdict(j)
             /\ Verdict(k) = "pending"
             /\ Verdict(k)' = IF p \in Settled THEN "lost" ELSE "pending"
  <2>1. \A j \in Tasks : phase'[j] = IF j = k THEN p ELSE phase[j]
    BY <1>1 DEF TypeOK
  <2>2. k \notin radiated
    BY <1>1 DEF AttemptInv, Settled
  <2>. QED  BY <1>1, <2>1, <2>2 DEF Verdict
<1>2. ASSUME NEW k \in Tasks, Wake(k)
      PROVE  Radio1!Next
  <2>1. PICK p \in {"failed", "link", "lock"} : phase' = [phase EXCEPT ![k] = p]
    BY <1>2 DEF Wake, Approach
  <2>2. owner # k /\ UNCHANGED <<caller, radiated, owner, age>> /\ phase[k] \notin Settled \cup {"idle"}
    BY <1>2 DEF Wake, callVars, ghosts, airVars, HalfDuplex, Settled
  <2>. QED  BY <1>1, <2>1, <2>2, GivenUp DEF Phases, Settled
<1>3. ASSUME NEW k \in Tasks, LinkFound(k) \/ LinkGiveUp(k) \/ AcquireAndDrop(k)
      PROVE  Radio1!Next
  <2>1. phase[k] \in {"link", "lock"}
    BY <1>3, PopKeepsQueue DEF LinkFound, LinkGiveUp, AcquireAndDrop, CanLock, callVars
  <2>2. PICK p \in {"failed", "lock", "gated"} : phase' = [phase EXCEPT ![k] = p]
    BY <1>3 DEF LinkFound, LinkGiveUp, AcquireAndDrop
  <2>3. owner # k /\ UNCHANGED <<caller, radiated, owner, age>>
    BY <1>3, <2>1 DEF LinkFound, LinkGiveUp, AcquireAndDrop, callVars, ghosts, airVars, lockVars, HalfDuplex
  <2>. QED  BY <1>1, <2>1, <2>2, <2>3, GivenUp DEF Phases, Settled
<1>4. ASSUME NEW k \in Tasks, AcquireAndSend(k)
      PROVE  Radio1!Next
  <2>1. phase[k] = "lock"
    BY <1>4, PopKeepsQueue DEF AcquireAndSend, CanLock, callVars
  <2>2. /\ owner = NoTask /\ owner' = k /\ phase' = [phase EXCEPT ![k] = "send"]
        /\ UNCHANGED <<caller, radiated, age>> /\ (Air[k] = 0 \/ Fits(k))
    BY <1>4 DEF AcquireAndSend, CanLock, callVars
  <2>3. Recent(radiated)' = Recent(radiated)
    BY <2>2 DEF Recent
  <2>4. Verdict(k) = "pending" /\ \A j \in Tasks : Verdict(j)' = Verdict(j)
    <3>1. "send" \in Phases \ {"idle", "sent"} /\ "send" \notin Settled /\ "lock" \notin Settled \cup {"idle"}
      BY DEF Phases, Settled
    <3>2. Verdict(k) = "pending" /\ Verdict(k)' = "pending" /\ \A j \in Tasks \ {k} : Verdict(j)' = Verdict(j)
      BY <1>1, <2>1, <2>2, <3>1
    <3>. QED  BY <3>2
  <2>5. UNCHANGED [j \in Tasks |-> Verdict(j)]
    BY <2>4, Zenon
  <2>6. Enforced /\ Air[k] > 0 => Airtime(Recent(radiated)) + Air[k] <= Budget
    BY <2>2, GateSeesWindow DEF Fits
  <2>7. Radio1!Airtime(Recent(radiated)) = Airtime(Recent(radiated))
    BY RadioAirtime
  <2>8. Radio1!Key(k)
    BY <2>2, <2>3, <2>4, <2>5, <2>6, <2>7 DEF Radio1!Key
  <2>. QED  BY <2>8 DEF Radio1!Next
<1>5. ASSUME NEW k \in Tasks, SendOk(k)
      PROVE  Radio1!Next
  <2>1. /\ owner = k /\ owner' = NoTask /\ UNCHANGED caller
        /\ \A j \in Tasks : phase'[j] = IF j = k THEN "sent" ELSE phase[j]
        /\ \A j \in Tasks : age'[j] = IF j = k THEN 0 ELSE age[j]
        /\ radiated' = radiated \cup {k} /\ radiated \subseteq Tasks
    BY <1>5 DEF SendOk, HalfDuplex, TypeOK, callVars
  <2>2. Recent(radiated)' = Recent(radiated) \cup {k}
    BY <2>1 DEF Recent
  <2>3. \A j \in Tasks : Verdict(j)' = IF j = k THEN "sent" ELSE Verdict(j)
    BY <2>1 DEF Verdict
  <2>4. [j \in Tasks |-> Verdict(j)]' = [[j \in Tasks |-> Verdict(j)] EXCEPT ![k] = "sent"]
    BY <2>3, OneVerdict
  <2>5. Radio1!Complete(k)
    BY <2>1, <2>2, <2>4 DEF Radio1!Complete
  <2>. QED  BY <2>5 DEF Radio1!Next
<1>6. ASSUME NEW k \in Tasks, Retry(k) \/ SendFail(k, "failed") \/ SendFail(k, "raised")
      PROVE  Radio1!Next
  <2>1. PICK p \in {"backoff", "failed", "link", "lock", "raised"} : phase' = [phase EXCEPT ![k] = p]
    BY <1>6 DEF Retry, SendFail, Approach
  <2>2. /\ owner = k /\ owner' = NoTask /\ phase[k] = "send" /\ UNCHANGED <<caller, radiated, age>>
    BY <1>6 DEF Retry, SendFail, HalfDuplex, callVars, ghosts, airVars
  <2>3. Recent(radiated)' = Recent(radiated)
    BY <2>2 DEF Recent
  <2>4. /\ \A j \in Tasks \ {k} : Verdict(j)' = Verdict(j)
        /\ Verdict(k) = "pending" /\ Verdict(k)' \in {"pending", "lost"}
    BY <1>1, <2>1, <2>2 DEF Phases, Settled
  <2>5. [j \in Tasks |-> Verdict(j)]' \in {[j \in Tasks |-> Verdict(j)],
                                           [[j \in Tasks |-> Verdict(j)] EXCEPT ![k] = "lost"]}
    <3>1. CASE Verdict(k)' = "pending"
      BY <2>4, <3>1, OneVerdict
    <3>2. CASE Verdict(k)' = "lost"
      BY <2>4, <3>2, OneVerdict
    <3>. QED  BY <2>4, <3>1, <3>2
  <2>6. Radio1!Abort(k)
    BY <2>2, <2>3, <2>5 DEF Radio1!Abort
  <2>. QED  BY <2>6 DEF Radio1!Next
<1>7. ASSUME NEW c \in Calls, NEW d \in Delays, ScheduleNow(c, d) \/ ScheduleDeferred(c, d) \/ RefuseRelay(c, d)
      PROVE  Radio1!Next
  <2>1. PICK S \in SUBSET (Copies(c) \cup {c}) : \E e : StartDelay(S, e)
    BY <1>7 DEF ScheduleNow, ScheduleDeferred, RefuseRelay
  <2>2. /\ caller[c] = "idle" /\ UNCHANGED <<owner, radiated, age>>
        /\ \A j \in Calls \ {c} : caller'[j] = caller[j]
    BY <1>7 DEF ScheduleNow, ScheduleDeferred, RefuseRelay, TypeOK, lockVars, ghosts
  <2>3. \A k \in Copies(c) \cup {c} : k \in Tasks /\ phase[k] = "idle" /\ k \notin radiated
    BY <2>2 DEF QueueInv, AttemptInv
  <2>4. \A k \in Tasks : phase'[k] = IF k \in S THEN "delay" ELSE phase[k]
    BY <2>1 DEF StartDelay
  <2>5. /\ \A j \in Tasks \ {c} : Verdict(j)' = Verdict(j)
        /\ Verdict(c) = "pending" /\ Verdict(c)' \in {"pending", "lost"}
    <3>1. \A j \in Tasks \ {c} : j \in Calls => j \notin Copies(c)
      OBVIOUS
    <3>2. ASSUME NEW j \in Tasks \ {c} PROVE Verdict(j)' = Verdict(j)
      BY <2>2, <2>3, <2>4, <3>1, <3>2 DEF Verdict, Settled
    <3>. QED  BY <2>2, <2>3, <2>4, <3>2 DEF Verdict, Settled
  <2>6. owner # c
    BY <2>3 DEF HalfDuplex
  <2>. QED  BY <2>2, <2>5, <2>6, GivenUp
<1>8. ASSUME NEW c \in Calls, CollectPrimary(c) \/ CollectCopies(c)
      PROVE  Radio1!Next
  <2>1. /\ UNCHANGED <<phase, owner, radiated, age>>
        /\ \A j \in Calls : caller'[j] = "idle" <=> caller[j] = "idle"
    BY <1>8 DEF CollectPrimary, CollectCopies, taskVars, lockVars, airVars, ghosts, TypeOK
  <2>2. \A k \in Tasks : Verdict(k)' = Verdict(k)
    BY <2>1 DEF Verdict
  <2>3. Recent(radiated)' = Recent(radiated)
    BY <2>1 DEF Recent
  <2>. QED  BY <2>1, <2>2, <2>3, Unseen
<1>9. CASE Tick
  <2>1. UNCHANGED <<phase, caller, owner, radiated>> /\ radiated \subseteq Tasks
    BY <1>9 DEF Tick, lockVars, callVars, ghosts, TypeOK
  <2>2. \A k \in radiated : age'[k] < Window => age[k] < Window
    BY <1>9, <2>1 DEF Tick, TypeOK
  <2>3. Recent(radiated)' \in SUBSET Recent(radiated)
    BY <2>1, <2>2 DEF Recent
  <2>4. \A k \in Tasks : Verdict(k)' = Verdict(k)
    BY <2>1 DEF Verdict
  <2>. QED  BY <2>1, <2>3, <2>4, Unseen
<1>10. CASE LinkChange \/ UNCHANGED vars
  <2>1. UNCHANGED <<phase, caller, owner, radiated, age>>
    BY <1>10 DEF LinkChange, vars, taskVars, lockVars, airVars, callVars, ghosts
  <2>2. \A k \in Tasks : Verdict(k)' = Verdict(k)
    BY <2>1 DEF Verdict
  <2>3. Recent(radiated)' = Recent(radiated)
    BY <2>1 DEF Recent
  <2>. QED  BY <2>1, <2>2, <2>3, Unseen
<1>. QED
  BY <1>2, <1>3, <1>4, <1>5, <1>6, <1>7, <1>8, <1>9, <1>10 DEF Next, Handle, DelayedSend, Radio

\* The delayed sends, retries and the lock implement a radio that carries one
\* packet at a time, within the budget, and says once what became of each.
THEOREM RefinesRadio == Spec => ImplementsRadio
<1>1. Init => Radio1!Init
  <2> SUFFICES ASSUME Init PROVE Radio1!Init
    OBVIOUS
  <2>1. Recent(radiated) = {}
    BY DEF Init, Recent
  <2>2. \A k \in Tasks : Verdict(k) = "pending"
    BY DEF Init, Verdict, Settled
  <2>3. [k \in Tasks |-> Verdict(k)] = [k \in Tasks |-> "pending"]
    BY <2>2
  <2>. QED  BY <2>1, <2>3 DEF Radio1!Init, Init
<1>2. IInv /\ [Next]_vars => [Radio1!Next]_(Radio1!vars)
  BY RadioStep DEF IInv
<1>. QED  BY <1>1, <1>2, Invariance, PTL DEF Spec, ImplementsRadio, Radio1!Spec
=============================================================================
