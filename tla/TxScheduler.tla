---------------------------- MODULE TxScheduler ----------------------------
(***************************************************************************)
(* RepeaterHandler.schedule_retransmit and its callers: delayed sends that *)
(* share one half-duplex radio under _tx_lock, and AirtimeManager's rolling*)
(* duty-cycle window that gates them.                                      *)
(*                                                                         *)
(* A task is one call of schedule_retransmit (the coroutine delayed_send). *)
(* Most tasks carry the packet of one RepeaterHandler.__call__; a task x   *)
(* with Wraps[x] = c # x is a multi-ack copy that rides with c's packet.   *)
(* Time is counted in ticks: timers run down to 0, and age[k] grows from 0 *)
(* when task k's airtime is recorded until it saturates at Window.         *)
(***************************************************************************)
EXTENDS Integers, Sequences, FiniteSets

CONSTANTS
    Tasks,      \* the send tasks of one run
    Local,      \* those that transmit a packet this node originated
    Wraps,      \* Wraps[k]: the task whose packet k is a redundancy copy of, or k
    Air,        \* Air[k]: airtime of k's packet, in airtime units
    NoTask,     \* "the lock is free"
    Window,     \* AirtimeManager.window_size, in ticks
    Budget,     \* max_airtime_per_minute, in airtime units
    Enforced,   \* duty_cycle.enforcement_enabled
    Delays,     \* the retransmit delays _calculate_tx_delay may return
    Backoff,    \* the flat retry pause of a local send
    LinkWait    \* local_tx_link_wait_seconds

ASSUME TaskAssumption ==
    /\ NoTask \notin Tasks
    /\ Wraps \in [Tasks -> Tasks]
    /\ \A k \in Tasks : Wraps[Wraps[k]] = Wraps[k]
    /\ Local \subseteq {k \in Tasks : Wraps[k] = k}
    /\ \A c \in Tasks : IsFiniteSet({k \in Tasks : Wraps[k] = c})

ASSUME TimeAssumption ==
    /\ Window \in Nat \ {0} /\ Budget \in Nat /\ Enforced \in BOOLEAN
    /\ Backoff \in Nat /\ LinkWait \in Nat
    /\ Delays \subseteq Nat
    /\ Air \in [Tasks -> Nat]

VARIABLES
    phase,      \* where each delayed_send coroutine is suspended
    timer,      \* ticks left of its current sleep or link wait
    attempt,    \* index of the retry loop
    owner,      \* holder of _tx_lock
    waiters,    \* tasks queued on _tx_lock (asyncio.Lock wakes them in order)
    history,    \* AirtimeManager.tx_history: tasks with an entry
    age,        \* ticks since the entry was recorded
    link,       \* does the radio report its link usable?
    caller,     \* where the RepeaterHandler.__call__ of each packet stands
    forwarded, dropped,             \* forwarded_count, dropped_count
    radiated, sends                 \* history variables, never read

taskVars == <<phase, timer, attempt>>
lockVars == <<owner, waiters>>
airVars  == <<history, age>>
callVars == <<caller, forwarded, dropped>>
ghosts   == <<radiated, sends>>
vars     == <<taskVars, lockVars, airVars, link, callVars, ghosts>>

Calls     == {k \in Tasks : Wraps[k] = k}
Copies(c) == {k \in Tasks : k # c /\ Wraps[k] = c}
Settled   == {"sent", "failed", "gated", "raised"}
Phases    == {"idle", "delay", "backoff", "link", "lock", "send"} \cup Settled

---------------------------------------------------------------------------
(* AirtimeManager *)

\* The airtime units of a set of entries: its cardinality is the sum of their
\* airtimes.
Units(S) == UNION {{k} \X (1..Air[k]) : k \in S}
Airtime(S) == Cardinality(Units(S))

\* The entries of S that the window still covers.
Recent(S) == {k \in S : age[k] < Window}

\* Mutant: the gate forgets the airtime of the packet it lets through.
Fits_Exclusive(k) == ~Enforced \/ Airtime(Recent(history)) <= Budget

Fits(k) == ~Enforced \/ Airtime(Recent(history)) + Air[k] <= Budget

\* Mutant: entries expire one tick early.
Prune_Early == history' = {k \in history : age[k] + 1 < Window}

\* can_transmit drops the expired entries as a side effect, when enforcement
\* is on.
Prune == history' = IF Enforced THEN Recent(history) ELSE history

Oldest == {k \in Recent(history) : \A j \in Recent(history) : age[j] <= age[k]}

\* The wait can_transmit reports (a singleton): until the oldest entry leaves
\* the window, or one second when nothing is in it.
WaitTimes == IF Recent(history) = {} THEN {1} ELSE {Window - age[k] : k \in Oldest}

---------------------------------------------------------------------------
Init ==
    /\ phase = [k \in Tasks |-> "idle"]
    /\ timer = [k \in Tasks |-> 0]
    /\ attempt = [k \in Tasks |-> 0]
    /\ owner = NoTask /\ waiters = <<>>
    /\ history = {} /\ age = [k \in Tasks |-> 0]
    /\ link \in BOOLEAN
    /\ caller = [c \in Calls |-> "idle"]
    /\ forwarded = 0 /\ dropped = 0
    /\ radiated = {} /\ sends = [k \in Tasks |-> 0]

\* Tasks S start their delay of d ticks.
StartDelay(S, d) ==
    /\ phase' = [k \in Tasks |-> IF k \in S THEN "delay" ELSE phase[k]]
    /\ timer' = [k \in Tasks |-> IF k \in S THEN d ELSE timer[k]]

\* __call__ has a packet to send: its copies are scheduled first, then the
\* advisory duty-cycle check decides for the packet itself.
ScheduleNow(c, d) ==
    /\ caller[c] = "idle" /\ Fits(c)
    /\ Prune
    /\ StartDelay(Copies(c) \cup {c}, d)
    /\ caller' = [caller EXCEPT ![c] = "primary"]
    /\ UNCHANGED <<attempt, lockVars, age, link, forwarded, dropped, ghosts>>

\* Over budget: a local packet waits for the oldest entry to expire.
ScheduleDeferred(c, d) ==
    /\ caller[c] = "idle" /\ ~Fits(c) /\ c \in Local
    /\ Prune
    /\ \E w \in WaitTimes : StartDelay({c}, d + w)
    /\ caller' = [caller EXCEPT ![c] = "primary"]
    /\ UNCHANGED <<attempt, lockVars, age, link, forwarded, dropped, ghosts>>

\* Over budget: a relayed packet is dropped, its copies go out all the same.
RefuseRelay(c, d) ==
    /\ caller[c] = "idle" /\ ~Fits(c) /\ c \notin Local
    /\ Prune
    /\ StartDelay(Copies(c), d)
    /\ caller' = [caller EXCEPT ![c] = "copies"]
    /\ dropped' = dropped + 1
    /\ UNCHANGED <<attempt, lockVars, age, link, forwarded, ghosts>>

---------------------------------------------------------------------------
(* delayed_send *)

\* Task k reaches the retry loop: a local one first makes sure of the link.
\* The caller primes attempt.
Approach(k) ==
    IF k \in Local /\ ~link
    THEN /\ phase' = [phase EXCEPT ![k] = IF LinkWait = 0 THEN "failed" ELSE "link"]
         /\ timer' = [timer EXCEPT ![k] = LinkWait]
         /\ UNCHANGED waiters
    ELSE /\ phase' = [phase EXCEPT ![k] = "lock"]
         /\ waiters' = Append(waiters, k)
         /\ UNCHANGED timer

\* The retransmit delay or the retry backoff is over.
Wake(k) ==
    /\ phase[k] \in {"delay", "backoff"} /\ timer[k] = 0
    /\ Approach(k)
    /\ UNCHANGED <<attempt, owner, airVars, link, callVars, ghosts>>

\* One poll of _await_radio_link finds the link back.
LinkFound(k) ==
    /\ phase[k] = "link" /\ link
    /\ phase' = [phase EXCEPT ![k] = "lock"]
    /\ waiters' = Append(waiters, k)
    /\ UNCHANGED <<timer, attempt, owner, airVars, link, callVars, ghosts>>

\* Mutant: the wait has no deadline.
LinkGiveUp_Never(k) == phase[k] = "link" /\ FALSE /\ UNCHANGED vars

\* The deadline of _await_radio_link passes.
LinkGiveUp(k) ==
    /\ phase[k] = "link" /\ ~link /\ timer[k] = 0
    /\ phase' = [phase EXCEPT ![k] = "failed"]
    /\ UNCHANGED <<timer, attempt, lockVars, airVars, link, callVars, ghosts>>

\* Mutant: the radio is used without holding the lock.
CanLock_Shared(k) == waiters # <<>> /\ k = Head(waiters)

CanLock(k) == owner = NoTask /\ waiters # <<>> /\ k = Head(waiters)

\* The task gets _tx_lock, passes the gate and hands its packet to the radio.
AcquireAndSend(k) ==
    /\ CanLock(k) /\ (Air[k] = 0 \/ Fits(k))
    /\ IF Air[k] = 0 THEN UNCHANGED history ELSE Prune
    /\ owner' = k /\ waiters' = Tail(waiters)
    /\ phase' = [phase EXCEPT ![k] = "send"]
    /\ sends' = [sends EXCEPT ![k] = @ + 1]
    /\ UNCHANGED <<timer, attempt, age, link, callVars, radiated>>

\* The task gets _tx_lock and the authoritative duty-cycle gate turns it away.
AcquireAndDrop(k) ==
    /\ CanLock(k) /\ Air[k] > 0 /\ ~Fits(k)
    /\ Prune
    /\ waiters' = Tail(waiters)
    /\ phase' = [phase EXCEPT ![k] = "gated"]
    /\ UNCHANGED <<timer, attempt, owner, age, link, callVars, ghosts>>

\* Mutant: the loop goes on after a success.
SendOk_Again(k) ==
    /\ phase[k] = "send"
    /\ phase' = [phase EXCEPT ![k] = IF attempt[k] = 0 THEN "backoff" ELSE "sent"]
    /\ attempt' = [attempt EXCEPT ![k] = 1]
    /\ owner' = NoTask /\ radiated' = radiated \cup {k}
    /\ UNCHANGED <<timer, waiters, airVars, link, callVars, sends>>

\* send_packet reports success: the airtime is recorded before the lock goes.
SendOk(k) ==
    /\ phase[k] = "send"
    /\ phase' = [phase EXCEPT ![k] = "sent"]
    /\ owner' = NoTask
    /\ history' = IF Air[k] > 0 THEN history \cup {k} ELSE history
    /\ age' = [age EXCEPT ![k] = 0]
    /\ radiated' = radiated \cup {k}
    /\ UNCHANGED <<timer, attempt, waiters, link, callVars, sends>>

\* The retry loop has an attempt left.
RetryLeft(k) == k \in Local /\ attempt[k] = 0

\* A first local attempt that did not go out: with the link up the task backs
\* off, otherwise it goes straight to waiting for the link. The lock is free
\* either way.
Retry(k) ==
    /\ phase[k] = "send" /\ RetryLeft(k)
    /\ attempt' = [attempt EXCEPT ![k] = 1]
    /\ owner' = NoTask
    /\ IF link
       THEN /\ phase' = [phase EXCEPT ![k] = "backoff"]
            /\ timer' = [timer EXCEPT ![k] = Backoff]
            /\ UNCHANGED waiters
       ELSE Approach(k)
    /\ UNCHANGED <<airVars, link, callVars, ghosts>>

\* send_packet returns False or raises, and no attempt is left.
SendFail(k, outcome) ==
    /\ phase[k] = "send" /\ ~RetryLeft(k)
    /\ phase' = [phase EXCEPT ![k] = outcome]
    /\ owner' = NoTask
    /\ UNCHANGED <<timer, attempt, waiters, airVars, link, callVars, ghosts>>

---------------------------------------------------------------------------
(* RepeaterHandler.__call__ resumes when its task settles *)

\* Mutant: a call whose send raised counts its packet as dropped.
CollectPrimary_Counted(c) ==
    /\ caller[c] = "primary" /\ phase[c] \in Settled
    /\ caller' = [caller EXCEPT ![c] = IF phase[c] = "raised" THEN "raised" ELSE "copies"]
    /\ forwarded' = IF phase[c] = "sent" THEN forwarded + 1 ELSE forwarded
    /\ dropped' = IF phase[c] # "sent" THEN dropped + 1 ELSE dropped
    /\ UNCHANGED <<taskVars, lockVars, airVars, link, ghosts>>

CollectPrimary(c) ==
    /\ caller[c] = "primary" /\ phase[c] \in Settled
    /\ caller' = [caller EXCEPT ![c] = IF phase[c] = "raised" THEN "raised" ELSE "copies"]
    /\ forwarded' = IF phase[c] = "sent" THEN forwarded + 1 ELSE forwarded
    /\ dropped' = IF phase[c] \in {"failed", "gated"} THEN dropped + 1 ELSE dropped
    /\ UNCHANGED <<taskVars, lockVars, airVars, link, ghosts>>

\* Mutant: every copy counts as forwarded.
CopiesSent_All(c) == Copies(c)

CopiesSent(c) == {k \in Copies(c) : phase[k] = "sent"}

\* A failed copy changes no counter.
CollectCopies(c) ==
    /\ caller[c] = "copies" /\ \A k \in Copies(c) : phase[k] \in Settled
    /\ caller' = [caller EXCEPT ![c] = "done"]
    /\ forwarded' = forwarded + Cardinality(CopiesSent(c))
    /\ UNCHANGED <<taskVars, lockVars, airVars, link, dropped, ghosts>>

---------------------------------------------------------------------------
(* Time and the modem *)

Tick ==
    /\ timer' = [k \in Tasks |-> IF timer[k] > 0 THEN timer[k] - 1 ELSE 0]
    /\ age' = [k \in Tasks |-> IF k \in radiated /\ age[k] < Window
                               THEN age[k] + 1 ELSE age[k]]
    /\ UNCHANGED <<phase, attempt, lockVars, history, link, callVars, ghosts>>

LinkChange ==
    /\ link' = ~link
    /\ UNCHANGED <<taskVars, lockVars, airVars, callVars, ghosts>>

Handle(c) == \/ \E d \in Delays : ScheduleNow(c, d) \/ ScheduleDeferred(c, d) \/ RefuseRelay(c, d)
             \/ CollectPrimary(c)
             \/ CollectCopies(c)

Radio(k) == SendOk(k) \/ Retry(k) \/ SendFail(k, "failed") \/ SendFail(k, "raised")

DelayedSend(k) == \/ Wake(k) \/ LinkFound(k) \/ LinkGiveUp(k)
                  \/ AcquireAndSend(k) \/ AcquireAndDrop(k) \/ Radio(k)

Next == \/ \E c \in Calls : Handle(c)
        \/ \E k \in Tasks : DelayedSend(k)
        \/ Tick
        \/ LinkChange

Spec == Init /\ [][Next]_vars

\* The event loop runs every ready coroutine and the clock advances; a send
\* returns (the dispatcher bounds it). Arrivals and link changes are not owed.
Fairness == /\ WF_vars(Tick)
            /\ \A k \in Tasks : WF_vars(DelayedSend(k))
            /\ \A c \in Calls : WF_vars(CollectPrimary(c)) /\ WF_vars(CollectCopies(c))

FairSpec == Spec /\ Fairness

---------------------------------------------------------------------------
(* Properties *)

\* The types of the scheduler's state.
TypeOK ==
    /\ phase \in [Tasks -> Phases]
    /\ timer \in [Tasks -> Nat]
    /\ attempt \in [Tasks -> 0..1]
    /\ owner \in Tasks \cup {NoTask}
    /\ waiters \in Seq(Tasks)
    /\ history \subseteq Tasks
    /\ age \in [Tasks -> 0..Window]
    /\ link \in BOOLEAN
    /\ caller \in [Calls -> {"idle", "primary", "copies", "done", "raised"}]
    /\ forwarded \in Nat /\ dropped \in Nat
    /\ radiated \subseteq Tasks
    /\ sends \in [Tasks -> Nat]

\* The radio is half-duplex: at any time at most one task is inside
\* send_packet, and it is the task that holds _tx_lock; nobody holds the lock
\* while it sleeps, backs off or waits for the link.
HalfDuplex ==
    /\ \A j, k \in Tasks : phase[j] = "send" /\ phase[k] = "send" => j = k
    /\ \A k \in Tasks : owner = k <=> phase[k] = "send"

\* Whatever the interleaving of delays, retries and the advisory checks, the
\* airtime that went out in any window stays within the duty-cycle budget.
DutyCycle == Enforced => Airtime(Recent(radiated)) <= Budget

\* A relayed packet gets one attempt and a local one two; a packet that went
\* out is settled as sent.
AttemptBound ==
    \A k \in Tasks : /\ sends[k] <= (IF k \in Local THEN 2 ELSE 1)
                     /\ k \in radiated => phase[k] = "sent"

\* A packet the radio has accepted is never handed to it again.
NoResend == [][\A k \in radiated : sends'[k] = sends[k]]_vars

\* When no call is in progress, forwarded_count is the number of packets that
\* went out, copies included, for the calls that returned, and dropped_count the
\* number of those calls whose packet did not. A call whose own send raises
\* leaves both as they were, whatever its copies did or still do.
Accounted ==
    (\A c \in Calls : caller[c] \in {"idle", "done", "raised"}) =>
        /\ forwarded = Cardinality({k \in radiated : caller[Wraps[k]] = "done"})
        /\ dropped = Cardinality({c \in Calls : caller[c] = "done" /\ c \notin radiated})

\* Every call ends: no link outage, lock queue or duty-cycle wait holds a
\* caller for ever.
EveryCallEnds ==
    \A c \in Calls : caller[c] # "idle" ~> caller[c] \in {"done", "raised"}

---------------------------------------------------------------------------
(* The inductive invariant behind HalfDuplex, DutyCycle and AttemptBound *)

\* A task exists only once its call has started, and it queues for the lock
\* exactly once.
QueueInv ==
    /\ \A k \in Tasks : caller[Wraps[k]] = "idle" => phase[k] = "idle"
    /\ \A i \in 1..Len(waiters) : phase[waiters[i]] = "lock"
    /\ \A i, j \in 1..Len(waiters) : waiters[i] = waiters[j] => i = j

\* An attempt has been spent on every send but the one in progress.
AttemptInv ==
    \A k \in Tasks :
        /\ k \notin Local => attempt[k] = 0
        /\ sends[k] <= attempt[k] + 1
        /\ phase[k] \in {"idle", "delay", "backoff", "link", "lock"} => sends[k] <= attempt[k]
        /\ k \in radiated => phase[k] = "sent"

\* tx_history holds every recorded airtime that the window still covers, and
\* the packet on the radio fits beside them.
WindowInv ==
    /\ history \subseteq radiated
    /\ \A k \in Recent(radiated) : Air[k] > 0 => k \in history
    /\ IsFiniteSet(Units(radiated))
    /\ Enforced => Airtime(Recent(radiated)) <= Budget
    /\ Enforced /\ owner # NoTask /\ Air[owner] > 0 =>
          Airtime(Recent(radiated)) + Air[owner] <= Budget

IInv == TypeOK /\ HalfDuplex /\ QueueInv /\ AttemptInv /\ WindowInv

---------------------------------------------------------------------------
(* What the scheduler promises: see DutyRadio *)

Verdict(k) ==
    IF k \in radiated THEN "sent"
    ELSE IF phase[k] \in Settled \/ (phase[k] = "idle" /\ k \in Calls /\ caller[k] # "idle")
         THEN "lost"
    ELSE "pending"

Radio1 == INSTANCE DutyRadio WITH
             channel <- owner,
             verdict <- [k \in Tasks |-> Verdict(k)],
             live <- Recent(radiated)

\* The scheduler implements the abstract duty-cycled radio.
ImplementsRadio == Radio1!Spec
=============================================================================
