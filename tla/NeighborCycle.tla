-------------------------- MODULE NeighborCycle --------------------------
(***************************************************************************)
(* The neighbours cycle: a discovery window, then a sweep that asks each    *)
(* neighbour for its region scopes, one request at a time, then a publish   *)
(* to the MQTT neighbors topic. It runs by schedule or by hand, next to     *)
(* single queries of the web UI. Answers come late, twice or never; the     *)
(* daemon ends at any point and resumes the schedule from the database.     *)
(*                                                                         *)
(* Times are counts of a coarse unit. A time to go of 0 stands for a        *)
(* deadline that is over and for one that is unset. The cap on the number   *)
(* of neighbours and SQLite errors are left out.                            *)
(***************************************************************************)
EXTENDS Naturals, Sequences

CONSTANTS
    Neighbors,
    Interval,       \* interval_hours
    Retry,          \* min(RETRY_DELAY_SECONDS, interval)
    Grace,          \* STARTUP_GRACE_SECONDS
    Loads           \* bounds: the neighbours there are, the requests sent, and the
                    \* ends of the daemon, changes of the brokers and purges

ASSUME CycleAssumption ==
    /\ Interval \in Nat /\ Retry \in 1..Interval /\ Grace \in 1..Interval
    /\ Loads \subseteq [near : SUBSET Neighbors, asked : Nat, events : Nat]

VARIABLES
    known,      \* neighbours of the adverts table
    rows,       \* neighbor_scopes: the last query, its outcome, the last answer
    broker,     \* the opted-in brokers: "out" (none, or disabled), "down" or "up"
    wasEnabled,
    due,        \* time to go until _next_publish_at
    since,      \* time since last_success_at, up to Interval; the database has it too
    why,        \* what set the schedule; never read
    posted,     \* the task of a manual cycle is created and has not run yet
    cycle,      \* "idle", "discovering" or "sweeping"
    sweep,      \* who holds _sweep_lock, the targets left, the results
    pending,    \* the request of _pending and its future
    asked,      \* whom each request asked; its position is its tag
    up,
    load, events

schedule == <<broker, wasEnabled, due, since, why>>
radio == <<sweep, pending, asked>>
cycleVars == <<known, rows, schedule, posted, cycle, radio, up, load, events>>

NoRow == [query |-> 0, status |-> "unknown", answer |-> 0]
NoResults == [n \in Neighbors |-> [query |-> 0, status |-> "unreached", answer |-> 0]]
SweepFree == [by |-> "nobody", left |-> {}, results |-> NoResults]
NoPending == [tag |-> 0, at |-> "none", answer |-> 0]

CycleInit ==
    /\ known = {} /\ rows = [n \in Neighbors |-> NoRow]
    /\ broker = "up" /\ wasEnabled = FALSE
    /\ due = Grace /\ since = Interval /\ why = "boot"
    /\ posted = FALSE /\ cycle = "idle" /\ sweep = SweepFree /\ pending = NoPending
    /\ asked = <<>> /\ up = TRUE
    /\ load \in Loads /\ events = 0

CycleActive == cycle # "idle"
Event == events < load.events /\ events' = events + 1

---------------------------------------------------------------------------
(* The schedule, looked at every thirty seconds. While a cycle runs, a tick *)
(* that finds it due does nothing.                                          *)

\* Turning the feature off drops the schedule, once it has been on.
\* Mutant: it is dropped as well when the brokers are not yet there after a start.
TickDisabled_AtBoot ==
    /\ up /\ broker = "out"
    /\ due' = 0 /\ why' = IF wasEnabled THEN "cleared" ELSE why
    /\ UNCHANGED <<known, rows, broker, wasEnabled, since, posted, cycle, radio, up, load, events>>

TickDisabled ==
    /\ up /\ broker = "out" /\ wasEnabled
    /\ due' = 0 /\ why' = "cleared"
    /\ UNCHANGED <<known, rows, broker, wasEnabled, since, posted, cycle, radio, up, load, events>>

TickNotYet ==
    /\ up /\ broker # "out"
    /\ broker = "down" \/ due # 0 \/ sweep.by = "query"
    /\ wasEnabled' = TRUE
    /\ UNCHANGED <<known, rows, broker, due, since, why, posted, cycle, radio, up, load, events>>

TickDue ==
    /\ up /\ broker = "up" /\ due = 0 /\ sweep.by # "query" /\ ~CycleActive
    /\ wasEnabled' = TRUE /\ cycle' = "discovering"
    /\ UNCHANGED <<known, rows, broker, due, since, why, posted, radio, up, load, events>>

\* trigger_cycle: refused while a cycle or a query is under way.
Trigger ==
    /\ up /\ ~CycleActive /\ ~posted /\ sweep.by # "query"
    /\ posted' = TRUE
    /\ UNCHANGED <<known, rows, schedule, cycle, radio, up, load, events>>

ManualBegins ==
    /\ up /\ posted
    /\ posted' = FALSE
    /\ cycle' = IF CycleActive THEN cycle ELSE "discovering"
    /\ UNCHANGED <<known, rows, schedule, radio, up, load, events>>

\* The finally of run_cycle: after a publish a whole interval, else a retry.
\* Mutant: no finally; the cycle is over only when it has published.
Rescheduled_NoFinally(published) ==
    /\ cycle' = IF published THEN "idle" ELSE cycle
    /\ due' = IF published THEN Interval ELSE Retry
    /\ why' = IF published THEN "published" ELSE "failed"
    /\ since' = IF published THEN 0 ELSE since

Rescheduled(published) ==
    /\ cycle' = "idle"
    /\ due' = IF published THEN Interval ELSE Retry
    /\ why' = IF published THEN "published" ELSE "failed"
    /\ since' = IF published THEN 0 ELSE since

\* The broker may be gone or refuse the payload.
Published(published) == /\ published => broker = "up"
                        /\ Rescheduled(published)

---------------------------------------------------------------------------
(* Discovery and the sweep. The snapshot is taken once; the table goes on   *)
(* changing.                                                                *)

\* The window closes: who answered is in the table by now. A lock that is held
\* costs the cycle.
DiscoveryOver(seen) ==
    /\ up /\ cycle = "discovering"
    /\ known' = known \cup seen
    /\ IF known' = {}
       THEN /\ \E published \in BOOLEAN : Published(published)
            /\ UNCHANGED sweep
       ELSE IF sweep.by # "nobody"
       THEN Rescheduled(FALSE) /\ UNCHANGED sweep
       ELSE /\ cycle' = "sweeping" /\ sweep' = [SweepFree EXCEPT !.by = "cycle", !.left = known']
            /\ UNCHANGED <<due, since, why>>
    /\ UNCHANGED <<rows, broker, wasEnabled, posted, pending, asked, up, load, events>>

\* query_one: refused while a cycle runs or another query holds the lock.
QueryBegins(n) ==
    /\ up /\ ~CycleActive /\ sweep.by = "nobody" /\ Len(asked) < load.asked
    /\ sweep' = [SweepFree EXCEPT !.by = "query", !.left = {n}]
    /\ UNCHANGED <<known, rows, schedule, posted, cycle, pending, asked, up, load, events>>

Asked == asked[pending.tag]

\* The result of one target; a duty-cycle backlog or the end of the budget
\* leaves the others unreached.
Result(n, status, rest) ==
    /\ sweep' = [sweep EXCEPT !.results[n] = [query |-> pending.tag, status |-> status, answer |-> pending.answer],
                              !.left = rest]
    /\ pending' = NoPending

Ask(n) ==
    /\ up /\ n \in sweep.left /\ pending = NoPending /\ Len(asked) < load.asked
    /\ asked' = Append(asked, n)
    /\ pending' = [tag |-> Len(asked'), at |-> "sending", answer |-> 0]
    /\ UNCHANGED <<known, rows, schedule, posted, cycle, sweep, up, load, events>>

\* The duty cycle refuses the request before it is pending: it has no tag.
Refuse(n) ==
    /\ up /\ n \in sweep.left /\ pending = NoPending
    /\ \E rest \in {{}, sweep.left \ {n}} : Result(n, "failed", rest)
    /\ UNCHANGED <<known, rows, schedule, posted, cycle, asked, up, load, events>>

Abandon ==
    /\ up /\ sweep.left # {} /\ pending = NoPending
    /\ sweep' = [sweep EXCEPT !.left = {}]
    /\ UNCHANGED <<known, rows, schedule, posted, cycle, pending, asked, up, load, events>>

\* The injector returns: the request is on air, or it is not. The answer may
\* have come before that.
Sent ==
    /\ up /\ pending.at \in {"sending", "early"}
    /\ pending' = [pending EXCEPT !.at = IF @ = "early" THEN "answered" ELSE "waiting"]
    /\ UNCHANGED <<known, rows, schedule, posted, cycle, sweep, asked, up, load, events>>

SendFails ==
    /\ up /\ pending.at \in {"sending", "early"}
    /\ \E rest \in {{}, sweep.left \ {Asked}} : Result(Asked, "failed", rest)
    /\ UNCHANGED <<known, rows, schedule, posted, cycle, asked, up, load, events>>

\* process_response_packet, when the answer to the request of that tag is heard:
\* once or again, soon or late. It must come from the neighbour asked, under its
\* secret, and echo the tag; any other goes on to the companions.
\* Mutant: the tag is not compared.
Matches_NoTag(tag) ==
    /\ pending.at \in {"sending", "waiting"}
    /\ asked[tag] = Asked

Matches(tag) ==
    /\ pending.at \in {"sending", "waiting"}
    /\ asked[tag] = Asked /\ tag = pending.tag

Receive(tag) ==
    /\ up /\ Matches(tag)
    /\ pending' = [pending EXCEPT !.at = IF @ = "sending" THEN "early" ELSE "answered", !.answer = tag]
    /\ UNCHANGED <<known, rows, schedule, posted, cycle, sweep, asked, up, load, events>>

Responded ==
    /\ up /\ pending.at = "answered"
    /\ Result(Asked, "responded", sweep.left \ {Asked})
    /\ UNCHANGED <<known, rows, schedule, posted, cycle, asked, up, load, events>>

TimesOut ==
    /\ up /\ pending.at = "waiting"
    /\ Result(Asked, "failed", sweep.left \ {Asked})
    /\ UNCHANGED <<known, rows, schedule, posted, cycle, asked, up, load, events>>

\* record_neighbor_scope: a failed query keeps the last answer.
Row(row, result) ==
    IF result.status = "unreached" THEN row
    ELSE [query |-> result.query, status |-> result.status,
          answer |-> IF result.status = "responded" THEN result.answer ELSE row.answer]

\* The sweep returns; a cycle goes on to publish, a query does not.
SweepOver ==
    /\ up /\ sweep.by # "nobody" /\ sweep.left = {}
    /\ rows' = [n \in Neighbors |-> Row(rows[n], sweep.results[n])]
    /\ sweep' = SweepFree
    /\ IF sweep.by = "cycle"
       THEN \E published \in BOOLEAN : Published(published)
       ELSE UNCHANGED <<cycle, due, since, why>>
    /\ UNCHANGED <<known, broker, wasEnabled, posted, pending, asked, up, load, events>>

---------------------------------------------------------------------------
\* Purging the adverts takes the scopes with it.
Purge ==
    /\ known # {} /\ Event
    /\ known' = {} /\ rows' = [n \in Neighbors |-> NoRow]
    /\ UNCHANGED <<schedule, posted, cycle, radio, up, load>>

BrokerChanges(b) ==
    /\ up /\ b # broker /\ Event
    /\ broker' = b
    /\ UNCHANGED <<known, rows, wasEnabled, due, since, why, posted, cycle, radio, up, load>>

\* Time that passes during a cycle is counted after it: the cycle sets due anew.
Pass ==
    /\ ~CycleActive
    /\ due > 0 \/ since < Interval
    /\ due' = IF due > 0 THEN due - 1 ELSE 0
    /\ since' = IF since < Interval THEN since + 1 ELSE Interval
    /\ UNCHANGED <<known, rows, broker, wasEnabled, why, posted, cycle, radio, up, load, events>>

\* A stop cancels the tasks; a crash ends them.
Ends ==
    /\ up /\ Event
    /\ up' = FALSE
    /\ posted' = FALSE /\ cycle' = "idle" /\ sweep' = SweepFree /\ pending' = NoPending
    /\ UNCHANGED <<known, rows, schedule, asked, load>>

\* _restore_schedule; the brokers have no connections yet.
Boots ==
    /\ ~up /\ up' = TRUE
    /\ due' = IF since = Interval \/ Interval - since < Grace THEN Grace ELSE Interval - since
    /\ why' = "boot" /\ wasEnabled' = FALSE /\ broker' = "out"
    /\ UNCHANGED <<known, rows, since, posted, cycle, radio, load, events>>

SweepStep == Sent \/ SendFails \/ Responded \/ TimesOut \/ SweepOver

CycleNext ==
    \/ TickDisabled \/ TickNotYet \/ TickDue \/ Trigger \/ ManualBegins
    \/ \E seen \in SUBSET load.near : DiscoveryOver(seen)
    \/ \E n \in load.near : QueryBegins(n) \/ Ask(n) \/ Refuse(n)
    \/ Abandon \/ SweepStep
    \/ \E tag \in DOMAIN asked : Receive(tag)
    \/ Purge \/ Pass \/ Ends \/ Boots
    \/ \E b \in {"out", "down", "up"} : BrokerChanges(b)

\* The event loop runs a task that can run; a window and a timeout end; the
\* budget of a sweep ends.
CycleFairness ==
    /\ WF_cycleVars(\E seen \in SUBSET load.near : DiscoveryOver(seen))
    /\ WF_cycleVars(\E n \in load.near : Ask(n)) /\ WF_cycleVars(Abandon)
    /\ WF_cycleVars(SweepStep)

CycleSpec == CycleInit /\ [][CycleNext]_cycleVars /\ CycleFairness

---------------------------------------------------------------------------
(* What the table says of a neighbour is what that neighbour said: the      *)
(* answer on record was given to a request that asked it, and a row that    *)
(* says "responded" has the answer to its latest query, however late and    *)
(* often answers come.                                                      *)
RowsTrue == \A n \in Neighbors :
    LET row == rows[n]
    IN  /\ row.answer # 0 => asked[row.answer] = n
        /\ row.status = "responded" => row.answer = row.query

(* The scheduled cycle starts a whole interval after the last success, also *)
(* across restarts; sooner only to retry a failure of this run or because   *)
(* the operator has turned the feature off and on.                          *)
Spaced == [][cycle = "idle" /\ cycle' = "discovering" /\ posted' = posted =>
                since = Interval \/ why \in {"failed", "cleared"}]_cycleVars

(* A cycle comes to an end and lets the next one run, whoever holds the     *)
(* sweep and whatever the neighbours answer.                                *)
CycleEnds == CycleActive ~> ~CycleActive
=============================================================================
