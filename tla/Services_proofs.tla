-------------------------- MODULE Services_proofs --------------------------
(***************************************************************************)
(* The services beside the packet path, for any neighbours, intervals,     *)
(* timers, channels, threads, calls, keys, adverts and limits: the state   *)
(* of the update service, the broker connection, the neighbours table and  *)
(* its schedule, the configuration, the advert limiter.                    *)
(***************************************************************************)
EXTENDS NeighborCycle, BrokerLink, ConfigStore, UpdateJobs, AdvertLimiter,
        Selection_proofs, SequenceTheorems, TLAPS

---------------------------------------------------------------------------
(* UpdateJobs.                                                              *)

JobType ==
    /\ check \in [1..Jobs -> [at : {"none", "started", "working", "done"}, channel : Channels \cup {nothing}]]
    /\ install \in [1..Jobs -> [at : {"none", "started", "working", "restarted", "stayed"},
                                channel : Channels \cup {nothing}]]
    /\ channel \in Channels
    /\ status \in {"idle", "checking", "installing", "complete", "error"}

\* A check that has read the channel fetches for the selected one, unless it was
\* switched since.
CheckCurrent == \A i \in 1..Jobs :
    check[i].at \in {"working", "done"} => check[i].channel = channel \/ switched

UpdateInv == JobType /\ CheckCurrent /\ StateTrue

\* The state tells the truth however checks and installs overlap, but for the two
\* cases StateTrue excepts: an install thread that raised, and a channel switched
\* under a check (_UpdateState, _do_check, _do_install, set_channel).
THEOREM StateStaysTrue == UpdateSpec => []StateTrue
<1> USE JobsAssumption DEF JobsAssumption
<1>1. UpdateInit => UpdateInv
  BY DEF UpdateInit, NoJobs, NoJob, UpdateInv, JobType, CheckCurrent, StateTrue
<1>2. ASSUME UpdateInv, [UpdateNext]_updateVars PROVE UpdateInv'
  <2> USE <1>2 DEF UpdateInv, JobType, CheckCurrent, StateTrue, Busy, NoJob, NoJobs
  <2>1. CASE CheckBusy
    BY <2>1 DEF CheckBusy, Requested
  <2>2. CASE Restart
    BY <2>2 DEF Restart
  <2>3. CASE TimePasses
    BY <2>3 DEF TimePasses
  <2>4. ASSUME NEW c \in Channels, SetChannel(c) PROVE UpdateInv'
    BY <2>4 DEF SetChannel, Requested
  <2>5. ASSUME NEW i \in 1..Jobs, InstallBegins(i) PROVE UpdateInv'
    <3>1. /\ status' = "installing" /\ install' = [install EXCEPT ![i].at = "started"]
          /\ UNCHANGED <<channel, latest, check, switched>>
      BY <2>5 DEF InstallBegins
    <3>2. install'[i].at = "started" /\ DOMAIN install' = 1..Jobs
      BY <3>1
    <3>. QED  BY <3>1, <3>2
  <2>6. ASSUME NEW i \in 1..Jobs, CheckReads(i) PROVE UpdateInv'
    BY <2>6 DEF CheckReads
  <2>7. ASSUME NEW i \in 1..Jobs, CheckFetched(i) PROVE UpdateInv'
    BY <2>7 DEF CheckFetched
  <2>8. ASSUME NEW i \in 1..Jobs, CheckEnds(i) PROVE UpdateInv'
    BY <2>8 DEF CheckEnds
  <2>9. ASSUME NEW i \in 1..Jobs, CheckFails(i) PROVE UpdateInv'
    BY <2>9 DEF CheckFails
  <2>10. ASSUME NEW i \in 1..Jobs, CheckLimited(i) PROVE UpdateInv'
    BY <2>10 DEF CheckLimited
  <2>11. ASSUME NEW i \in 1..Jobs, InstallReads(i) PROVE UpdateInv'
    BY <2>11 DEF InstallReads
  <2>12. ASSUME NEW i \in 1..Jobs, InstallFails(i) PROVE UpdateInv'
    BY <2>12 DEF InstallFails
  <2>13. ASSUME NEW i \in 1..Jobs, InstallDone(i) PROVE UpdateInv'
    BY <2>13 DEF InstallDone
  <2>14. ASSUME NEW i \in 1..Jobs, InstallEnds(i) PROVE UpdateInv'
    BY <2>14 DEF InstallEnds
  <2>15. ASSUME NEW i \in 1..Jobs, NEW force \in BOOLEAN, CheckBegins(i, force) PROVE UpdateInv'
    BY <2>15 DEF CheckBegins, Requested
  <2>16. ASSUME NEW i \in 1..Jobs, InstallRaises(i) PROVE UpdateInv'
    BY <2>16 DEF InstallRaises
  <2>17. CASE UNCHANGED updateVars
    BY <2>17 DEF updateVars
  <2>. QED
    BY <2>1, <2>2, <2>3, <2>4, <2>5, <2>6, <2>7, <2>8, <2>9, <2>10, <2>11, <2>12, <2>13, <2>14,
       <2>15, <2>16, <2>17 DEF UpdateNext, CheckStep, InstallStep
<1>3. UpdateInv => StateTrue
  BY DEF UpdateInv
<1>. QED  BY <1>1, <1>2, <1>3, PTL DEF UpdateSpec

---------------------------------------------------------------------------
(* BrokerLink.                                                              *)

LinkType ==
    /\ timer \in [1..Timers -> {"free", "armed", "fired", "dialling", "stopped"}]
    /\ start \in {"new", "done", "raised"} /\ connected \in BOOLEAN /\ loop \in BOOLEAN
    /\ leaving \in BOOLEAN /\ refresh \in {"none", "checked", "scheduled"}
    /\ crossed \in BOOLEAN /\ expired \in BOOLEAN

\* Before the first connect nothing runs, and nothing has begun to leave.
NotBegun == start # "done" =>
    /\ ~loop /\ ~leaving /\ ~connected /\ refresh = "none"
    /\ \A i \in 1..Timers : timer[i] = "free"

LinkInv == LinkType /\ NotBegun /\ KeepsTrying

\* A new timer is armed when _schedule_reconnect returns.
LEMMA RearmedTends ==
    ASSUME NEW t \in [1..Timers -> {"free", "armed", "fired", "dialling", "stopped"}], Rearmed(t)
    PROVE  /\ timer' \in [1..Timers -> {"free", "armed", "fired", "dialling", "stopped"}]
           /\ \E i \in 1..Timers : timer'[i] = "armed"
  BY DEF Rearmed, Cancelled

\* The connection is never left with nobody to bring it back, but for the two
\* races (_on_disconnect, _attempt_reconnect, reconnect_for_token_expiry).
THEOREM AlwaysTended == LinkSpec => []KeepsTrying
<1>1. LinkInit => LinkInv
  BY DEF LinkInit, LinkInv, LinkType, NotBegun, KeepsTrying
<1>2. ASSUME LinkInv, [LinkNext]_linkVars PROVE LinkInv'
  <2> USE <1>2 DEF LinkInv, LinkType, NotBegun, KeepsTrying, Tended
  <2>1. CASE Connect
    BY <2>1 DEF Connect
  <2>2. CASE ConnectRaises
    BY <2>2 DEF ConnectRaises, Setback
  <2>3. CASE Accepted
    BY <2>3 DEF Accepted, Cancelled
  <2>4. CASE Refused
    BY <2>4, RearmedTends DEF Refused, Setback
  <2>5. CASE Dropped
    BY <2>5, RearmedTends DEF Dropped, Setback
  <2>6. CASE LoopRetries \/ LoopEnds
    <3>1. CASE LoopRetries
      BY <3>1 DEF LoopRetries
    <3>2. CASE LoopEnds
      BY <3>2 DEF LoopEnds
    <3>. QED  BY <2>6, <3>1, <3>2
  <2>7. ASSUME NEW i \in 1..Timers, Fires(i) PROVE LinkInv'
    BY <2>7 DEF Fires
  <2>8. ASSUME NEW i \in 1..Timers, Checks(i) PROVE LinkInv'
    BY <2>8 DEF Checks
  <2>9. ASSUME NEW i \in 1..Timers, StopsLoop(i) PROVE LinkInv'
    BY <2>9 DEF StopsLoop
  <2>10. ASSUME NEW i \in 1..Timers, Reconnects(i) PROVE LinkInv'
    BY <2>10 DEF Reconnects
  <2>11. ASSUME NEW i \in 1..Timers, ReconnectFails(i) PROVE LinkInv'
    <3>1. /\ timer' \in [1..Timers -> {"free", "armed", "fired", "dialling", "stopped"}]
          /\ \E j \in 1..Timers : timer'[j] = "armed"
      BY <2>11, RearmedTends DEF ReconnectFails
    <3>2. start = "done" /\ (crossed' \/ ~connected')
      BY <2>11 DEF ReconnectFails
    <3>. QED  BY <2>11, <3>1, <3>2 DEF ReconnectFails
  <2>12. CASE ExpiryBegins
    BY <2>12 DEF ExpiryBegins
  <2>13. CASE ExpirySchedules
    BY <2>13, RearmedTends DEF ExpirySchedules
  <2>14. CASE ExpiryLeaves
    BY <2>14 DEF ExpiryLeaves
  <2>15. CASE UNCHANGED linkVars
    BY <2>15 DEF linkVars
  <2>. QED
    BY <2>1, <2>2, <2>3, <2>4, <2>5, <2>6, <2>7, <2>8, <2>9, <2>10, <2>11, <2>12, <2>13, <2>14, <2>15
    DEF LinkNext, Attempt
<1>3. LinkInv => KeepsTrying
  BY DEF LinkInv
<1>. QED  BY <1>1, <1>2, <1>3, PTL DEF LinkSpec

---------------------------------------------------------------------------
(* NeighborCycle: the schedule.                                             *)

\* After a publish, and after a start, what is left of the interval is still to
\* go.
DueInv ==
    /\ due \in Nat /\ since \in 0..Interval /\ why \in {"boot", "published", "failed", "cleared"}
    /\ why \in {"boot", "published"} => since + due >= Interval

\* A scheduled cycle starts a whole interval after the last publish, unless it
\* retries or the operator dropped the schedule (NeighborsPublisher._tick,
\* run_cycle, _restore_schedule).
THEOREM CyclesSpaced == CycleSpec => Spaced
<1> USE CycleAssumption DEF CycleAssumption
<1>1. CycleInit => DueInv
  BY DEF CycleInit, DueInv
<1>2. ASSUME DueInv, [CycleNext]_cycleVars PROVE DueInv'
  <2> USE <1>2 DEF DueInv
  <2>1. ASSUME NEW published \in BOOLEAN, Rescheduled(published) PROVE DueInv'
    BY <2>1 DEF Rescheduled
  <2>2. ASSUME NEW seen, DiscoveryOver(seen) PROVE DueInv'
    BY <2>1, <2>2 DEF DiscoveryOver, Published
  <2>3. CASE SweepOver
    BY <2>1, <2>3 DEF SweepOver, Published
  <2>4. CASE Pass
    BY <2>4 DEF Pass
  <2>5. CASE Boots
    BY <2>5 DEF Boots
  <2>6. CASE TickDisabled
    BY <2>6 DEF TickDisabled
  <2>7. CASE UNCHANGED <<due, since, why>>
    BY <2>7
  <2>. QED
    BY <2>2, <2>3, <2>4, <2>5, <2>6, <2>7
    DEF CycleNext, SweepStep, TickNotYet, TickDue, Trigger, ManualBegins, QueryBegins, Ask, Refuse,
        Abandon, Sent, SendFails, Responded, TimesOut, Receive, Purge, Ends, BrokerChanges, schedule,
        cycleVars
<1>3. ASSUME DueInv, [CycleNext]_cycleVars, cycle = "idle", cycle' = "discovering", posted' = posted
      PROVE  since = Interval \/ why \in {"failed", "cleared"}
  <2>1. TickDue
    BY <1>3 DEF CycleNext, SweepStep, TickDisabled, TickNotYet, Trigger, ManualBegins, DiscoveryOver,
           QueryBegins, Ask, Refuse, Abandon, Sent, SendFails, Responded, TimesOut, SweepOver,
           Published, Rescheduled, Receive, Purge, Pass, Ends, Boots, BrokerChanges, CycleActive, cycleVars
  <2>. QED  BY <1>3, <2>1 DEF TickDue, DueInv
<1>4. DueInv /\ [CycleNext]_cycleVars =>
         [cycle = "idle" /\ cycle' = "discovering" /\ posted' = posted =>
             since = Interval \/ why \in {"failed", "cleared"}]_cycleVars
  BY <1>3
<1>. QED  BY <1>1, <1>2, <1>4, PTL DEF CycleSpec, Spaced

---------------------------------------------------------------------------
(* NeighborCycle: the table.                                                *)

Answers == [query : Nat, status : {"unknown", "unreached", "failed", "responded"}, answer : Nat]
Sweeps == [by : {"nobody", "cycle", "query"}, left : SUBSET Neighbors, results : [Neighbors -> Answers]]
Requests == [tag : Nat, at : {"none", "sending", "early", "waiting", "answered"}, answer : Nat]

SweepType ==
    /\ load \in Loads /\ known \subseteq Neighbors /\ asked \in Seq(Neighbors)
    /\ pending \in Requests /\ sweep \in Sweeps /\ rows \in [Neighbors -> Answers]

\* The request that is pending was sent, and what answered it has its tag.
PendingInv ==
    /\ pending # NoPending => pending.tag \in DOMAIN asked
    /\ pending.at \in {"early", "answered"} => pending.answer = pending.tag

\* An answer, with the query it is on record for.
AnswerOf(n, row) == row.answer \in DOMAIN asked /\ asked[row.answer] = n

TableInv == \A n \in Neighbors :
    /\ sweep.results[n].status = "responded" =>
          AnswerOf(n, sweep.results[n]) /\ sweep.results[n].answer = sweep.results[n].query
    /\ rows[n].answer # 0 => AnswerOf(n, rows[n])
    /\ rows[n].status = "responded" => rows[n].answer = rows[n].query

SweepInv == SweepType /\ PendingInv /\ TableInv

LEMMA Beginnings ==
    /\ SweepFree \in Sweeps /\ NoPending \in Requests /\ NoRow \in Answers /\ NoPending.at = "none"
    /\ \A n \in Neighbors : SweepFree.results[n].status = "unreached"
  BY DEF SweepFree, Sweeps, NoResults, Answers, NoPending, Requests, NoRow

\* A result recorded under the tag of a request, with or without an answer, fits
\* the table.
LEMMA ResultFits ==
    ASSUME SweepInv, NEW n \in Neighbors, NEW what \in {"failed", "responded"},
           NEW rest \in SUBSET sweep.left,
           Result(n, what, rest), UNCHANGED <<known, rows, asked, load>>,
           what = "responded" => pending.at = "answered" /\ n = Asked
    PROVE  SweepInv'
<1> DEFINE result == [query |-> pending.tag, status |-> what, answer |-> pending.answer]
<1>1. result \in Answers
  BY DEF SweepInv, SweepType, Requests, Answers
<1>2. /\ sweep' \in Sweeps
      /\ sweep'.results[n] = result
      /\ \A m \in Neighbors \ {n} : sweep'.results[m] = sweep.results[m]
  BY <1>1 DEF SweepInv, SweepType, Result, Sweeps
<1>3. pending' = NoPending
  BY DEF Result
<1>4. SweepType' /\ PendingInv'
  BY <1>2, <1>3, Beginnings DEF SweepInv, SweepType, PendingInv
<1>5. ASSUME what = "responded" PROVE AnswerOf(n, result) /\ result.answer = result.query
  BY <1>5, Beginnings DEF SweepInv, PendingInv, AnswerOf, Asked
<1>6. TableInv'
  <2>1. ASSUME NEW m \in Neighbors, sweep'.results[m].status = "responded"
        PROVE  AnswerOf(m, sweep'.results[m]) /\ sweep'.results[m].answer = sweep'.results[m].query
    BY <1>2, <1>5, <2>1 DEF SweepInv, TableInv
  <2>. QED  BY <2>1 DEF SweepInv, TableInv, AnswerOf
<1>. QED  BY <1>4, <1>6 DEF SweepInv

\* Steps that leave requests and results alone, or drop them.
LEMMA NothingNew ==
    ASSUME SweepInv, sweep' \in Sweeps, known' \subseteq Neighbors, UNCHANGED <<rows, asked, load>>,
           UNCHANGED pending \/ pending' = NoPending,
           sweep'.results = sweep.results \/ sweep'.results = SweepFree.results
    PROVE  SweepInv'
<1>1. SweepType' /\ PendingInv'
  BY Beginnings DEF SweepInv, SweepType, PendingInv
<1>2. TableInv'
  BY Beginnings DEF SweepInv, TableInv, AnswerOf
<1>. QED  BY <1>1, <1>2 DEF SweepInv

\* The end of a sweep writes its results to the table.
LEMMA WrittenFits ==
    ASSUME SweepInv, rows' = [n \in Neighbors |-> Row(rows[n], sweep.results[n])],
           sweep' = SweepFree, UNCHANGED <<known, asked, pending, load>>
    PROVE  SweepInv'
<1>1. ASSUME NEW n \in Neighbors
      PROVE  /\ rows'[n] \in Answers
             /\ rows'[n] = rows[n]
                \/ /\ rows'[n].status = sweep.results[n].status
                   /\ rows'[n].query = sweep.results[n].query
                   /\ rows'[n].answer = IF sweep.results[n].status = "responded"
                                        THEN sweep.results[n].answer ELSE rows[n].answer
  BY DEF SweepInv, SweepType, Sweeps, Answers, Row
<1>2. SweepType' /\ PendingInv'
  BY <1>1, Beginnings DEF SweepInv, SweepType, PendingInv
<1>3. ASSUME NEW n \in Neighbors
      PROVE  /\ rows'[n].answer # 0 => AnswerOf(n, rows'[n])
             /\ rows'[n].status = "responded" => rows'[n].answer = rows'[n].query
  BY <1>1 DEF SweepInv, TableInv, AnswerOf
<1>4. TableInv'
  BY <1>3, Beginnings DEF TableInv, AnswerOf
<1>. QED  BY <1>2, <1>4 DEF SweepInv

\* What the table says of a neighbour is what it answered to a request that
\* asked it, and to the latest one if the row says so (query_one, _sweep,
\* process_response_packet, record_neighbor_scope).
THEOREM RowsStayTrue == CycleSpec => []RowsTrue
<1> USE CycleAssumption DEF CycleAssumption
<1>1. CycleInit => SweepInv
  <2> SUFFICES ASSUME CycleInit PROVE SweepInv
    OBVIOUS
  <2>1. SweepType /\ PendingInv
    BY Beginnings DEF CycleInit, SweepType, PendingInv
  <2>2. TableInv
    BY Beginnings DEF CycleInit, TableInv, NoRow
  <2>. QED  BY <2>1, <2>2 DEF SweepInv
<1>2. ASSUME SweepInv, [CycleNext]_cycleVars PROVE SweepInv'
  <2> USE <1>2
  <2>1. load.near \subseteq Neighbors /\ (pending # NoPending => Asked \in Neighbors)
    BY DEF SweepInv, SweepType, PendingInv, Asked
  <2>2. ASSUME NEW n \in Neighbors, Ask(n) PROVE SweepInv'
    <3>1. /\ asked' \in Seq(Neighbors) /\ Len(asked') \in DOMAIN asked' /\ Len(asked') \in Nat
          /\ \A i \in DOMAIN asked : i \in DOMAIN asked' /\ asked'[i] = asked[i]
      BY <2>2 DEF Ask, SweepInv, SweepType
    <3>2. SweepType' /\ PendingInv'
      BY <2>2, <3>1 DEF Ask, SweepInv, SweepType, PendingInv, Requests
    <3>3. TableInv'
      BY <2>2, <3>1 DEF Ask, SweepInv, TableInv, AnswerOf
    <3>. QED  BY <3>2, <3>3 DEF SweepInv
  <2>3. ASSUME NEW n \in Neighbors, Refuse(n) PROVE SweepInv'
    BY <2>3, ResultFits DEF Refuse
  <2>4. CASE SendFails \/ Responded \/ TimesOut
    BY <2>1, <2>4, ResultFits, Beginnings DEF SendFails, Responded, TimesOut
  <2>5. CASE Sent
    <3>1. SweepType' /\ PendingInv'
      BY <2>5, Beginnings DEF Sent, SweepInv, SweepType, PendingInv, Requests
    <3>2. TableInv'
      BY <2>5 DEF Sent, SweepInv, TableInv, AnswerOf
    <3>. QED  BY <3>1, <3>2 DEF SweepInv
  <2>6. ASSUME NEW tag \in DOMAIN asked, Receive(tag) PROVE SweepInv'
    <3>1. SweepType' /\ PendingInv'
      BY <2>6, Beginnings DEF Receive, Matches, SweepInv, SweepType, PendingInv, Requests
    <3>2. TableInv'
      BY <2>6 DEF Receive, SweepInv, TableInv, AnswerOf
    <3>. QED  BY <3>1, <3>2 DEF SweepInv
  <2>7. CASE SweepOver
    BY <2>7, WrittenFits DEF SweepOver
  <2>8. ASSUME NEW seen \in SUBSET load.near, DiscoveryOver(seen) PROVE SweepInv'
    <3>1. known' \subseteq Neighbors
      BY <2>1, <2>8 DEF DiscoveryOver, SweepInv, SweepType
    <3>2. \/ UNCHANGED sweep
          \/ sweep' = [SweepFree EXCEPT !.by = "cycle", !.left = known']
      BY <2>8 DEF DiscoveryOver
    <3>3. sweep' \in Sweeps /\ (sweep'.results = sweep.results \/ sweep'.results = SweepFree.results)
      BY <3>1, <3>2, Beginnings DEF SweepInv, SweepType, Sweeps
    <3>. QED  BY <2>8, <3>1, <3>3, NothingNew DEF DiscoveryOver
  <2>9. CASE Purge
    <3>1. SweepType' /\ PendingInv'
      BY <2>9, Beginnings DEF Purge, radio, SweepInv, SweepType, PendingInv
    <3>2. TableInv'
      BY <2>9 DEF Purge, radio, SweepInv, TableInv, AnswerOf, NoRow
    <3>. QED  BY <3>1, <3>2 DEF SweepInv
  <2>10. CASE Ends
    BY <2>10, NothingNew, Beginnings DEF Ends, SweepInv, SweepType
  <2>11. ASSUME NEW n \in Neighbors, QueryBegins(n) PROVE SweepInv'
    <3>1. sweep' \in Sweeps /\ sweep'.results = SweepFree.results
      BY <2>11, Beginnings DEF QueryBegins, Sweeps
    <3>. QED  BY <2>11, <3>1, NothingNew DEF QueryBegins, SweepInv, SweepType
  <2>12. CASE Abandon
    <3>1. sweep' \in Sweeps /\ sweep'.results = sweep.results
      BY <2>12 DEF Abandon, SweepInv, SweepType, Sweeps
    <3>. QED  BY <2>12, <3>1, NothingNew DEF Abandon, SweepInv, SweepType
  <2>13. CASE UNCHANGED <<known, rows, radio, load>>
    BY <2>13, NothingNew DEF radio, SweepInv, SweepType
  <2>. QED
    BY <2>1, <2>2, <2>3, <2>4, <2>5, <2>6, <2>7, <2>8, <2>9, <2>10, <2>11, <2>12, <2>13
    DEF CycleNext, SweepStep, TickDisabled, TickNotYet, TickDue, Trigger, ManualBegins, Pass, Boots,
        BrokerChanges, cycleVars
<1>3. SweepInv => RowsTrue
  BY DEF SweepInv, TableInv, AnswerOf, RowsTrue
<1>. QED  BY <1>1, <1>2, <1>3, PTL DEF CycleSpec

---------------------------------------------------------------------------
(* ConfigStore.                                                             *)

CallPlaces == {"absent", "new", "changed", "staged", "written", "renamed", "opened",
           "saved", "stored", "failed", "cut"}

ConfigType ==
    /\ settings \in Documents /\ applied \in Documents /\ staged \in Documents
    /\ file \in Documents \cup {gone, torn} /\ backup \in Documents \cup {gone, torn}
    /\ call \in [Calls -> CallPlaces] /\ writer \in Calls \cup {nobody}
    /\ replaced \in BOOLEAN /\ running \in {"yes", "no", "refused"}
    /\ failures \in Nat /\ ends \in Nat /\ overlapped \in BOOLEAN

\* Where a call of each kind can stand, who holds the lock, and that no call is
\* under way while the process does not run.
CallInv == \A c \in Calls :
    /\ call[c] \in {"staged", "written"} => KindOf[c] # "synced"
    /\ call[c] = "changed" => KindOf[c] # "staged"
    /\ call[c] \in {"renamed", "opened"} => KindOf[c] = "synced"
    /\ writer = c <=> call[c] = "staged" \/ (call[c] = "written" /\ KindOf[c] = "staged")
    /\ running # "yes" => Over(c) \/ call[c] = "new"

\* Of RefusedUnseen, with what the private copy of the writer may hold.
SeenInv == \A c \in Of("staged"), k \in ConfigKeys :
    /\ settings[k] = c \/ applied[k] = c => Acknowledged(c) \/ call[c] = "cut"
    /\ IsDocument(file) /\ file[k] = c => Acknowledged(c) \/ call[c] \in {"written", "cut"}
    /\ writer # nobody /\ staged[k] = c => c = writer \/ Acknowledged(c) \/ call[c] = "cut"

Troubled == SavingInPlace \cup Broken
OneTroubled == \A c, d \in Troubled : c = d

\* Of DiskWhole, with the backup a save_config relies on while it writes, and
\* with all the places an empty file's loss can get to.
DiskInv ==
    /\ ~IsDocument(file) => Troubled # {}
    /\ \A k \in ConfigKeys :
          settings[k] = lost \/ staged[k] = lost \/ (IsDocument(file) /\ file[k] = lost) => Broken # {}
    /\ \A c \in Calls : call[c] = "opened" /\ replaced => IsDocument(file)
    /\ \A c, d \in SavingInPlace : c = d
    /\ OneTroubled => /\ SavingInPlace # {} => IsDocument(backup)
                      /\ IsDocument(file) \/ IsDocument(backup)

\* Calls whose change is in the dictionary and not yet in the file, or the other
\* way round.
PendingSave(c) ==
    \/ call[c] = "changed"
    \/ KindOf[c] = "direct" /\ call[c] \in {"staged", "failed"}
    \/ KindOf[c] = "staged" /\ call[c] = "written"

\* Calls whose change is in the dictionary and not yet with the handlers.
Unapplied(c) ==
    \/ call[c] = "stored"
    \/ KindOf[c] # "staged" /\ call[c] \in {"changed", "staged", "written", "renamed", "opened", "failed"}

\* Of SavedStands: where the dictionary and the handlers may differ, always.
ToldInv == \A k \in ConfigKeys : running = "yes" /\ applied[k] # settings[k] =>
    \E c \in Calls : ConfigKeyOf[c] = k /\ Unapplied(c)

InDictionary(c) == Acknowledged(c) \/ (KindOf[c] = "direct" /\ call[c] = "written")

\* Of SavedStands: as long as no save_config overlaps another save or breaks
\* off, where the dictionary, the copy and the file may differ, and where none
\* has the first value any more.
CopyInv ==
    /\ writer # nobody => SavingInPlace = {}
    /\ \A c \in Calls : call[c] = "opened" => ~replaced
    /\ \A k \in ConfigKeys : writer # nobody /\ staged[k] # settings[k] =>
          \/ \E c \in Calls : ConfigKeyOf[c] = k /\ call[c] = "changed"
          \/ KindOf[writer] = "staged" /\ ConfigKeyOf[writer] = k
    /\ \A c \in Of("staged") :
          /\ writer = c => staged[ConfigKeyOf[c]] = c
          /\ call[c] = "written" => file = staged

AgreeInv == \A k \in ConfigKeys : running = "yes" /\ IsDocument(file) /\ file[k] # settings[k] =>
    \E c \in Calls : ConfigKeyOf[c] = k /\ PendingSave(c)

ChangedBy(c) == KindOf[c] # "staged" /\ call[c] \in {"changed", "staged", "renamed", "opened"}
CopiedOut(c) == KindOf[c] = "direct" /\ call[c] = "staged"

KeptInv == \A c \in Calls :
    /\ InDictionary(c) \/ ChangedBy(c) => settings[ConfigKeyOf[c]] # old
    /\ InDictionary(c) /\ IsDocument(file) => file[ConfigKeyOf[c]] # old
    /\ CopiedOut(c) \/ (InDictionary(c) /\ writer # nobody) => staged[ConfigKeyOf[c]] # old

Undisturbed == ~overlapped /\ Broken = {}

StandInv == Undisturbed => CopyInv /\ AgreeInv /\ KeptInv

ConfigInv == ConfigType /\ CallInv /\ SeenInv /\ DiskInv /\ ToldInv /\ StandInv

---------------------------------------------------------------------------
(* Every step keeps each part of the invariant. *)

\* The types.
LEMMA ConfigTypeStep ==
    ASSUME ConfigType, [ConfigNext]_configVars
    PROVE  ConfigType'
<1> USE ConfigAssumption, DocumentAssumption DEF ConfigAssumption, DocumentAssumption, ConfigType,
Documents, CallPlaces
<1>1. ASSUME NEW c \in Calls, Stage(c) PROVE ConfigType'
  BY <1>1 DEF Stage, At, Goes, Overlaps
<1>2. ASSUME NEW c \in Calls, Change(c) PROVE ConfigType'
  BY <1>2 DEF Change, At, Goes
<1>3. ASSUME NEW c \in Calls, CopyOut(c) PROVE ConfigType'
  BY <1>3 DEF CopyOut, At, Goes, Overlaps
<1>4. ASSUME NEW c \in Calls, Replace(c) PROVE ConfigType'
  BY <1>4 DEF Replace, At, Goes, Overlaps
<1>5. ASSUME NEW c \in Calls, FailToReplace(c) PROVE ConfigType'
  BY <1>5 DEF FailToReplace, At, Goes, Fails, Reread
<1>6. ASSUME NEW c \in Calls, Publish(c) PROVE ConfigType'
  BY <1>6 DEF Publish, At, Goes, LiveUpdate, Reread
<1>7. ASSUME NEW c \in Calls, Apply(c) PROVE ConfigType'
  BY <1>7 DEF Apply, At, Goes, LiveUpdate, Reread
<1>8. ASSUME NEW c \in Calls, Rename(c) PROVE ConfigType'
  BY <1>8 DEF Rename, At, Goes, Overlaps
<1>9. ASSUME NEW c \in Calls, Open(c) PROVE ConfigType'
  BY <1>9 DEF Open, At, Goes, Overlaps
<1>10. ASSUME NEW c \in Calls, Dump(c) PROVE ConfigType'
  BY <1>10 DEF Dump, At, Goes, Overlaps
<1>11. ASSUME NEW c \in Calls, FailInPlace(c) PROVE ConfigType'
  BY <1>11 DEF FailInPlace, At, Goes, Fails
<1>12. CASE End
  BY <1>12 DEF End, Over
<1>13. CASE Begin
  BY <1>13 DEF Begin, Reread, IsDocument
<1>14. CASE UNCHANGED configVars
  BY <1>14 DEF configVars
<1>15. QED
  BY <1>1, <1>2, <1>3, <1>4, <1>5, <1>6, <1>7, <1>8, <1>9, <1>10, <1>11, <1>12, <1>13, <1>14
     DEF ConfigNext, ConfigStep

\* The lock has one holder, and calls of each kind keep to their places.
LEMMA CallStep ==
    ASSUME ConfigType, CallInv, [ConfigNext]_configVars
    PROVE  CallInv'
<1> USE ConfigAssumption, DocumentAssumption DEF ConfigAssumption, DocumentAssumption, ConfigType,
CallInv, CallPlaces, Over
<1>1. ASSUME NEW c \in Calls, Stage(c) PROVE CallInv'
  BY <1>1 DEF Stage, At, Goes, Overlaps
<1>2. ASSUME NEW c \in Calls, Change(c) PROVE CallInv'
  BY <1>2 DEF Change, At, Goes
<1>3. ASSUME NEW c \in Calls, CopyOut(c) PROVE CallInv'
  BY <1>3 DEF CopyOut, At, Goes, Overlaps
<1>4. ASSUME NEW c \in Calls, Replace(c) PROVE CallInv'
  BY <1>4 DEF Replace, At, Goes, Overlaps
<1>5. ASSUME NEW c \in Calls, FailToReplace(c) PROVE CallInv'
  BY <1>5 DEF FailToReplace, At, Goes, Fails, Reread
<1>6. ASSUME NEW c \in Calls, Publish(c) PROVE CallInv'
  BY <1>6 DEF Publish, At, Goes, LiveUpdate, Reread
<1>7. ASSUME NEW c \in Calls, Apply(c) PROVE CallInv'
  BY <1>7 DEF Apply, At, Goes, LiveUpdate, Reread
<1>8. ASSUME NEW c \in Calls, Rename(c) PROVE CallInv'
  BY <1>8 DEF Rename, At, Goes, Overlaps
<1>9. ASSUME NEW c \in Calls, Open(c) PROVE CallInv'
  BY <1>9 DEF Open, At, Goes, Overlaps
<1>10. ASSUME NEW c \in Calls, Dump(c) PROVE CallInv'
  BY <1>10 DEF Dump, At, Goes, Overlaps
<1>11. ASSUME NEW c \in Calls, FailInPlace(c) PROVE CallInv'
  BY <1>11 DEF FailInPlace, At, Goes, Fails
<1>12. CASE End
  BY <1>12 DEF End, Over
<1>13. CASE Begin
  BY <1>13 DEF Begin, Reread, IsDocument
<1>14. CASE UNCHANGED configVars
  BY <1>14 DEF configVars
<1>15. QED
  BY <1>1, <1>2, <1>3, <1>4, <1>5, <1>6, <1>7, <1>8, <1>9, <1>10, <1>11, <1>12, <1>13, <1>14
     DEF ConfigNext, ConfigStep

\* A refused update does not get anywhere.
LEMMA SeenStep ==
    ASSUME ConfigType, CallInv, SeenInv, [ConfigNext]_configVars
    PROVE  SeenInv'
<1> USE ConfigAssumption, DocumentAssumption DEF ConfigAssumption, DocumentAssumption, ConfigType,
CallInv, SeenInv, Acknowledged, Documents, CallPlaces, Of, Over, IsDocument
<1>1. ASSUME NEW c \in Calls, Stage(c) PROVE SeenInv'
  BY <1>1 DEF Stage, At, Goes, Overlaps
<1>2. ASSUME NEW c \in Calls, Change(c) PROVE SeenInv'
  BY <1>2 DEF Change, At, Goes
<1>3. ASSUME NEW c \in Calls, CopyOut(c) PROVE SeenInv'
  BY <1>3 DEF CopyOut, At, Goes, Overlaps
<1>4. ASSUME NEW c \in Calls, Replace(c) PROVE SeenInv'
  BY <1>4 DEF Replace, At, Goes, Overlaps
<1>5. ASSUME NEW c \in Calls, FailToReplace(c) PROVE SeenInv'
  BY <1>5 DEF FailToReplace, At, Goes, Fails, Reread
<1>6. ASSUME NEW c \in Calls, Publish(c) PROVE SeenInv'
  BY <1>6 DEF Publish, At, Goes, LiveUpdate, Reread
<1>7. ASSUME NEW c \in Calls, Apply(c) PROVE SeenInv'
  BY <1>7 DEF Apply, At, Goes, LiveUpdate, Reread
<1>8. ASSUME NEW c \in Calls, Rename(c) PROVE SeenInv'
  BY <1>8 DEF Rename, At, Goes, Overlaps
<1>9. ASSUME NEW c \in Calls, Open(c) PROVE SeenInv'
  BY <1>9 DEF Open, At, Goes, Overlaps
<1>10. ASSUME NEW c \in Calls, Dump(c) PROVE SeenInv'
  BY <1>10 DEF Dump, At, Goes, Overlaps
<1>11. ASSUME NEW c \in Calls, FailInPlace(c) PROVE SeenInv'
  BY <1>11 DEF FailInPlace, At, Goes, Fails
<1>12. CASE End
  BY <1>12 DEF End, Over
<1>13. CASE Begin
  BY <1>13 DEF Begin, Reread, IsDocument
<1>14. CASE UNCHANGED configVars
  BY <1>14 DEF configVars
<1>15. QED
  BY <1>1, <1>2, <1>3, <1>4, <1>5, <1>6, <1>7, <1>8, <1>9, <1>10, <1>11, <1>12, <1>13, <1>14
     DEF ConfigNext, ConfigStep

\* The disk, through a save_config and what it may leave broken.
LEMMA DiskStep ==
    ASSUME ConfigType, CallInv, DiskInv, [ConfigNext]_configVars
    PROVE  DiskInv'
<1> USE ConfigAssumption, DocumentAssumption DEF ConfigAssumption, DocumentAssumption, ConfigType,
CallInv, DiskInv, Documents, CallPlaces, Of, Over, IsDocument, SavingInPlace, Synced, Broken,
Troubled, OneTroubled
<1>1. ASSUME NEW c \in Calls, Stage(c) PROVE DiskInv'
  BY <1>1 DEF Stage, At, Goes, Overlaps
<1>2. ASSUME NEW c \in Calls, Change(c) PROVE DiskInv'
  BY <1>2 DEF Change, At, Goes
<1>3. ASSUME NEW c \in Calls, CopyOut(c) PROVE DiskInv'
  BY <1>3 DEF CopyOut, At, Goes, Overlaps
<1>4. ASSUME NEW c \in Calls, Replace(c) PROVE DiskInv'
  BY <1>4 DEF Replace, At, Goes, Overlaps
<1>5. ASSUME NEW c \in Calls, FailToReplace(c) PROVE DiskInv'
  BY <1>5 DEF FailToReplace, At, Goes, Fails, Reread
<1>6. ASSUME NEW c \in Calls, Publish(c) PROVE DiskInv'
  BY <1>6 DEF Publish, At, Goes, LiveUpdate, Reread
<1>7. ASSUME NEW c \in Calls, Apply(c) PROVE DiskInv'
  BY <1>7 DEF Apply, At, Goes, LiveUpdate, Reread
<1>8. ASSUME NEW c \in Calls, Rename(c) PROVE DiskInv'
  BY <1>8 DEF Rename, At, Goes, Overlaps
<1>9. ASSUME NEW c \in Calls, Open(c) PROVE DiskInv'
  BY <1>9 DEF Open, At, Goes, Overlaps
<1>10. ASSUME NEW c \in Calls, Dump(c) PROVE DiskInv'
  BY <1>10 DEF Dump, At, Goes, Overlaps
<1>11. ASSUME NEW c \in Calls, FailInPlace(c) PROVE DiskInv'
  BY <1>11 DEF FailInPlace, At, Goes, Fails
<1>12. CASE End
  <2>1. Troubled \subseteq Troubled' /\ Broken \subseteq Broken'
    BY <1>12 DEF End
  <2>2. SavingInPlace' = {} /\ \A c \in Calls : call'[c] # "opened"
    BY <1>12 DEF End
  <2>3. OneTroubled' => OneTroubled
    BY <2>1 DEF OneTroubled
  <2>4. UNCHANGED <<settings, staged, file, backup>>
    BY <1>12 DEF End
  <2>. QED  BY <2>1, <2>2, <2>3, <2>4
<1>13. CASE Begin
  BY <1>13 DEF Begin, Reread, IsDocument
<1>14. CASE UNCHANGED configVars
  BY <1>14 DEF configVars
<1>15. QED
  BY <1>1, <1>2, <1>3, <1>4, <1>5, <1>6, <1>7, <1>8, <1>9, <1>10, <1>11, <1>12, <1>13, <1>14
     DEF ConfigNext, ConfigStep

\* The handlers.
LEMMA ToldStep ==
    ASSUME ConfigType, CallInv, ToldInv, [ConfigNext]_configVars
    PROVE  ToldInv'
<1> USE ConfigAssumption, DocumentAssumption DEF ConfigAssumption, DocumentAssumption, ConfigType,
CallInv, ToldInv, Unapplied, Documents, CallPlaces
<1>1. ASSUME NEW c \in Calls, Stage(c) PROVE ToldInv'
  BY <1>1 DEF Stage, At, Goes
<1>2. ASSUME NEW c \in Calls, Change(c) PROVE ToldInv'
  BY <1>2 DEF Change, At, Goes
<1>3. ASSUME NEW c \in Calls, CopyOut(c) PROVE ToldInv'
  BY <1>3 DEF CopyOut, At, Goes
<1>4. ASSUME NEW c \in Calls, Replace(c) PROVE ToldInv'
  BY <1>4 DEF Replace, At, Goes
<1>5. ASSUME NEW c \in Calls, FailToReplace(c) PROVE ToldInv'
  BY <1>5 DEF FailToReplace, At, Goes, Reread
<1>6. ASSUME NEW c \in Calls, Publish(c) PROVE ToldInv'
  BY <1>6 DEF Publish, At, Goes, LiveUpdate, Reread
<1>7. ASSUME NEW c \in Calls, Apply(c) PROVE ToldInv'
  BY <1>7 DEF Apply, At, Goes, LiveUpdate, Reread
<1>8. ASSUME NEW c \in Calls, Rename(c) PROVE ToldInv'
  BY <1>8 DEF Rename, At, Goes
<1>9. ASSUME NEW c \in Calls, Open(c) PROVE ToldInv'
  BY <1>9 DEF Open, At, Goes
<1>10. ASSUME NEW c \in Calls, Dump(c) PROVE ToldInv'
  BY <1>10 DEF Dump, At, Goes
<1>11. ASSUME NEW c \in Calls, FailInPlace(c) PROVE ToldInv'
  BY <1>11 DEF FailInPlace, At, Goes
<1>12. CASE End
  BY <1>12 DEF End
<1>13. CASE Begin
  BY <1>13 DEF Begin, Reread
<1>14. CASE UNCHANGED configVars
  BY <1>14 DEF configVars
<1>15. QED
  BY <1>1, <1>2, <1>3, <1>4, <1>5, <1>6, <1>7, <1>8, <1>9, <1>10, <1>11, <1>12, <1>13, <1>14
     DEF ConfigNext, ConfigStep

\* Overlaps and broken save_configs are never undone.
LEMMA StillUndisturbed ==
    ASSUME ConfigType, [ConfigNext]_configVars, Undisturbed'
    PROVE  Undisturbed
<1> USE DEF ConfigType, Undisturbed, Broken, Synced, Of, At, Goes, CallPlaces
<1>1. CASE End
  BY <1>1 DEF End, Over
<1>2. CASE Begin
  BY <1>2 DEF Begin
<1>3. ASSUME NEW c \in Calls, ConfigStep(c) PROVE Undisturbed
  BY <1>3 DEF ConfigStep, Stage, Change, CopyOut, Replace, FailToReplace, Publish, Apply,
              Rename, Open, Dump, FailInPlace, Overlaps, LiveUpdate
<1>4. CASE UNCHANGED configVars
  BY <1>4 DEF configVars
<1>5. QED
  BY <1>1, <1>2, <1>3, <1>4 DEF ConfigNext

\* The copy of the writer.
LEMMA CopyStep ==
    ASSUME ConfigType, CallInv, SeenInv, DiskInv, CopyInv, AgreeInv, KeptInv, Undisturbed, Undisturbed', [ConfigNext]_configVars
    PROVE  CopyInv'
<1> USE ConfigAssumption, DocumentAssumption DEF ConfigAssumption, DocumentAssumption, ConfigType,
CallInv, DiskInv, Undisturbed, CopyInv, Documents, CallPlaces, Of, Over, IsDocument, SavingInPlace,
Synced, Broken, Troubled
<1>1. ASSUME NEW c \in Calls, Stage(c) PROVE CopyInv'
  <2>1. SavingInPlace = {}
    BY <1>1 DEF Stage, Overlaps
  <2>2. \A k \in ConfigKeys : staged'[k] # settings'[k] => k = ConfigKeyOf[c]
    BY <1>1 DEF Stage
  <2>3. \A d \in Calls : call'[d] \in {"written", "renamed", "opened"} => call[d] = call'[d] /\ d # c
    BY <1>1 DEF Stage, Goes
  <2>4. \A d \in Of("staged") : call[d] # "written"
    BY <1>1 DEF Stage
  <2>5. writer' = c /\ KindOf[c] = "staged" /\ staged'[ConfigKeyOf[c]] = c /\ replaced' = replaced
    BY <1>1 DEF Stage
  <2>. QED  BY <2>1, <2>2, <2>3, <2>4, <2>5
<1>2. ASSUME NEW c \in Calls, Change(c) PROVE CopyInv'
  BY <1>2 DEF Change, At, Goes
<1>3. ASSUME NEW c \in Calls, CopyOut(c) PROVE CopyInv'
  <2>1. SavingInPlace = {}
    BY <1>3 DEF CopyOut, Overlaps
  <2>2. staged' = settings' /\ writer' = c /\ KindOf[c] = "direct" /\ replaced' = replaced
    BY <1>3 DEF CopyOut
  <2>3. \A d \in Calls : call'[d] \in {"written", "renamed", "opened"} => call[d] = call'[d] /\ d # c
    BY <1>3 DEF CopyOut, Goes
  <2>4. \A d \in Of("staged") : call[d] # "written"
    BY <1>3 DEF CopyOut
  <2>. QED  BY <2>1, <2>2, <2>3, <2>4
<1>4. ASSUME NEW c \in Calls, Replace(c) PROVE CopyInv'
  BY <1>4 DEF Replace, At, Goes, Overlaps
<1>5. ASSUME NEW c \in Calls, FailToReplace(c) PROVE CopyInv'
  BY <1>5 DEF FailToReplace, At, Goes, Fails, Reread
<1>6. ASSUME NEW c \in Calls, Publish(c) PROVE CopyInv'
  BY <1>6 DEF Publish, At, Goes, LiveUpdate, Reread
<1>7. ASSUME NEW c \in Calls, Apply(c) PROVE CopyInv'
  BY <1>7 DEF Apply, At, Goes, LiveUpdate, Reread
<1>8. ASSUME NEW c \in Calls, Rename(c) PROVE CopyInv'
  <2>1. writer = nobody /\ writer' = nobody
    BY <1>8 DEF Rename, Overlaps
  <2>2. \A d \in Calls : call'[d] = "opened" => call[d] = "opened"
    BY <1>8 DEF Rename, At, Goes
  <2>3. \A d \in Of("staged") : call'[d] # "written"
    BY <1>8, <2>1 DEF Rename, At, Goes
  <2>4. replaced' = replaced
    BY <1>8 DEF Rename
  <2>. QED  BY <2>1, <2>2, <2>3, <2>4
<1>9. ASSUME NEW c \in Calls, Open(c) PROVE CopyInv'
  BY <1>9 DEF Open, At, Goes, Overlaps
<1>10. ASSUME NEW c \in Calls, Dump(c) PROVE CopyInv'
  BY <1>10 DEF Dump, At, Goes, Overlaps
<1>11. ASSUME NEW c \in Calls, FailInPlace(c) PROVE CopyInv'
  BY <1>11 DEF FailInPlace, At, Goes, Fails
<1>12. CASE End
  BY <1>12 DEF End, Over
<1>13. CASE Begin
  BY <1>13 DEF Begin, Reread, IsDocument
<1>14. CASE UNCHANGED configVars
  BY <1>14 DEF configVars
<1>15. QED
  BY <1>1, <1>2, <1>3, <1>4, <1>5, <1>6, <1>7, <1>8, <1>9, <1>10, <1>11, <1>12, <1>13, <1>14
     DEF ConfigNext, ConfigStep

\* The dictionary and the file.
LEMMA AgreeStep ==
    ASSUME ConfigType, CallInv, SeenInv, DiskInv, CopyInv, AgreeInv, KeptInv, Undisturbed, Undisturbed', [ConfigNext]_configVars
    PROVE  AgreeInv'
<1> USE ConfigAssumption, DocumentAssumption DEF ConfigAssumption, DocumentAssumption, ConfigType,
CallInv, DiskInv, Undisturbed, CopyInv, AgreeInv, PendingSave, Documents, CallPlaces, Of, Over,
IsDocument, SavingInPlace, Synced, Broken, Troubled
<1>1. ASSUME NEW c \in Calls, Stage(c) PROVE AgreeInv'
  BY <1>1 DEF Stage, At, Goes, Overlaps
<1>2. ASSUME NEW c \in Calls, Change(c) PROVE AgreeInv'
  BY <1>2 DEF Change, At, Goes
<1>3. ASSUME NEW c \in Calls, CopyOut(c) PROVE AgreeInv'
  BY <1>3 DEF CopyOut, At, Goes, Overlaps
<1>4. ASSUME NEW c \in Calls, Replace(c) PROVE AgreeInv'
  BY <1>4 DEF Replace, At, Goes, Overlaps
<1>5. ASSUME NEW c \in Calls, FailToReplace(c) PROVE AgreeInv'
  BY <1>5 DEF FailToReplace, At, Goes, Fails, Reread
<1>6. ASSUME NEW c \in Calls, Publish(c) PROVE AgreeInv'
  BY <1>6 DEF Publish, At, Goes, LiveUpdate, Reread
<1>7. ASSUME NEW c \in Calls, Apply(c) PROVE AgreeInv'
  BY <1>7 DEF Apply, At, Goes, LiveUpdate, Reread
<1>8. ASSUME NEW c \in Calls, Rename(c) PROVE AgreeInv'
  BY <1>8 DEF Rename, At, Goes, Overlaps
<1>9. ASSUME NEW c \in Calls, Open(c) PROVE AgreeInv'
  BY <1>9 DEF Open, At, Goes, Overlaps
<1>10. ASSUME NEW c \in Calls, Dump(c) PROVE AgreeInv'
  BY <1>10 DEF Dump, At, Goes, Overlaps
<1>11. ASSUME NEW c \in Calls, FailInPlace(c) PROVE AgreeInv'
  BY <1>11 DEF FailInPlace, At, Goes, Fails
<1>12. CASE End
  BY <1>12 DEF End, Over
<1>13. CASE Begin
  BY <1>13 DEF Begin, Reread, IsDocument
<1>14. CASE UNCHANGED configVars
  BY <1>14 DEF configVars
<1>15. QED
  BY <1>1, <1>2, <1>3, <1>4, <1>5, <1>6, <1>7, <1>8, <1>9, <1>10, <1>11, <1>12, <1>13, <1>14
     DEF ConfigNext, ConfigStep

\* What was saved.
LEMMA KeptStep ==
    ASSUME ConfigType, CallInv, SeenInv, DiskInv, CopyInv, AgreeInv, KeptInv, Undisturbed, Undisturbed', [ConfigNext]_configVars
    PROVE  KeptInv'
<1> USE ConfigAssumption, DocumentAssumption DEF ConfigAssumption, DocumentAssumption, ConfigType,
CallInv, DiskInv, Undisturbed, CopyInv, KeptInv, InDictionary, Acknowledged, ChangedBy, CopiedOut,
Documents, CallPlaces, Of, Over, IsDocument, SavingInPlace, Synced, Broken, Troubled
<1>1. ASSUME NEW c \in Calls, Stage(c) PROVE KeptInv'
  BY <1>1 DEF Stage, At, Goes, Overlaps
<1>2. ASSUME NEW c \in Calls, Change(c) PROVE KeptInv'
  BY <1>2 DEF Change, At, Goes
<1>3. ASSUME NEW c \in Calls, CopyOut(c) PROVE KeptInv'
  BY <1>3 DEF CopyOut, At, Goes, Overlaps
<1>4. ASSUME NEW c \in Calls, Replace(c) PROVE KeptInv'
  <2>1. file' = staged /\ writer = c /\ UNCHANGED <<settings, staged>>
    BY <1>4 DEF Replace, At
  <2>2. ASSUME NEW d \in Calls, InDictionary(d)' PROVE InDictionary(d) \/ (d = c /\ CopiedOut(c))
    BY <1>4, <2>2 DEF Replace, At, Goes
  <2>3. ASSUME NEW d \in Calls, ChangedBy(d)' \/ CopiedOut(d)' PROVE call'[d] = call[d]
    BY <1>4, <2>3 DEF Replace, Goes
  <2>4. \A d \in Calls : InDictionary(d) \/ CopiedOut(d) =>
           settings[ConfigKeyOf[d]] # old /\ staged[ConfigKeyOf[d]] # old
    BY <2>1
  <2>5. ASSUME NEW d \in Calls
        PROVE  /\ InDictionary(d)' \/ ChangedBy(d)' => settings'[ConfigKeyOf[d]] # old
               /\ InDictionary(d)' => file'[ConfigKeyOf[d]] # old
               /\ CopiedOut(d)' \/ InDictionary(d)' => staged'[ConfigKeyOf[d]] # old
    BY <2>1, <2>2, <2>3, <2>4
  <2>. QED  BY <2>5
<1>5. ASSUME NEW c \in Calls, FailToReplace(c) PROVE KeptInv'
  BY <1>5 DEF FailToReplace, At, Goes, Fails, Reread
<1>6. ASSUME NEW c \in Calls, Publish(c) PROVE KeptInv'
  BY <1>6 DEF Publish, At, Goes, LiveUpdate, Reread
<1>7. ASSUME NEW c \in Calls, Apply(c) PROVE KeptInv'
  BY <1>7 DEF Apply, At, Goes, LiveUpdate, Reread
<1>8. ASSUME NEW c \in Calls, Rename(c) PROVE KeptInv'
  BY <1>8 DEF Rename, At, Goes, Overlaps
<1>9. ASSUME NEW c \in Calls, Open(c) PROVE KeptInv'
  BY <1>9 DEF Open, At, Goes, Overlaps
<1>10. ASSUME NEW c \in Calls, Dump(c) PROVE KeptInv'
  <2>1. file' = settings /\ writer' = nobody /\ UNCHANGED settings
    BY <1>10 DEF Dump, At, Overlaps
  <2>2. ASSUME NEW d \in Calls, InDictionary(d)' \/ ChangedBy(d)' PROVE InDictionary(d) \/ ChangedBy(d)
    BY <1>10, <2>2 DEF Dump, At, Goes
  <2>3. ASSUME NEW d \in Calls PROVE ~CopiedOut(d)'
    BY <1>10 DEF Dump, At, Goes, Overlaps
  <2>4. ASSUME NEW d \in Calls
        PROVE  InDictionary(d)' \/ ChangedBy(d)' => settings[ConfigKeyOf[d]] # old
    BY <2>2
  <2>. QED  BY <2>1, <2>3, <2>4
<1>11. ASSUME NEW c \in Calls, FailInPlace(c) PROVE KeptInv'
  BY <1>11 DEF FailInPlace, At, Goes, Fails
<1>12. CASE End
  <2>1. UNCHANGED <<settings, file>> /\ writer' = nobody
    BY <1>12 DEF End
  <2>2. ASSUME NEW d \in Calls PROVE ~ChangedBy(d)' /\ ~CopiedOut(d)' /\ (InDictionary(d)' => InDictionary(d))
    BY <1>12 DEF End
  <2>. QED  BY <2>1, <2>2
<1>13. CASE Begin
  BY <1>13 DEF Begin, Reread, IsDocument
<1>14. CASE UNCHANGED configVars
  BY <1>14 DEF configVars
<1>15. QED
  BY <1>1, <1>2, <1>3, <1>4, <1>5, <1>6, <1>7, <1>8, <1>9, <1>10, <1>11, <1>12, <1>13, <1>14
     DEF ConfigNext, ConfigStep

---------------------------------------------------------------------------
(* The theorems. *)

\* A call has not begun at the start, and the file holds the dictionary.
LEMMA ConfigInitInv ==
    ASSUME ConfigInit
    PROVE  ConfigInv
<1> USE ConfigAssumption, DocumentAssumption
    DEF ConfigAssumption, DocumentAssumption, ConfigInit, Documents, IsDocument, Of, Synced,
    SavingInPlace, Broken, Troubled
<1>1. ConfigType
  BY DEF ConfigType, CallPlaces
<1>2. \A c \in Calls : call[c] \in {"new", "absent"}
  OBVIOUS
<1>3. CallInv /\ SeenInv
  BY <1>2 DEF CallInv, SeenInv, Over
<1>4. DiskInv
  BY <1>2 DEF DiskInv, OneTroubled
<1>5. CopyInv /\ AgreeInv /\ KeptInv /\ ToldInv
  BY <1>2 DEF CopyInv, AgreeInv, KeptInv, ToldInv, InDictionary, Acknowledged, ChangedBy, CopiedOut
<1>6. QED
  BY <1>1, <1>3, <1>4, <1>5 DEF ConfigInv, StandInv

\* The inductive invariant.
THEOREM ConfigInvariance == ConfigSpec => []ConfigInv
<1>1. ASSUME ConfigInv, [ConfigNext]_configVars PROVE ConfigInv'
  <2> USE <1>1 DEF ConfigInv
  <2>1. ConfigType' /\ CallInv' /\ SeenInv' /\ DiskInv' /\ ToldInv'
    BY ConfigTypeStep, CallStep, SeenStep, DiskStep, ToldStep
  <2>2. ASSUME Undisturbed' PROVE CopyInv' /\ AgreeInv' /\ KeptInv'
    <3>1. Undisturbed
      BY <2>2, StillUndisturbed
    <3>2. CopyInv /\ AgreeInv /\ KeptInv
      BY <3>1 DEF StandInv
    <3>. QED  BY <2>2, <3>1, <3>2, CopyStep, AgreeStep, KeptStep
  <2>. QED  BY <2>1, <2>2 DEF StandInv
<1>. QED  BY <1>1, ConfigInitInv, PTL DEF ConfigSpec

\* Whatever fails and wherever the process ends, only a save_config leaves the
\* disk without a whole config.yaml, and then the backup of the first is whole
\* (ConfigManager.save_to_file's os.replace, save_config's rename).
THEOREM DiskStaysWhole == ConfigSpec => []DiskWhole
<1>1. ConfigInv => DiskWhole
  <2> SUFFICES ASSUME ConfigInv PROVE DiskWhole
    OBVIOUS
  <2> USE DEF ConfigInv, ConfigType, DiskInv, Troubled, OneTroubled
  <2>1. lost \in Range(settings) => Broken # {}
    BY DEF Documents, Range
  <2>. QED  BY <2>1 DEF DiskWhole
<1>. QED  BY <1>1, ConfigInvariance, PTL

\* An update that update_and_save refused is at no time in the dictionary, with
\* the handlers or on the disk.
THEOREM RefusedStaysUnseen == ConfigSpec => []RefusedUnseen
<1>1. ConfigInv => RefusedUnseen
  BY DEF ConfigInv, ConfigType, SeenInv, RefusedUnseen, Acknowledged, Documents, Range, IsDocument
<1>. QED  BY <1>1, ConfigInvariance, PTL

\* Once no call is under way, a change reported as saved stands, the file holds
\* the dictionary but for failed changes, and the handlers go by it but for those
\* and for changes no live update told them of (update_and_save, save_to_file and
\* live_update_daemon, save_config).
THEOREM SavedChangeStands == ConfigSpec => []SavedStands
<1> DEFINE failed == {c \in Calls \ Of("staged") : call[c] = "failed"}
           untold == {c \in Calls : call[c] = "stored"}
<1>1. ASSUME ConfigInv, Quiet, NEW k \in ConfigKeys, applied[k] # settings[k]
      PROVE  k \in KeysOf(failed \cup untold)
  <2>1. PICK c \in Calls : ConfigKeyOf[c] = k /\ Unapplied(c)
    BY <1>1 DEF ConfigInv, ToldInv, Quiet
  <2>2. c \in failed \cup untold
    BY <1>1, <2>1 DEF Unapplied, Quiet, Over, Of
  <2>. QED  BY <2>1, <2>2 DEF KeysOf
<1>2. ASSUME ConfigInv, Quiet, Undisturbed
      PROVE  /\ \A c \in Calls : Acknowledged(c) => settings[ConfigKeyOf[c]] # old
             /\ \A k \in ConfigKeys : file[k] # settings[k] => k \in KeysOf(failed)
  <2> USE <1>2 DEF ConfigInv, StandInv
  <2>1. IsDocument(file)
    BY DEF DiskInv, Troubled, SavingInPlace, Synced, Of, Undisturbed, Quiet, Over
  <2>2. \A c \in Calls : Acknowledged(c) => settings[ConfigKeyOf[c]] # old
    BY DEF KeptInv, InDictionary
  <2>3. ASSUME NEW k \in ConfigKeys, file[k] # settings[k] PROVE k \in KeysOf(failed)
    <3>1. PICK c \in Calls : ConfigKeyOf[c] = k /\ PendingSave(c)
      BY <2>1, <2>3 DEF AgreeInv, Quiet
    <3>2. c \in failed
      BY <3>1, ConfigAssumption DEF ConfigAssumption, PendingSave, Quiet, Over, Of
    <3>. QED  BY <3>1, <3>2 DEF KeysOf
  <2>. QED  BY <2>2, <2>3
<1>3. ConfigInv => SavedStands
  BY <1>1, <1>2 DEF SavedStands, Undisturbed
<1>. QED  BY <1>3, ConfigInvariance, PTL

---------------------------------------------------------------------------
(* AdvertLimiter.                                                           *)

Full == Capacity * Unit
Entry == [tokens : 0..Full, refill : 0..AgeCap, seen : 0..AgeCap]
Strikes == [count : 0..MaxStrikes, age : 0..AgeCap]
Hashes == [id : Adverts, left : 0..DedupeTtl]

LimiterType ==
    /\ cached \in Seq(Hashes)
    /\ DOMAIN bucket \subseteq Keys /\ bucket \in [DOMAIN bucket -> Entry]
    /\ DOMAIN strikes \subseteq Keys /\ strikes \in [DOMAIN strikes -> Strikes]
    /\ penalty \in [Keys -> 0..MaxPenalty]
    /\ tier \in [now : Tiers, pending : Tiers \cup {"none"}, since : 0..AgeCap] /\ target \in Tiers
    /\ meter \in [Keys -> Nat]
    /\ pace \in [Keys -> [since : 0..AgeCap, behaved : 0..AgeCap]]
    /\ charged \in [Adverts -> 0..AgeCap]
    /\ others \in [Adverts -> SUBSET Adverts] /\ \A a \in Adverts : IsFiniteSet(others[a])

\* A key that is owed nothing has no more to come than the bucket holds.
MeterInv == \A k \in Keys : meter[k] > 0 =>
    /\ k \in DOMAIN bucket
    /\ meter[k] + bucket[k].tokens + bucket[k].refill * FastestRate <= Full

\* What a key is refused for it has done itself: the bucket has filled at least
\* since the key last met the limits, and a penalty ends before it counts as polite.
PaceInv == \A k \in Keys :
    /\ k \in DOMAIN bucket => bucket[k].refill >= pace[k].since /\ bucket[k].seen >= pace[k].since
    /\ penalty[k] > 0 => penalty[k] + pace[k].behaved <= MaxPenalty

\* The cache h, where x is the age and o the adverts after each advert: it holds
\* each hash once, no longer than it may, and for as long as it must.
Caches(h, x, o) ==
    /\ \A i, j \in DOMAIN h : h[i].id = h[j].id => i = j
    /\ \A i \in DOMAIN h : h[i].left + x[h[i].id] >= DedupeTtl
    /\ \A a \in Adverts : x[a] < DedupeTtl /\ Cardinality(o[a]) < MaxHashes =>
          \E i \in DOMAIN h : h[i].id = a /\ \A j \in DOMAIN h : j > i => h[j].id \in o[a]

CacheInv == Caches(cached, charged, others)

LimiterInv == LimiterType /\ MeterInv /\ PaceInv /\ CacheInv /\ FairToKeys

LEMMA TimesMonotone ==
    ASSUME NEW x \in Nat, NEW y \in Nat, NEW u \in Nat, NEW v \in Nat, x <= y, u <= v
    PROVE  x * u \in Nat /\ y * v \in Nat /\ x * u <= y * v
<1>1. x * u <= y * u
  OBVIOUS
<1>2. y * u <= y * v
  OBVIOUS
<1>. QED  BY <1>1, <1>2

\* There is a fastest and a slowest rate, and a widest gap.
LEMMA RateFacts ==
    /\ FastestRate \in Nat /\ SlowestRate \in Nat /\ WidestGap \in Nat
    /\ \A t \in Limited : /\ Rate[t] \in Nat /\ Rate[t] <= FastestRate /\ SlowestRate <= Rate[t]
                          /\ MinGap[t] \in Nat /\ MinGap[t] <= WidestGap /\ MinGap[t] < AgeCap
    /\ Full \in Nat /\ Unit \in Nat \ {0} /\ Unit <= Full
    /\ AgeCap \in Nat /\ MaxStrikes \in Nat /\ MaxPenalty \in Nat
    /\ DedupeTtl \in Nat \ {0} /\ MaxHashes \in Nat \ {0} /\ DedupeTtl < AgeCap
    /\ Threshold \in Nat \ {0} /\ BasePenalty \in Nat
<1>1. /\ Rate \in [Limited -> Nat \ {0}] /\ MinGap \in [Limited -> Nat]
      /\ Limited = {"normal", "busy", "congested"}
      /\ \A t \in Limited : MinGap[t] < AgeCap
      /\ {MaxPenalty, AgeCap, MaxStrikes} \subseteq Nat
      /\ {DedupeTtl, MaxHashes, Capacity, Unit, Threshold, BasePenalty, Factor, EvictShare}
            \subseteq Nat \ {0}
  BY LimiterAssumption DEF Limited, Tiers
<1>2. ASSUME NEW f \in [Limited -> Nat]
      PROVE  /\ \E r \in {f[t] : t \in Limited} : \A t \in Limited : f[t] <= r
             /\ \E r \in {f[t] : t \in Limited} : \A t \in Limited : f[t] >= r
  <2>1. f["normal"] \in Nat /\ f["busy"] \in Nat /\ f["congested"] \in Nat
    BY <1>1
  <2>2. \E t \in Limited : \A u \in Limited : f[u] <= f[t]
    BY <1>1, <2>1
  <2>3. \E t \in Limited : \A u \in Limited : f[u] >= f[t]
    BY <1>1, <2>1
  <2>. QED  BY <2>2, <2>3
<1>3. Rate \in [Limited -> Nat]
  BY <1>1
<1>4. FastestRate \in {Rate[t] : t \in Limited} /\ \A t \in Limited : Rate[t] <= FastestRate
  BY <1>2, <1>3 DEF FastestRate
<1>5. SlowestRate \in {Rate[t] : t \in Limited} /\ \A t \in Limited : Rate[t] >= SlowestRate
  BY <1>2, <1>3 DEF SlowestRate
<1>6. WidestGap \in {MinGap[t] : t \in Limited} /\ \A t \in Limited : MinGap[t] <= WidestGap
  BY <1>1, <1>2 DEF WidestGap
<1>7. Full \in Nat /\ Unit <= Full
  BY <1>1, TimesMonotone DEF Full
<1>8. DedupeTtl < AgeCap
  <2>1. DedupeTtl \in 0..AgeCap - 1
    BY LimiterAssumption
  <2>. QED  BY <1>1, <2>1
<1>9. FastestRate \in Nat /\ SlowestRate \in Nat /\ WidestGap \in Nat
  BY <1>1, <1>3, <1>4, <1>5, <1>6
<1>10. \A t \in Limited : Rate[t] \in Nat /\ MinGap[t] \in Nat /\ SlowestRate <= Rate[t]
  BY <1>1, <1>3, <1>5, <1>9
<1>. QED  BY <1>1, <1>4, <1>6, <1>7, <1>8, <1>9, <1>10

---------------------------------------------------------------------------
(* The books *)

\* What a clean-up keeps of the books is as it was.
KeptBooks(b) ==
    /\ b = [bucket |-> b.bucket, strikes |-> b.strikes, penalty |-> b.penalty]
    /\ DOMAIN b.bucket \subseteq DOMAIN bucket /\ b.bucket = [k \in DOMAIN b.bucket |-> bucket[k]]
    /\ DOMAIN b.strikes \subseteq Keys /\ b.strikes \in [DOMAIN b.strikes -> Strikes]
    /\ b.penalty \in [Keys -> 0..MaxPenalty]
    /\ \A k \in Keys : b.penalty[k] = 0 \/ b.penalty[k] = penalty[k]

LEMMA BooksKept ==
    ASSUME LimiterType, NEW b \in {Books} \cup {CleanBooks(taken) : taken \in Displaced}
    PROVE  KeptBooks(b)
<1>1. CASE b = Books
  <2>1. b = [bucket |-> bucket, strikes |-> strikes, penalty |-> penalty]
    BY <1>1 DEF Books
  <2>2. bucket = [k \in DOMAIN bucket |-> bucket[k]]
    BY DEF LimiterType
  <2>. QED  BY <2>1, <2>2 DEF KeptBooks, LimiterType
<1>2. ASSUME NEW taken \in Displaced, b = CleanBooks(taken) PROVE KeptBooks(b)
  <2>. DEFINE live == Active \ taken
  <2>1. /\ b.bucket = [k \in live |-> bucket[k]]
        /\ b.strikes = [k \in live \cap DOMAIN strikes |-> Forgiven(strikes[k])]
        /\ b.penalty = [k \in Keys |-> IF k \in taken THEN 0 ELSE penalty[k]]
        /\ b = [bucket |-> b.bucket, strikes |-> b.strikes, penalty |-> b.penalty]
    BY <1>2 DEF CleanBooks
  <2>2. live \subseteq DOMAIN bucket
    BY DEF Active
  <2>3. \A k \in DOMAIN strikes : Forgiven(strikes[k]) \in Strikes
    <3>1. ASSUME NEW s \in Strikes PROVE Forgiven(s) \in Strikes
      BY RateFacts DEF Forgiven, Strikes
    <3>. QED  BY <3>1 DEF LimiterType
  <2>. HIDE DEF live
  <2>4. DOMAIN b.strikes \subseteq Keys /\ b.strikes \in [DOMAIN b.strikes -> Strikes]
    BY <2>1, <2>3 DEF LimiterType
  <2>5. b.penalty \in [Keys -> 0..MaxPenalty] /\ \A k \in Keys : b.penalty[k] = 0 \/ b.penalty[k] = penalty[k]
    BY <2>1, RateFacts DEF LimiterType
  <2>6. DOMAIN b.bucket = live /\ b.bucket = [k \in DOMAIN b.bucket |-> bucket[k]]
    BY <2>1
  <2>. QED  BY <2>1, <2>2, <2>4, <2>5, <2>6 DEF KeptBooks
<1>. QED  BY <1>1, <1>2

LEMMA KeptFacts ==
    ASSUME LimiterType, NEW b, KeptBooks(b)
    PROVE  /\ DOMAIN b.bucket \subseteq Keys /\ b.bucket \in [DOMAIN b.bucket -> Entry]
           /\ \A k \in DOMAIN b.bucket : k \in DOMAIN bucket /\ b.bucket[k] = bucket[k]
BY DEF LimiterType, KeptBooks

LEMMA RefilledFacts ==
    ASSUME LimiterType, NEW b, KeptBooks(b), NEW k \in Keys, NEW t \in Limited
    PROVE  LET e == Refilled(b, k, t)
           IN  /\ e \in Entry /\ e.refill = 0
               /\ k \in DOMAIN b.bucket =>
                    /\ bucket[k] \in Entry
                    /\ e.tokens = Credit(bucket[k], t) /\ e.seen = bucket[k].seen
                    /\ e.tokens <= bucket[k].tokens + bucket[k].refill * Rate[t]
               /\ k \notin DOMAIN b.bucket => e.tokens = Full /\ e.seen = AgeCap
<1> DEFINE e == Refilled(b, k, t)
<1>1. CASE k \in DOMAIN b.bucket
  <2>1. b.bucket[k] = bucket[k] /\ bucket[k] \in Entry
    BY <1>1, KeptFacts DEF LimiterType
  <2>2. e = [bucket[k] EXCEPT !.tokens = Credit(bucket[k], t), !.refill = 0]
    BY <1>1, <2>1 DEF Refilled
  <2>3. bucket[k].tokens \in Nat /\ bucket[k].refill \in Nat /\ Rate[t] \in Nat
    BY <2>1, RateFacts DEF Entry
  <2>4. bucket[k].refill * Rate[t] \in Nat
    BY <2>3, TimesMonotone
  <2>5. /\ Credit(bucket[k], t) \in 0..Full
        /\ Credit(bucket[k], t) <= bucket[k].tokens + bucket[k].refill * Rate[t]
    BY <2>3, <2>4, RateFacts DEF Credit, Lesser, Full
  <2>. DEFINE c == Credit(bucket[k], t)
              s == bucket[k]
  <2>. HIDE DEF c, s, e
  <2>6. e = [s EXCEPT !.tokens = c, !.refill = 0] /\ s \in Entry /\ c \in 0..Full
    BY <2>1, <2>2, <2>5 DEF c, s
  <2>7. e \in Entry /\ e.tokens = c /\ e.refill = 0 /\ e.seen = s.seen
    <3>1. 0 \in 0..AgeCap
      BY RateFacts
    <3>. QED  BY <2>6, <3>1 DEF Entry
  <2>. QED  BY <1>1, <2>1, <2>5, <2>7 DEF c, s, e
<1>2. CASE k \notin DOMAIN b.bucket
  <2>1. e = [tokens |-> Full, refill |-> 0, seen |-> AgeCap]
    BY <1>2 DEF Refilled, Full
  <2>. QED  BY <1>2, <2>1, RateFacts DEF Entry
<1>. QED  BY <1>1, <1>2

LEMMA WordFacts ==
    ASSUME LimiterType, NEW b, KeptBooks(b), NEW k \in Keys, NEW t \in Tiers
    PROVE  LET word == Word(b, k, t)
               e == Refilled(b, k, t)
           IN  /\ word \in {"unlimited", "boxed", "violation", "granted"}
               /\ word # "unlimited" => t \in Limited
               /\ word = "boxed" => b.penalty[k] > 0
               /\ word \in {"violation", "granted"} => b.penalty[k] = 0
               /\ word = "violation" => TooSoon(e, t) \/ e.tokens < Unit
               /\ word = "granted" => ~(e.tokens < Unit)
<1>1. b.penalty[k] \in Nat
  BY RateFacts DEF KeptBooks
<1>. QED  BY <1>1 DEF Word, Limited

\* One more violation: a penalty is never longer than MaxPenalty.
LEMMA StrikeFacts ==
    ASSUME NEW b, b = [bucket |-> b.bucket, strikes |-> b.strikes, penalty |-> b.penalty],
           DOMAIN b.strikes \subseteq Keys, b.strikes \in [DOMAIN b.strikes -> Strikes],
           b.penalty \in [Keys -> 0..MaxPenalty], NEW k \in Keys
    PROVE  LET c == Strike(b, k)
           IN  /\ c.bucket = b.bucket
               /\ DOMAIN c.strikes \subseteq Keys /\ c.strikes \in [DOMAIN c.strikes -> Strikes]
               /\ c.penalty \in [Keys -> 0..MaxPenalty]
               /\ \A l \in Keys \ {k} : c.penalty[l] = b.penalty[l]
<1> DEFINE count == Lesser(MaxStrikes, Violations(b, k) + 1)
           new == IF count < Threshold THEN b.penalty[k] ELSE Greater(b.penalty[k], Penalty(count))
           c == Strike(b, k)
<1>1. Violations(b, k) \in Nat
  BY DEF Violations, Strikes
<1>2. count \in 0..MaxStrikes
  BY <1>1, RateFacts DEF Lesser
<1>3. c = [b EXCEPT !.strikes = [l \in DOMAIN b.strikes \cup {k} |->
                                   IF l = k THEN [count |-> count, age |-> 0] ELSE b.strikes[l]],
                    !.penalty[k] = new]
  BY DEF Strike
<1>4. new \in 0..MaxPenalty
  <2>1. CASE count < Threshold
    BY <2>1
  <2>2. CASE ~(count < Threshold)
    <3>1. count - Threshold \in 0..MaxStrikes
      BY <1>2, <2>2, RateFacts
    <3>2. Factor ^ (count - Threshold) \in Nat
      BY <3>1, LimiterAssumption
    <3>3. BasePenalty * Factor ^ (count - Threshold) \in Nat
      BY <3>2, RateFacts, TimesMonotone
    <3>4. Penalty(count) \in 0..MaxPenalty
      BY <3>3, RateFacts DEF Penalty, Lesser
    <3>. QED  BY <2>2, <3>4 DEF Greater
  <2>. QED  BY <2>1, <2>2
<1>. HIDE DEF count, new, c
<1>5. /\ c.bucket = b.bucket
      /\ c.strikes = [l \in DOMAIN b.strikes \cup {k} |->
                        IF l = k THEN [count |-> count, age |-> 0] ELSE b.strikes[l]]
      /\ c.penalty = [b.penalty EXCEPT ![k] = new]
  BY <1>3
<1>6. [count |-> count, age |-> 0] \in Strikes
  BY <1>2, RateFacts DEF Strikes
<1>7. DOMAIN c.strikes \subseteq Keys /\ c.strikes \in [DOMAIN c.strikes -> Strikes]
  BY <1>5, <1>6
<1>8. c.penalty \in [Keys -> 0..MaxPenalty] /\ \A l \in Keys \ {k} : c.penalty[l] = b.penalty[l]
  BY <1>4, <1>5
<1>. QED  BY <1>5, <1>7, <1>8 DEF c

\* What the limiter does to the books b of key k: it says word and leaves c,
\* where e is the bucket of k, refilled.
LimitSays(b, k, e, word, c) ==
    /\ DOMAIN c.bucket \subseteq Keys /\ c.bucket \in [DOMAIN c.bucket -> Entry]
    /\ DOMAIN c.strikes \subseteq Keys /\ c.strikes \in [DOMAIN c.strikes -> Strikes]
    /\ c.penalty \in [Keys -> 0..MaxPenalty]
    /\ \A l \in Keys \ {k} : c.penalty[l] = b.penalty[l]
    /\ word \in {"unlimited", "boxed"} => c = b
    /\ word = "violation" =>
         c.bucket = [l \in DOMAIN b.bucket \cup {k} |-> IF l = k THEN e ELSE b.bucket[l]]
    /\ word = "granted" =>
         /\ c.penalty = b.penalty
         /\ c.bucket = [l \in DOMAIN b.bucket \cup {k} |->
                          IF l = k THEN [e EXCEPT !.tokens = @ - Unit, !.seen = 0]
                          ELSE b.bucket[l]]

LEMMA LimitFacts ==
    ASSUME LimiterType, NEW b, KeptBooks(b), NEW k \in Keys, NEW t \in Tiers
    PROVE  LimitSays(b, k, Refilled(b, k, t), Word(b, k, t), Limit(b, k, t))
<1> DEFINE word == Word(b, k, t)
           e == Refilled(b, k, t)
           c == Limit(b, k, t)
<1>1. /\ b = [bucket |-> b.bucket, strikes |-> b.strikes, penalty |-> b.penalty]
      /\ DOMAIN b.bucket \subseteq Keys /\ b.bucket \in [DOMAIN b.bucket -> Entry]
      /\ DOMAIN b.strikes \subseteq Keys /\ b.strikes \in [DOMAIN b.strikes -> Strikes]
      /\ b.penalty \in [Keys -> 0..MaxPenalty]
  BY KeptFacts DEF KeptBooks
<1>2. ASSUME NEW f \in Entry
      PROVE  LET h == Holds(b, k, f)
             IN  /\ h.bucket = [l \in DOMAIN b.bucket \cup {k} |-> IF l = k THEN f ELSE b.bucket[l]]
                 /\ DOMAIN h.bucket \subseteq Keys /\ h.bucket \in [DOMAIN h.bucket -> Entry]
                 /\ h.strikes = b.strikes /\ h.penalty = b.penalty
                 /\ h = [bucket |-> h.bucket, strikes |-> h.strikes, penalty |-> h.penalty]
  <2>. DEFINE h == Holds(b, k, f)
              new == [l \in DOMAIN b.bucket \cup {k} |-> IF l = k THEN f ELSE b.bucket[l]]
  <2>1. h = [b EXCEPT !.bucket = new]
    BY DEF Holds
  <2>2. DOMAIN new \subseteq Keys /\ new \in [DOMAIN new -> Entry]
    BY <1>1
  <2>. HIDE DEF new, h
  <2>3. h = [bucket |-> new, strikes |-> b.strikes, penalty |-> b.penalty]
    BY <1>1, <2>1
  <2>4. h.bucket = new /\ h.strikes = b.strikes /\ h.penalty = b.penalty
    BY <2>3
  <2>. QED  BY <2>2, <2>3, <2>4 DEF new, h
<1>3. CASE word \in {"unlimited", "boxed"}
  <2>1. c = b
    BY <1>3 DEF Limit
  <2>. QED  BY <1>1, <1>3, <2>1 DEF LimitSays
<1>4. CASE word = "violation"
  <2>1. e \in Entry
    BY <1>4, WordFacts, RefilledFacts
  <2>2. c = Strike(Holds(b, k, e), k)
    BY <1>4 DEF Limit
  <2>. HIDE DEF e, word, c
  <2>. DEFINE h == Holds(b, k, e)
  <2>3. /\ h.bucket = [l \in DOMAIN b.bucket \cup {k} |-> IF l = k THEN e ELSE b.bucket[l]]
        /\ DOMAIN h.bucket \subseteq Keys /\ h.bucket \in [DOMAIN h.bucket -> Entry]
        /\ h.strikes = b.strikes /\ h.penalty = b.penalty
        /\ h = [bucket |-> h.bucket, strikes |-> h.strikes, penalty |-> h.penalty]
    BY <1>2, <2>1
  <2>. HIDE DEF h
  <2>4. /\ DOMAIN h.strikes \subseteq Keys /\ h.strikes \in [DOMAIN h.strikes -> Strikes]
        /\ h.penalty \in [Keys -> 0..MaxPenalty]
    BY <1>1, <2>3
  <2>5. /\ c.bucket = h.bucket
        /\ DOMAIN c.strikes \subseteq Keys /\ c.strikes \in [DOMAIN c.strikes -> Strikes]
        /\ c.penalty \in [Keys -> 0..MaxPenalty]
        /\ \A l \in Keys \ {k} : c.penalty[l] = h.penalty[l]
    BY <2>2, <2>3, <2>4, StrikeFacts DEF h
  <2>. QED  BY <1>4, <2>3, <2>5 DEF LimitSays, e, word, c
<1>5. CASE word = "granted"
  <2>. DEFINE f == [e EXCEPT !.tokens = @ - Unit, !.seen = 0]
  <2>1. f \in Entry
    <3>1. e \in Entry /\ ~(e.tokens < Unit)
      BY <1>5, WordFacts, RefilledFacts
    <3>. HIDE DEF e
    <3>2. e.tokens \in 0..Full /\ e.tokens - Unit \in 0..Full /\ 0 \in 0..AgeCap
      BY <3>1, RateFacts DEF Entry
    <3>. QED  BY <3>1, <3>2 DEF Entry
  <2>2. c = Holds(b, k, f)
    BY <1>5 DEF Limit
  <2>. HIDE DEF e, word, c, f
  <2>3. /\ c.bucket = [l \in DOMAIN b.bucket \cup {k} |-> IF l = k THEN f ELSE b.bucket[l]]
        /\ DOMAIN c.bucket \subseteq Keys /\ c.bucket \in [DOMAIN c.bucket -> Entry]
        /\ c.strikes = b.strikes /\ c.penalty = b.penalty
    BY <1>2, <2>1, <2>2
  <2>. QED  BY <1>1, <1>5, <2>3 DEF LimitSays, e, word, c, f
<1>. QED  BY <1>3, <1>4, <1>5, WordFacts

---------------------------------------------------------------------------
(* The cache                                                               *)

LEMMA PlainCache ==
    ASSUME NEW h \in Seq(Hashes)
    PROVE  /\ Len(h) \in Nat /\ DOMAIN h = 1..Len(h)
           /\ \A i \in DOMAIN h : h[i].id \in Adverts /\ h[i].left \in 0..DedupeTtl
<1>1. Len(h) \in Nat /\ DOMAIN h = 1..Len(h) /\ \A i \in DOMAIN h : h[i] \in Hashes
  OBVIOUS
<1>2. \A e \in Hashes : e.id \in Adverts /\ e.left \in 0..DedupeTtl
  BY DEF Hashes
<1>. QED  BY <1>1, <1>2

\* Where the entry of a stands that the cache may not lose.
Held(h, o, a, i) == h[i].id = a /\ \A j \in DOMAIN h : j > i => h[j].id \in o[a]

\* Taking the entry of a out and adding it at the end keeps the cache true.
LEMMA RequeueKeeps ==
    ASSUME NEW a \in Adverts, NEW L \in 0..DedupeTtl,
           NEW h \in Seq(Hashes), NEW x \in [Adverts -> 0..AgeCap], NEW z \in [Adverts -> 0..AgeCap],
           NEW o \in [Adverts -> SUBSET Adverts], \A y \in Adverts : IsFiniteSet(o[y]),
           NEW q, \A y \in Adverts : q[y] = IF y = a THEN {} ELSE o[y] \cup {a},
           NEW taken, \A i \in DOMAIN h : h[i] \in taken <=> h[i].id = a,
           Caches(h, x, o), \A y \in Adverts \ {a} : z[y] = x[y], L + z[a] >= DedupeTtl
    PROVE  LET all == Append(OutOf(h, taken), [id |-> a, left |-> L])
           IN  all \in Seq(Hashes) /\ all # <<>> /\ Caches(all, z, q)
<1> DEFINE w == OutOf(h, taken)
           new == [id |-> a, left |-> L]
           all == Append(w, new)
<1>0. /\ \A i, j \in DOMAIN h : h[i].id = h[j].id => i = j
      /\ \A i \in DOMAIN h : h[i].left + x[h[i].id] >= DedupeTtl
  BY DEF Caches
<1>1. /\ new \in Hashes /\ new.id = a /\ new.left = L
  BY DEF Hashes
<1>2. /\ w \in Seq(Hashes) /\ ToSet(w) = ToSet(h) \ taken
      /\ IsInjective(h) => IsInjective(w)
  BY OutOfFacts
<1>3. ASSUME NEW i \in DOMAIN h, h[i].id # a
      PROVE  \E m \in DOMAIN w :
                /\ w[m] = h[i]
                /\ \A n \in DOMAIN w : n > m => \E j \in DOMAIN h : j > i /\ w[n] = h[j]
  <2>1. h[i] \notin taken
    BY <1>3
  <2>. QED  BY <2>1, OutOfOrder
<1>. HIDE DEF w, new
<1>4. /\ Len(w) \in Nat /\ DOMAIN w = 1..Len(w) /\ DOMAIN all = 1..Len(w) + 1 /\ all \in Seq(Hashes)
      /\ all[Len(w) + 1] = new /\ \A i \in DOMAIN w : all[i] = w[i]
      /\ Len(all) = Len(w) + 1
  BY <1>1, <1>2
<1>5. ASSUME NEW i \in DOMAIN w
      PROVE  /\ w[i].id \in Adverts \ {a} /\ w[i].left \in 0..DedupeTtl
             /\ w[i].left + x[w[i].id] >= DedupeTtl
  <2>1. w[i] \in ToSet(w)
    BY DEF ToSet
  <2>2. w[i] \in ToSet(h) \ taken
    BY <1>2, <2>1
  <2>3. PICK j \in DOMAIN h : w[i] = h[j]
    BY <2>2 DEF ToSet
  <2>4. h[j].id # a
    BY <2>2, <2>3
  <2>. QED  BY <1>0, <2>3, <2>4, PlainCache
<1>6. \A i, j \in DOMAIN w : w[i].id = w[j].id => i = j
  <2>1. IsInjective(w)
    BY <1>0, <1>2 DEF IsInjective
  <2>2. ASSUME NEW i \in DOMAIN w, NEW j \in DOMAIN w, w[i].id = w[j].id
        PROVE  w[i] = w[j]
    <3>1. w[i] \in ToSet(h) /\ w[j] \in ToSet(h)
      BY <1>2 DEF ToSet
    <3>2. PICK m \in DOMAIN h, n \in DOMAIN h : w[i] = h[m] /\ w[j] = h[n]
      BY <3>1 DEF ToSet
    <3>. QED  BY <1>0, <2>2, <3>2
  <2>. QED  BY <2>1, <2>2 DEF IsInjective
<1>. HIDE DEF all
<1>7. \A i, j \in DOMAIN all : all[i].id = all[j].id => i = j
  <2>1. \A i \in DOMAIN all : i = Len(w) + 1 \/ i \in DOMAIN w
    BY <1>4
  <2>2. \A i \in DOMAIN w : all[i].id # a /\ all[i].id = w[i].id
    BY <1>4, <1>5
  <2>. QED  BY <1>1, <1>4, <1>6, <2>1, <2>2
<1>8. \A i \in DOMAIN all : all[i].left + z[all[i].id] >= DedupeTtl
  <2>1. \A i \in DOMAIN all : i = Len(w) + 1 \/ i \in DOMAIN w
    BY <1>4
  <2>2. \A i \in DOMAIN w : all[i] = w[i] /\ z[w[i].id] = x[w[i].id]
    BY <1>4, <1>5
  <2>. QED  BY <1>1, <1>4, <1>5, <2>1, <2>2
<1>9. ASSUME NEW y \in Adverts, z[y] < DedupeTtl, Cardinality(q[y]) < MaxHashes
      PROVE  \E i \in DOMAIN all : Held(all, q, y, i)
  <2>1. CASE y = a
    <3>1. Len(w) + 1 \in DOMAIN all /\ \A j \in DOMAIN all : ~(j > Len(w) + 1)
      BY <1>4
    <3>. QED  BY <1>1, <1>4, <2>1, <3>1 DEF Held
  <2>2. CASE y # a
    <3>1. q[y] = o[y] \cup {a} /\ z[y] = x[y] /\ IsFiniteSet(o[y])
      BY <2>2
    <3>2. Cardinality(o[y]) < MaxHashes
      <4>1. IsFiniteSet(q[y]) /\ o[y] \subseteq q[y]
        <5>1. IsFiniteSet(o[y] \cup {a})
          BY <3>1, FS_AddElement
        <5>. QED  BY <3>1, <5>1
      <4>2. Cardinality(o[y]) <= Cardinality(q[y]) /\ Cardinality(q[y]) \in Nat /\ Cardinality(o[y]) \in Nat
        BY <3>1, <4>1, FS_Subset, FS_CardinalityType
      <4>. QED  BY <1>9, <4>2, RateFacts
    <3>3. PICK i \in DOMAIN h : h[i].id = y /\ \A j \in DOMAIN h : j > i => h[j].id \in o[y]
      BY <1>9, <3>1, <3>2 DEF Caches
    <3>4. PICK m \in DOMAIN w :
             /\ w[m] = h[i]
             /\ \A n \in DOMAIN w : n > m => \E j \in DOMAIN h : j > i /\ w[n] = h[j]
      BY <1>3, <2>2, <3>3
    <3>5. \A n \in DOMAIN all : n > m => all[n].id \in q[y]
      <4>1. ASSUME NEW n \in DOMAIN w, n > m PROVE all[n].id \in q[y]
        <5>1. PICK j \in DOMAIN h : j > i /\ w[n] = h[j]
          BY <3>4, <4>1
        <5>. QED  BY <1>4, <3>1, <3>3, <5>1
      <4>2. \A n \in DOMAIN all : n = Len(w) + 1 \/ n \in DOMAIN w
        BY <1>4
      <4>. QED  BY <1>1, <1>4, <3>1, <4>1, <4>2
    <3>6. m \in DOMAIN all /\ all[m].id = y
      BY <1>4, <3>3, <3>4
    <3>7. Held(all, q, y, m)
      BY <3>5, <3>6 DEF Held
    <3>. QED  BY <3>6, <3>7
  <2>. QED  BY <2>1, <2>2
<1>10. Caches(all, z, q)
  BY <1>7, <1>8, <1>9 DEF Caches, Held
<1>11. all # <<>>
  BY <1>4
<1>. QED  BY <1>4, <1>10, <1>11 DEF all, w, new

\* The cache may lose entries from its front, but for those it must not lose.
LEMMA SuffixKeeps ==
    ASSUME NEW h \in Seq(Hashes), NEW x \in [Adverts -> 0..AgeCap], NEW o \in [Adverts -> SUBSET Adverts],
           Caches(h, x, o), NEW m \in 1..Len(h),
           \A a \in Adverts, i \in DOMAIN h :
              x[a] < DedupeTtl /\ Cardinality(o[a]) < MaxHashes /\ Held(h, o, a, i) => m <= i
    PROVE  LET t == SubSeq(h, m, Len(h))
           IN  t \in Seq(Hashes) /\ Caches(t, x, o)
<1> DEFINE t == SubSeq(h, m, Len(h))
<1>1. /\ Len(h) \in Nat /\ DOMAIN h = 1..Len(h) /\ m \in Nat /\ m >= 1 /\ m <= Len(h)
      /\ \A i \in m..Len(h) : h[i] \in Hashes
  OBVIOUS
<1>2. /\ t \in Seq(Hashes) /\ Len(t) = Len(h) - m + 1
      /\ \A i \in 1..Len(h) - m + 1 : t[i] = h[m + i - 1]
  BY <1>1, SubSeqProperties
<1>. HIDE DEF t
<1>3. DOMAIN t = 1..Len(h) - m + 1
  BY <1>2
<1>4. ASSUME NEW i \in DOMAIN t
      PROVE  i \in Nat /\ m + i - 1 \in DOMAIN h /\ t[i] = h[m + i - 1]
  <2>1. i \in Nat /\ i >= 1 /\ i <= Len(h) - m + 1
    BY <1>1, <1>3
  <2>. QED  BY <1>1, <1>2, <1>3, <2>1
<1>5. ASSUME NEW i \in DOMAIN t, NEW j \in DOMAIN t, t[i].id = t[j].id PROVE i = j
  <2>1. m + i - 1 = m + j - 1
    BY <1>4, <1>5 DEF Caches
  <2>. QED  BY <1>1, <1>4, <2>1
<1>6. \A i \in DOMAIN t : t[i].left + x[t[i].id] >= DedupeTtl
  BY <1>4 DEF Caches
<1>7. ASSUME NEW a \in Adverts, x[a] < DedupeTtl, Cardinality(o[a]) < MaxHashes
      PROVE  \E i \in DOMAIN t : t[i].id = a /\ \A j \in DOMAIN t : j > i => t[j].id \in o[a]
  <2>1. PICK i \in DOMAIN h : Held(h, o, a, i)
    BY <1>7 DEF Caches, Held
  <2>2. m <= i
    BY <1>7, <2>1
  <2>3. i - m + 1 \in DOMAIN t /\ t[i - m + 1] = h[i]
    <3>1. i - m + 1 \in DOMAIN t /\ m + (i - m + 1) - 1 = i
      BY <1>1, <1>3, <2>2
    <3>. QED  BY <1>4, <3>1
  <2>4. ASSUME NEW j \in DOMAIN t, j > i - m + 1 PROVE t[j].id \in o[a]
    <3>1. m + j - 1 \in DOMAIN h /\ m + j - 1 > i /\ t[j] = h[m + j - 1]
      BY <1>1, <1>4, <2>2, <2>4
    <3>. QED  BY <2>1, <3>1 DEF Held
  <2>. QED  BY <2>1, <2>3, <2>4 DEF Held
<1>8. Caches(t, x, o)
  BY <1>5, <1>6, <1>7 DEF Caches
<1>. QED  BY <1>2, <1>8 DEF t

\* The latest MaxHashes entries are enough: what must not be lost is followed by
\* fewer entries than that.
LEMMA LatestEnough ==
    ASSUME NEW h \in Seq(Hashes), h # <<>>,
           NEW x \in [Adverts -> 0..AgeCap], NEW o \in [Adverts -> SUBSET Adverts],
           \A a \in Adverts : IsFiniteSet(o[a]), Caches(h, x, o)
    PROVE  LET t == SubSeq(h, Greater(1, Len(h) - MaxHashes + 1), Len(h))
           IN  t \in Seq(Hashes) /\ Caches(t, x, o)
<1> DEFINE m == Greater(1, Len(h) - MaxHashes + 1)
<1>1. Len(h) \in Nat /\ Len(h) >= 1 /\ DOMAIN h = 1..Len(h) /\ MaxHashes \in Nat /\ MaxHashes >= 1
  BY RateFacts
<1>2. m \in 1..Len(h)
  BY <1>1 DEF Greater
<1>3. ASSUME NEW a \in Adverts, NEW i \in DOMAIN h, Cardinality(o[a]) < MaxHashes, Held(h, o, a, i)
      PROVE  m <= i
  <2>. DEFINE later == i + 1..Len(h)
              f == [j \in later |-> h[j].id]
  <2>1. i \in Nat /\ i >= 1 /\ i <= Len(h)
    BY <1>1
  <2>2. \A j \in later : j \in DOMAIN h /\ j > i
    BY <1>1, <2>1
  <2>3. f \in [later -> o[a]] /\ \A j, k \in later : f[j] = f[k] => j = k
    BY <1>3, <2>2 DEF Held, Caches
  <2>4. IsFiniteSet(later) /\ Cardinality(later) = Len(h) - i
    <3>1. CASE i + 1 <= Len(h)
      BY <1>1, <2>1, <3>1, FS_Interval
    <3>2. CASE ~(i + 1 <= Len(h))
      <4>1. later = {} /\ Len(h) - i = 0
        BY <1>1, <2>1, <3>2
      <4>. QED  BY <4>1, FS_EmptySet
    <3>. QED  BY <3>1, <3>2
  <2>. HIDE DEF later, f
  <2>5. f \in Injection(later, o[a])
    BY <2>3 DEF Injection, IsInjective
  <2>6. Cardinality(later) <= Cardinality(o[a]) /\ Cardinality(o[a]) \in Nat
    BY <2>5, FS_Injection, FS_CardinalityType
  <2>7. Len(h) - i < MaxHashes
    BY <1>1, <1>3, <2>1, <2>4, <2>6
  <2>. QED  BY <1>1, <2>1, <2>7 DEF Greater
<1>. HIDE DEF m
<1>4. SubSeq(h, m, Len(h)) \in Seq(Hashes) /\ Caches(SubSeq(h, m, Len(h)), x, o)
  BY <1>2, <1>3, SuffixKeeps
<1>. QED  BY <1>4 DEF m

\* A clean-up drops only entries in front of the first live one.
LEMMA UnexpiredKeeps ==
    ASSUME NEW h \in Seq(Hashes), NEW x \in [Adverts -> 0..AgeCap], NEW o \in [Adverts -> SUBSET Adverts],
           Caches(h, x, o)
    PROVE  Unexpired(h) \in Seq(Hashes) /\ Caches(Unexpired(h), x, o)
<1> DEFINE live == {i \in DOMAIN h : h[i].left > 0}
           m == CHOOSE i \in live : \A j \in live : i <= j
<1>1. /\ Len(h) \in Nat /\ DOMAIN h = 1..Len(h)
      /\ \A i \in DOMAIN h : h[i].id \in Adverts /\ h[i].left \in 0..DedupeTtl
  BY PlainCache
<1>2. ASSUME NEW a \in Adverts, NEW i \in DOMAIN h, x[a] < DedupeTtl, Held(h, o, a, i)
      PROVE  i \in live
  <2>1. h[i].left + x[a] >= DedupeTtl /\ h[i].left \in Nat /\ x[a] \in Nat /\ DedupeTtl \in Nat
    BY <1>1, <1>2, RateFacts DEF Held, Caches
  <2>. QED  BY <1>2, <2>1
<1>3. CASE live = {}
  <2>1. Unexpired(h) = <<>>
    BY <1>3 DEF Unexpired
  <2>2. \A a \in Adverts : ~(x[a] < DedupeTtl /\ Cardinality(o[a]) < MaxHashes)
    BY <1>2, <1>3 DEF Held, Caches
  <2>3. <<>> \in Seq(Hashes) /\ DOMAIN <<>> = {}
    OBVIOUS
  <2>4. Caches(<<>>, x, o)
    BY <2>2, <2>3 DEF Caches
  <2>. QED  BY <2>1, <2>3, <2>4
<1>4. CASE live # {}
  <2>1. live \in SUBSET Nat
    BY <1>1
  <2>2. m \in live /\ \A j \in live : m <= j
    BY <1>4, <2>1, Least
  <2>3. Unexpired(h) = SubSeq(h, m, Len(h))
    BY <1>4 DEF Unexpired
  <2>4. m \in 1..Len(h)
    BY <1>1, <2>2
  <2>. HIDE DEF m, live
  <2>5. \A a \in Adverts, i \in DOMAIN h :
           x[a] < DedupeTtl /\ Cardinality(o[a]) < MaxHashes /\ Held(h, o, a, i) => m <= i
    BY <1>2, <2>2
  <2>. QED  BY <2>3, <2>4, <2>5, SuffixKeeps
<1>. QED  BY <1>3, <1>4

---------------------------------------------------------------------------
(* The steps                                                               *)

LEMMA LimiterStarts == LimiterInit => LimiterInv
<1>. SUFFICES ASSUME LimiterInit PROVE LimiterInv
  OBVIOUS
<1>. USE DEF LimiterInit
<1>1. LimiterType
  <2>1. cached \in Seq(Hashes) /\ DOMAIN bucket = {} /\ DOMAIN strikes = {}
    OBVIOUS
  <2>2. bucket \in [DOMAIN bucket -> Entry] /\ strikes \in [DOMAIN strikes -> Strikes]
    BY <2>1
  <2>3. tier \in [now : Tiers, pending : Tiers \cup {"none"}, since : 0..AgeCap] /\ target \in Tiers
    BY RateFacts DEF Tiers
  <2>4. /\ penalty \in [Keys -> 0..MaxPenalty] /\ meter \in [Keys -> Nat]
        /\ pace \in [Keys -> [since : 0..AgeCap, behaved : 0..AgeCap]]
        /\ charged \in [Adverts -> 0..AgeCap]
    BY RateFacts
  <2>5. others \in [Adverts -> SUBSET Adverts] /\ \A a \in Adverts : IsFiniteSet(others[a])
    BY FS_EmptySet
  <2>. QED  BY <2>1, <2>2, <2>3, <2>4, <2>5 DEF LimiterType
<1>2. MeterInv
  BY DEF MeterInv
<1>3. PaceInv
  BY DEF PaceInv
<1>4. CacheInv
  BY RateFacts DEF CacheInv, Caches
<1>5. FairToKeys
  BY DEF FairToKeys
<1>. QED  BY <1>1, <1>2, <1>3, <1>4, <1>5 DEF LimiterInv

LEMMA AgeFacts ==
    /\ \A n \in 0..AgeCap : /\ Grown(n) \in 0..AgeCap /\ Grown(n) >= n /\ Grown(n) <= n + 1
                            /\ Grown(n) = n + 1 \/ Grown(n) = AgeCap
    /\ \A n \in Nat : /\ Shorter(n) \in Nat /\ Shorter(n) <= n
                      /\ IF n = 0 THEN Shorter(n) = 0 ELSE Shorter(n) = n - 1
BY RateFacts DEF Grown, Shorter, Lesser, Greater

LEMMA TickKeeps == LimiterInv /\ Ages => LimiterInv'
<1>. SUFFICES ASSUME LimiterInv, Ages PROVE LimiterInv'
  OBVIOUS
<1>. USE RateFacts, AgeFacts
<1>1. LimiterType /\ MeterInv /\ PaceInv /\ CacheInv /\ FairToKeys
  BY DEF LimiterInv
<1>2. cached' \in Seq(Hashes) /\ DOMAIN cached' = DOMAIN cached
      /\ \A i \in DOMAIN cached : cached'[i].id = cached[i].id /\ cached'[i].left = Shorter(cached[i].left)
  <2>1. \A i \in DOMAIN cached : cached[i] \in Hashes
    BY <1>1 DEF LimiterType
  <2>2. \A e \in Hashes : /\ [e EXCEPT !.left = Shorter(@)] \in Hashes
                          /\ [e EXCEPT !.left = Shorter(@)].id = e.id
                          /\ [e EXCEPT !.left = Shorter(@)].left = Shorter(e.left)
    BY DEF Hashes
  <2>3. cached' = [i \in DOMAIN cached |-> [cached[i] EXCEPT !.left = Shorter(@)]]
    BY DEF Ages
  <2>4. DOMAIN cached = 1..Len(cached) /\ Len(cached) \in Nat
    BY <1>1 DEF LimiterType
  <2>5. DOMAIN cached' = DOMAIN cached /\ \A i \in DOMAIN cached : cached'[i] \in Hashes
    BY <2>1, <2>2, <2>3
  <2>6. cached' \in Seq(Hashes)
    BY <2>3, <2>4, <2>5
  <2>. QED  BY <2>1, <2>2, <2>3, <2>5, <2>6
<1>3. /\ DOMAIN bucket' = DOMAIN bucket /\ DOMAIN bucket \subseteq Keys /\ bucket' \in [DOMAIN bucket' -> Entry]
      /\ \A k \in DOMAIN bucket : /\ bucket[k] \in Entry /\ bucket'[k].tokens = bucket[k].tokens
                                  /\ bucket'[k].refill = Grown(bucket[k].refill)
                                  /\ bucket'[k].seen = Grown(bucket[k].seen)
  <2>1. \A e \in Entry : LET f == [e EXCEPT !.refill = Grown(@), !.seen = Grown(@)]
                         IN  /\ f \in Entry /\ f.tokens = e.tokens
                             /\ f.refill = Grown(e.refill) /\ f.seen = Grown(e.seen)
    BY DEF Entry
  <2>2. \A k \in DOMAIN bucket : bucket[k] \in Entry
    BY <1>1 DEF LimiterType
  <2>3. bucket' = [k \in DOMAIN bucket |-> [bucket[k] EXCEPT !.refill = Grown(@), !.seen = Grown(@)]]
    BY DEF Ages
  <2>. QED  BY <1>1, <2>1, <2>2, <2>3 DEF LimiterType
<1>4. DOMAIN strikes' \subseteq Keys /\ strikes' \in [DOMAIN strikes' -> Strikes]
  <2>1. \A s \in Strikes : [s EXCEPT !.age = Grown(@)] \in Strikes
    BY DEF Strikes
  <2>2. \A k \in DOMAIN strikes : strikes[k] \in Strikes
    BY <1>1 DEF LimiterType
  <2>3. strikes' = [k \in DOMAIN strikes |-> [strikes[k] EXCEPT !.age = Grown(@)]]
    BY DEF Ages
  <2>. QED  BY <1>1, <2>1, <2>2, <2>3 DEF LimiterType
<1>5. penalty' \in [Keys -> 0..MaxPenalty] /\ \A k \in Keys : penalty'[k] = Shorter(penalty[k]) /\ penalty[k] \in Nat
  <2>1. \A k \in Keys : penalty[k] \in 0..MaxPenalty
    BY <1>1 DEF LimiterType
  <2>2. penalty' = [k \in Keys |-> Shorter(penalty[k])]
    BY DEF Ages
  <2>3. \A n \in 0..MaxPenalty : n \in Nat /\ Shorter(n) \in 0..MaxPenalty
    OBVIOUS
  <2>. QED  BY <2>1, <2>2, <2>3
<1>6. meter' \in [Keys -> Nat]
      /\ \A k \in Keys : meter[k] \in Nat /\ meter'[k] = Greater(0, meter[k] - FastestRate)
  <2>1. \A k \in Keys : meter[k] \in Nat
    BY <1>1 DEF LimiterType
  <2>2. meter' = [k \in Keys |-> Greater(0, meter[k] - FastestRate)]
    BY DEF Ages
  <2>3. \A n \in Nat : Greater(0, n - FastestRate) \in Nat
    BY DEF Greater
  <2>. QED  BY <2>1, <2>2, <2>3
<1>7. /\ pace' \in [Keys -> [since : 0..AgeCap, behaved : 0..AgeCap]]
      /\ \A k \in Keys : /\ pace[k].since \in 0..AgeCap /\ pace[k].behaved \in 0..AgeCap
                         /\ pace'[k].since = Grown(pace[k].since) /\ pace'[k].behaved = Grown(pace[k].behaved)
  BY <1>1 DEF LimiterType, Ages
<1>8. /\ charged' \in [Adverts -> 0..AgeCap]
      /\ \A a \in Adverts : charged[a] \in 0..AgeCap /\ charged'[a] = Grown(charged[a])
  BY <1>1 DEF LimiterType, Ages
<1>9. /\ tier' \in [now : Tiers, pending : Tiers \cup {"none"}, since : 0..AgeCap]
      /\ target' = target /\ others' = others /\ faults' = faults
  <2>1. \A n \in 0..AgeCap : [tier EXCEPT !.since = n]
           \in [now : Tiers, pending : Tiers \cup {"none"}, since : 0..AgeCap]
    BY <1>1 DEF LimiterType
  <2>2. tier.since \in 0..AgeCap
    BY <1>1 DEF LimiterType
  <2>3. tier' = [tier EXCEPT !.since = IF tier.pending = "none" THEN tier.since ELSE Grown(tier.since)]
    BY DEF Ages
  <2>. QED  BY <2>1, <2>2, <2>3 DEF Ages
<1>10. LimiterType'
  BY <1>1, <1>2, <1>3, <1>4, <1>5, <1>6, <1>7, <1>8, <1>9 DEF LimiterType
<1>11. MeterInv'
  <2>. SUFFICES ASSUME NEW k \in Keys, meter'[k] > 0
                PROVE  /\ k \in DOMAIN bucket'
                       /\ meter'[k] + bucket'[k].tokens + bucket'[k].refill * FastestRate <= Full
    BY DEF MeterInv
  <2>1. meter[k] > 0 /\ meter'[k] = meter[k] - FastestRate /\ meter[k] \in Nat
    BY <1>6 DEF Greater
  <2>2. k \in DOMAIN bucket /\ meter[k] + bucket[k].tokens + bucket[k].refill * FastestRate <= Full
    BY <1>1, <2>1 DEF MeterInv
  <2>3. bucket[k].tokens \in Nat /\ bucket[k].refill \in 0..AgeCap /\ bucket[k].refill \in Nat
    BY <1>3, <2>2 DEF Entry
  <2>. DEFINE r == bucket[k].refill
              s == bucket'[k].refill
  <2>4. s \in Nat /\ r \in Nat /\ s <= r + 1 /\ r + 1 \in Nat
    BY <1>3, <2>2, <2>3
  <2>. HIDE DEF r, s
  <2>5. /\ s * FastestRate \in Nat /\ (r + 1) * FastestRate \in Nat
        /\ s * FastestRate <= (r + 1) * FastestRate
    BY <2>4, TimesMonotone
  <2>6. (r + 1) * FastestRate = r * FastestRate + FastestRate /\ r * FastestRate \in Nat
    <3>1. r * FastestRate \in Nat
      BY <2>4, TimesMonotone
    <3>. QED  BY <2>4, <3>1
  <2>7. meter[k] + bucket[k].tokens + r * FastestRate <= Full
    BY <2>2 DEF r
  <2>8. bucket'[k].tokens = bucket[k].tokens
    BY <1>3, <2>2
  <2>9. meter'[k] + bucket'[k].tokens + s * FastestRate <= Full
    BY <2>1, <2>3, <2>5, <2>6, <2>7, <2>8
  <2>. QED  BY <1>3, <2>2, <2>9 DEF s
<1>12. PaceInv'
  <2>. SUFFICES ASSUME NEW k \in Keys
                PROVE  /\ k \in DOMAIN bucket' => bucket'[k].refill >= pace'[k].since /\ bucket'[k].seen >= pace'[k].since
                       /\ penalty'[k] > 0 => penalty'[k] + pace'[k].behaved <= MaxPenalty
    BY DEF PaceInv
  <2>1. k \in DOMAIN bucket' => bucket'[k].refill >= pace'[k].since /\ bucket'[k].seen >= pace'[k].since
    <3>. SUFFICES ASSUME k \in DOMAIN bucket
                  PROVE  bucket'[k].refill >= pace'[k].since /\ bucket'[k].seen >= pace'[k].since
      BY <1>3
    <3>1. \A m, n \in 0..AgeCap : m >= n => Grown(m) >= Grown(n)
      BY DEF Grown, Lesser
    <3>2. bucket[k].refill \in 0..AgeCap /\ bucket[k].seen \in 0..AgeCap
      BY <1>3 DEF Entry
    <3>3. bucket[k].refill >= pace[k].since /\ bucket[k].seen >= pace[k].since
      BY <1>1 DEF PaceInv
    <3>. QED  BY <1>3, <1>7, <3>1, <3>2, <3>3
  <2>2. penalty'[k] > 0 => penalty'[k] + pace'[k].behaved <= MaxPenalty
    <3>1. penalty[k] > 0 => penalty[k] + pace[k].behaved <= MaxPenalty
      BY <1>1 DEF PaceInv
    <3>2. pace[k].behaved \in 0..AgeCap /\ pace'[k].behaved = Grown(pace[k].behaved)
      BY <1>7
    <3>3. penalty'[k] = Shorter(penalty[k]) /\ penalty[k] \in Nat
      BY <1>5
    <3>4. pace'[k].behaved <= pace[k].behaved + 1 /\ pace'[k].behaved \in Nat
      BY <3>2
    <3>5. penalty'[k] > 0 => penalty[k] > 0 /\ penalty'[k] = penalty[k] - 1
      BY <3>3
    <3>. QED  BY <3>1, <3>2, <3>3, <3>4, <3>5
  <2>. QED  BY <2>1, <2>2
<1>13. CacheInv'
  <2>1. \A i \in DOMAIN cached : cached[i].id \in Adverts /\ cached[i].left \in 0..DedupeTtl
    BY <1>1, PlainCache DEF LimiterType
  <2>2. \A i, j \in DOMAIN cached' : cached'[i].id = cached'[j].id => i = j
    BY <1>1, <1>2 DEF CacheInv, Caches
  <2>3. ASSUME NEW i \in DOMAIN cached'
        PROVE  cached'[i].left + charged'[cached'[i].id] >= DedupeTtl
    <3>. DEFINE a == cached[i].id
    <3>1. a \in Adverts /\ cached[i].left \in Nat /\ cached[i].left + charged[a] >= DedupeTtl
      <4>1. i \in DOMAIN cached
        BY <1>2, <2>3
      <4>2. cached[i].left + charged[cached[i].id] >= DedupeTtl
        BY <1>1, <4>1 DEF CacheInv, Caches
      <4>. QED  BY <2>1, <4>1, <4>2
    <3>2. cached'[i].id = a /\ cached'[i].left = Shorter(cached[i].left)
      BY <1>2, <2>3
    <3>. HIDE DEF a
    <3>3. charged[a] \in 0..AgeCap /\ charged'[a] = Grown(charged[a])
      BY <1>8, <3>1
    <3>4. cached'[i].left \in Nat /\ cached'[i].left + 1 >= cached[i].left
          /\ (cached[i].left = 0 => cached'[i].left = 0)
      BY <3>1, <3>2
    <3>5. charged'[a] = AgeCap \/ charged'[a] = charged[a] + 1
      BY <3>3
    <3>. QED  BY <3>1, <3>2, <3>3, <3>4, <3>5
  <2>4. ASSUME NEW a \in Adverts, charged'[a] < DedupeTtl, Cardinality(others[a]) < MaxHashes
        PROVE  \E i \in DOMAIN cached' : cached'[i].id = a
                  /\ \A j \in DOMAIN cached' : j > i => cached'[j].id \in others[a]
    <3>1. charged[a] < DedupeTtl
      BY <1>8, <2>4
    <3>2. PICK i \in DOMAIN cached : cached[i].id = a
                  /\ \A j \in DOMAIN cached : j > i => cached[j].id \in others[a]
      BY <1>1, <2>4, <3>1 DEF CacheInv, Caches
    <3>. QED  BY <1>2, <3>2
  <2>. QED  BY <1>9, <2>2, <2>3, <2>4 DEF CacheInv, Caches
<1>14. FairToKeys'
  BY <1>1, <1>9 DEF FairToKeys
<1>. QED  BY <1>10, <1>11, <1>12, <1>13, <1>14 DEF LimiterInv

\* What the end of a metrics window leaves of the cache.
LEMMA MeasureKeeps ==
    ASSUME LimiterType, NEW hashes \in Seq(Hashes), NEW b, Measure(hashes, b),
           NEW x \in [Adverts -> 0..AgeCap], NEW o \in [Adverts -> SUBSET Adverts],
           Caches(hashes, x, o)
    PROVE  /\ cached' \in Seq(Hashes) /\ Caches(cached', x, o)
           /\ target' \in Tiers
<1>1. cached' = IF Cleaning THEN Unexpired(hashes) ELSE hashes
  BY DEF Measure
<1>2. target' \in Tiers
  BY DEF Measure, LimiterType
<1>. QED  BY <1>1, <1>2, UnexpiredKeeps

\* The adverts heard since each was last heard.
LEMMA HeardFacts ==
    ASSUME LimiterType, NEW a \in Adverts, Heard(a)
    PROVE  /\ others' \in [Adverts -> SUBSET Adverts] /\ \A y \in Adverts : IsFiniteSet(others'[y])
           /\ \A y \in Adverts : others'[y] = IF y = a THEN {} ELSE others[y] \cup {a}
<1>1. others' = [y \in Adverts |-> IF y = a THEN {} ELSE others[y] \cup {a}]
  BY DEF Heard
<1>2. others \in [Adverts -> SUBSET Adverts] /\ \A y \in Adverts : IsFiniteSet(others[y])
  BY DEF LimiterType
<1>3. \A y \in Adverts : others'[y] = IF y = a THEN {} ELSE others[y] \cup {a}
  BY <1>1
<1>4. others' \in [Adverts -> SUBSET Adverts]
  BY <1>1, <1>2
<1>5. ASSUME NEW y \in Adverts PROVE IsFiniteSet(others'[y])
  <2>1. IsFiniteSet(others[y] \cup {a})
    BY <1>2, FS_AddElement
  <2>. QED  BY <1>3, <2>1, FS_EmptySet
<1>. QED  BY <1>3, <1>4, <1>5

LEMMA EntriesFacts ==
    ASSUME LimiterType, NEW a \in Adverts
    PROVE  \A i \in DOMAIN cached : cached[i] \in Entries(a) <=> cached[i].id = a
BY DEF Entries

\* The books b that a clean-up may leave keep what the parts of the invariant say.
LEMMA KeptMeters ==
    ASSUME LimiterType, MeterInv, PaceInv, NEW b, KeptBooks(b)
    PROVE  LET kept == [l \in Keys |-> IF l \in DOMAIN b.bucket THEN meter[l] ELSE 0]
           IN  /\ kept \in [Keys -> Nat]
               /\ \A k \in Keys : kept[k] > 0 =>
                     /\ k \in DOMAIN b.bucket /\ k \in DOMAIN bucket /\ kept[k] = meter[k]
                     /\ b.bucket[k] = bucket[k] /\ bucket[k] \in Entry
                     /\ kept[k] + bucket[k].tokens + bucket[k].refill * FastestRate <= Full
               /\ \A k \in Keys :
                     /\ k \in DOMAIN b.bucket =>
                          /\ b.bucket[k] = bucket[k]
                          /\ b.bucket[k].refill >= pace[k].since /\ b.bucket[k].seen >= pace[k].since
                     /\ b.penalty[k] > 0 => b.penalty[k] = penalty[k] /\ b.penalty[k] + pace[k].behaved <= MaxPenalty
<1> DEFINE kept == [l \in Keys |-> IF l \in DOMAIN b.bucket THEN meter[l] ELSE 0]
<1>1. \A k \in DOMAIN b.bucket : k \in DOMAIN bucket /\ b.bucket[k] = bucket[k] /\ bucket[k] \in Entry
  BY KeptFacts DEF LimiterType
<1>2. \A k \in Keys : meter[k] \in Nat
  BY DEF LimiterType
<1>3. \A k \in Keys : b.penalty[k] = 0 \/ b.penalty[k] = penalty[k]
  BY DEF KeptBooks
<1>4. kept \in [Keys -> Nat]
  BY <1>2
<1>5. \A k \in Keys : IF k \in DOMAIN b.bucket THEN kept[k] = meter[k] ELSE kept[k] = 0
  OBVIOUS
<1>. HIDE DEF kept
<1>6. \A k \in Keys : kept[k] > 0 =>
         /\ k \in DOMAIN b.bucket /\ k \in DOMAIN bucket /\ kept[k] = meter[k]
         /\ b.bucket[k] = bucket[k] /\ bucket[k] \in Entry
         /\ kept[k] + bucket[k].tokens + bucket[k].refill * FastestRate <= Full
  BY <1>1, <1>5 DEF MeterInv
<1>7. \A k \in Keys : k \in DOMAIN b.bucket =>
         /\ b.bucket[k] = bucket[k]
         /\ b.bucket[k].refill >= pace[k].since /\ b.bucket[k].seen >= pace[k].since
  BY <1>1 DEF PaceInv
<1>8. \A k \in Keys : b.penalty[k] > 0 => b.penalty[k] = penalty[k] /\ b.penalty[k] + pace[k].behaved <= MaxPenalty
  BY <1>3 DEF PaceInv
<1>. QED  BY <1>4, <1>6, <1>7, <1>8 DEF kept

LEMMA CopyKeeps ==
    ASSUME LimiterInv, NEW a \in Adverts, Copy(a)
    PROVE  LimiterInv'
<1>1. LimiterType /\ MeterInv /\ PaceInv /\ CacheInv /\ FairToKeys
  BY DEF LimiterInv
<1>2. PICK b \in {Books} \cup {CleanBooks(taken) : taken \in Displaced} :
         /\ Measure(Reheard(a), b) /\ Keep(b)
         /\ meter' = [l \in Keys |-> IF l \in DOMAIN b.bucket THEN meter[l] ELSE 0]
  BY DEF Copy
<1>3. Heard(a) /\ tier' = tier /\ pace' = pace /\ charged' = charged /\ faults' = faults
  BY DEF Copy
<1>4. KeptBooks(b) /\ bucket' = b.bucket /\ strikes' = b.strikes /\ penalty' = b.penalty
  BY <1>1, <1>2, BooksKept DEF Keep
<1>5. /\ others' \in [Adverts -> SUBSET Adverts] /\ \A y \in Adverts : IsFiniteSet(others'[y])
      /\ \A y \in Adverts : others'[y] = IF y = a THEN {} ELSE others[y] \cup {a}
  BY <1>1, <1>3, HeardFacts
<1>6. LeftOf(a) \in 0..DedupeTtl /\ LeftOf(a) + charged[a] >= DedupeTtl
  <2>1. Entries(a) # {}
    BY DEF Copy, IsCopy, Entries
  <2>2. PICK i \in DOMAIN cached : (CHOOSE e \in Entries(a) : TRUE) = cached[i] /\ cached[i].id = a
    BY <2>1 DEF Entries
  <2>3. cached[i].left \in 0..DedupeTtl
    BY <1>1, PlainCache DEF LimiterType
  <2>4. cached[i].left + charged[a] >= DedupeTtl
    BY <1>1, <2>2 DEF CacheInv, Caches
  <2>. QED  BY <2>2, <2>3, <2>4 DEF LeftOf
<1>7. Reheard(a) \in Seq(Hashes) /\ Caches(Reheard(a), charged, others')
  <2>. DEFINE L == LeftOf(a)
              taken == Entries(a)
  <2>1. Reheard(a) = Append(OutOf(cached, taken), [id |-> a, left |-> L])
    BY DEF Reheard, Without
  <2>2. \A i \in DOMAIN cached : cached[i] \in taken <=> cached[i].id = a
    BY <1>1, EntriesFacts
  <2>3. L \in 0..DedupeTtl /\ L + charged[a] >= DedupeTtl
    BY <1>6
  <2>. HIDE DEF L, taken
  <2>4. /\ cached \in Seq(Hashes) /\ charged \in [Adverts -> 0..AgeCap]
        /\ others \in [Adverts -> SUBSET Adverts] /\ \A y \in Adverts : IsFiniteSet(others[y])
        /\ Caches(cached, charged, others)
    BY <1>1 DEF LimiterType, CacheInv
  <2>. DEFINE q == others'
  <2>5. \A y \in Adverts : q[y] = IF y = a THEN {} ELSE others[y] \cup {a}
    BY <1>5
  <2>. HIDE DEF q
  <2>6. LET all == Append(OutOf(cached, taken), [id |-> a, left |-> L])
        IN  all \in Seq(Hashes) /\ all # <<>> /\ Caches(all, charged, q)
    BY <2>2, <2>3, <2>4, <2>5, RequeueKeeps
  <2>. QED  BY <2>1, <2>6 DEF q
<1>8. cached' \in Seq(Hashes) /\ Caches(cached', charged, others') /\ target' \in Tiers
  BY <1>1, <1>2, <1>5, <1>7, MeasureKeeps DEF LimiterType
<1>9. LimiterType'
  <2>1. DOMAIN bucket' \subseteq Keys /\ bucket' \in [DOMAIN bucket' -> Entry]
    BY <1>1, <1>4, KeptFacts
  <2>2. DOMAIN strikes' \subseteq Keys /\ strikes' \in [DOMAIN strikes' -> Strikes] /\ penalty' \in [Keys -> 0..MaxPenalty]
    BY <1>4 DEF KeptBooks
  <2>3. meter' \in [Keys -> Nat]
    BY <1>1, <1>2, <1>4, KeptMeters
  <2>. QED  BY <1>1, <1>3, <1>5, <1>8, <2>1, <2>2, <2>3 DEF LimiterType
<1>10. MeterInv' /\ PaceInv'
  <2>. DEFINE kept == [l \in Keys |-> IF l \in DOMAIN b.bucket THEN meter[l] ELSE 0]
  <2>1. /\ \A k \in Keys : kept[k] > 0 =>
              /\ k \in DOMAIN b.bucket /\ k \in DOMAIN bucket /\ kept[k] = meter[k]
              /\ b.bucket[k] = bucket[k] /\ bucket[k] \in Entry
              /\ kept[k] + bucket[k].tokens + bucket[k].refill * FastestRate <= Full
        /\ \A k \in Keys :
              /\ k \in DOMAIN b.bucket =>
                   /\ b.bucket[k] = bucket[k]
                   /\ b.bucket[k].refill >= pace[k].since /\ b.bucket[k].seen >= pace[k].since
              /\ b.penalty[k] > 0 => b.penalty[k] = penalty[k] /\ b.penalty[k] + pace[k].behaved <= MaxPenalty
    BY <1>1, <1>4, KeptMeters
  <2>2. meter' = kept
    BY <1>2
  <2>. HIDE DEF kept
  <2>. QED  BY <1>3, <1>4, <2>1, <2>2 DEF MeterInv, PaceInv
<1>11. CacheInv' /\ FairToKeys'
  BY <1>1, <1>3, <1>8 DEF CacheInv, FairToKeys
<1>. QED  BY <1>9, <1>10, <1>11 DEF LimiterInv

\* A key that keeps the spacing any tier asks for is refused by nothing but a
\* penalty that had not ended when it began to keep it.
LEMMA PoliteGranted ==
    ASSUME LimiterType, MeterInv, PaceInv, NEW b, KeptBooks(b), NEW k \in Keys, NEW t \in Tiers
    PROVE  /\ Word(b, k, t) = "violation" => ~Polite(pace[k].since)
           /\ Word(b, k, t) = "boxed" => ~Deserves(k)
<1> DEFINE spacing == pace[k].since
           e == Refilled(b, k, t)
<1>1. spacing \in 0..AgeCap /\ pace[k].behaved \in 0..AgeCap
  BY DEF LimiterType
<1>2. ASSUME Word(b, k, t) = "boxed" PROVE ~Deserves(k)
  <2>1. b.penalty[k] > 0
    BY <1>2, WordFacts
  <2>2. b.penalty[k] + pace[k].behaved <= MaxPenalty /\ b.penalty[k] \in Nat
    BY <2>1, KeptMeters DEF KeptBooks
  <2>. QED  BY <1>1, <2>1, <2>2, RateFacts DEF Deserves
<1>3. ASSUME Word(b, k, t) = "violation", Polite(spacing) PROVE FALSE
  <2>1. t \in Limited /\ (TooSoon(e, t) \/ e.tokens < Unit)
    BY <1>3, WordFacts
  <2>2. spacing * SlowestRate >= Unit /\ spacing >= WidestGap
    BY <1>3 DEF Polite
  <2>3. e \in Entry
    BY <2>1, RefilledFacts
  <2>4. CASE k \in DOMAIN b.bucket
    <3>1. /\ bucket[k] \in Entry /\ bucket[k].refill >= spacing /\ bucket[k].seen >= spacing
          /\ e.tokens = Credit(bucket[k], t) /\ e.seen = bucket[k].seen
      <4>1. b.bucket[k] = bucket[k] /\ b.bucket[k].refill >= spacing /\ b.bucket[k].seen >= spacing
        BY <2>4, KeptMeters
      <4>. QED  BY <2>1, <2>4, <4>1, RefilledFacts
    <3>2. ~TooSoon(e, t)
      <4>1. e.seen >= WidestGap /\ e.seen \in Nat
        BY <1>1, <2>2, <3>1, RateFacts DEF Entry
      <4>. QED  BY <2>1, <4>1, RateFacts DEF TooSoon
    <3>3. bucket[k].refill * Rate[t] >= Unit /\ bucket[k].refill * Rate[t] \in Nat
      <4>1. bucket[k].refill \in Nat /\ spacing \in Nat /\ spacing <= bucket[k].refill
        BY <1>1, <3>1, RateFacts DEF Entry
      <4>2. SlowestRate \in Nat /\ Rate[t] \in Nat /\ SlowestRate <= Rate[t]
        BY <2>1, RateFacts
      <4>. HIDE DEF spacing
      <4>3. /\ spacing * SlowestRate \in Nat /\ bucket[k].refill * Rate[t] \in Nat
            /\ spacing * SlowestRate <= bucket[k].refill * Rate[t]
        BY <4>1, <4>2, TimesMonotone
      <4>. QED  BY <2>2, <4>3, RateFacts
    <3>4. bucket[k].tokens \in Nat
      BY <3>1, RateFacts DEF Entry
    <3>5. Credit(bucket[k], t) >= Unit
      BY <3>3, <3>4, RateFacts DEF Credit, Lesser, Full
    <3>. QED  BY <2>1, <2>3, <3>1, <3>2, <3>5, RateFacts DEF Entry
  <2>5. CASE k \notin DOMAIN b.bucket
    <3>1. e.tokens = Full /\ e.seen = AgeCap
      BY <2>1, <2>5, RefilledFacts
    <3>. QED  BY <2>1, <3>1, RateFacts DEF TooSoon
  <2>. QED  BY <2>4, <2>5
<1>. QED  BY <1>2, <1>3

LEMMA FirstKeeps ==
    ASSUME LimiterInv, NEW a \in Adverts, First(a)
    PROVE  LimiterInv'
<1>1. LimiterType /\ MeterInv /\ PaceInv /\ CacheInv /\ FairToKeys
  BY DEF LimiterInv
<1> DEFINE k == KeyOf[a]
           t == tier'.now
<1>2. PICK b \in {Books} \cup {CleanBooks(taken) : taken \in Displaced} :
         /\ Measure(WithNewest(a), b) /\ tier' = NextTier
         /\ Keep(Limit(b, k, t)) /\ Judged(a, b, Word(b, k, t))
  BY DEF First
<1>3. KeptBooks(b) /\ k \in Keys
  BY <1>1, <1>2, BooksKept, LimiterAssumption
<1>4. /\ others' \in [Adverts -> SUBSET Adverts] /\ \A y \in Adverts : IsFiniteSet(others'[y])
      /\ \A y \in Adverts : others'[y] = IF y = a THEN {} ELSE others[y] \cup {a}
  <2>1. Heard(a)
    BY <1>2 DEF Judged
  <2>. QED  BY <1>1, <2>1, HeardFacts
<1>5. charged' = [charged EXCEPT ![a] = 0] /\ charged' \in [Adverts -> 0..AgeCap]
  <2>1. charged' = [charged EXCEPT ![a] = 0]
    BY <1>2 DEF Judged
  <2>2. charged \in [Adverts -> 0..AgeCap] /\ 0 \in 0..AgeCap
    BY <1>1, RateFacts DEF LimiterType
  <2>. QED  BY <2>1, <2>2
<1>6. WithNewest(a) \in Seq(Hashes) /\ Caches(WithNewest(a), charged', others')
  <2>. DEFINE taken == Entries(a)
              q == others'
              z == charged'
              all == Append(OutOf(cached, taken), [id |-> a, left |-> DedupeTtl])
  <2>1. WithNewest(a) = SubSeq(all, Greater(1, Len(all) - MaxHashes + 1), Len(all))
    BY DEF WithNewest, Without
  <2>2. \A i \in DOMAIN cached : cached[i] \in taken <=> cached[i].id = a
    BY <1>1, EntriesFacts
  <2>3. /\ DedupeTtl \in 0..DedupeTtl /\ DedupeTtl + z[a] >= DedupeTtl
        /\ \A y \in Adverts \ {a} : z[y] = charged[y]
    BY <1>1, <1>5, RateFacts DEF LimiterType
  <2>4. /\ cached \in Seq(Hashes) /\ charged \in [Adverts -> 0..AgeCap]
        /\ others \in [Adverts -> SUBSET Adverts] /\ \A y \in Adverts : IsFiniteSet(others[y])
        /\ Caches(cached, charged, others)
    BY <1>1 DEF LimiterType, CacheInv
  <2>5. /\ q \in [Adverts -> SUBSET Adverts] /\ \A y \in Adverts : IsFiniteSet(q[y])
        /\ \A y \in Adverts : q[y] = IF y = a THEN {} ELSE others[y] \cup {a}
        /\ z \in [Adverts -> 0..AgeCap]
    BY <1>4, <1>5
  <2>. HIDE DEF taken, q, z
  <2>6. all \in Seq(Hashes) /\ all # <<>> /\ Caches(all, z, q)
    BY <2>2, <2>3, <2>4, <2>5, RequeueKeeps
  <2>. HIDE DEF all
  <2>7. LET s == SubSeq(all, Greater(1, Len(all) - MaxHashes + 1), Len(all))
        IN  s \in Seq(Hashes) /\ Caches(s, z, q)
    BY <2>5, <2>6, LatestEnough
  <2>. QED  BY <2>1, <2>7 DEF q, z
<1>7. cached' \in Seq(Hashes) /\ Caches(cached', charged', others') /\ target' \in Tiers
  BY <1>1, <1>2, <1>4, <1>5, <1>6, MeasureKeeps
<1>8. tier' \in [now : Tiers, pending : Tiers \cup {"none"}, since : 0..AgeCap] /\ t \in Tiers
  <2>1. tier \in [now : Tiers, pending : Tiers \cup {"none"}, since : 0..AgeCap]
    BY <1>1 DEF LimiterType
  <2>2. \A u \in Tiers : u \in Tiers \cup {"none"}
    OBVIOUS
  <2>3. 0 \in 0..AgeCap
    BY RateFacts
  <2>4. tier' \in [now : Tiers, pending : Tiers \cup {"none"}, since : 0..AgeCap]
    BY <1>2, <1>7, <2>1, <2>2, <2>3 DEF NextTier
  <2>. QED  BY <2>4
<1> DEFINE word == Word(b, k, t)
           e == Refilled(b, k, t)
           kept == [l \in Keys |-> IF l \in DOMAIN b.bucket THEN meter[l] ELSE 0]
<1>9. /\ word \in {"unlimited", "boxed", "violation", "granted"}
      /\ word = "violation" => ~Polite(pace[k].since)
      /\ word = "boxed" => ~Deserves(k)
  BY <1>1, <1>3, <1>8, WordFacts, PoliteGranted
<1> DEFINE c == Limit(b, k, t)
<1>10. bucket' = c.bucket /\ strikes' = c.strikes /\ penalty' = c.penalty
  BY <1>2 DEF Keep
<1>11. /\ DOMAIN bucket' \subseteq Keys /\ bucket' \in [DOMAIN bucket' -> Entry]
       /\ DOMAIN strikes' \subseteq Keys /\ strikes' \in [DOMAIN strikes' -> Strikes]
       /\ penalty' \in [Keys -> 0..MaxPenalty]
       /\ \A l \in Keys \ {k} : penalty'[l] = b.penalty[l]
       /\ word \in {"unlimited", "boxed"} => bucket' = b.bucket /\ penalty' = b.penalty
       /\ word = "violation" =>
            bucket' = [l \in DOMAIN b.bucket \cup {k} |-> IF l = k THEN e ELSE b.bucket[l]]
       /\ word = "granted" =>
            /\ penalty' = b.penalty
            /\ bucket' = [l \in DOMAIN b.bucket \cup {k} |->
                            IF l = k THEN [e EXCEPT !.tokens = @ - Unit, !.seen = 0]
                            ELSE b.bucket[l]]
  <2>. HIDE DEF k, t
  <2>1. LimitSays(b, k, e, word, c)
    BY <1>1, <1>3, <1>8, LimitFacts
  <2>. HIDE DEF c, word, e
  <2>. QED  BY <1>10, <2>1 DEF LimitSays
<1>12. word # "unlimited" =>
         /\ e \in Entry /\ e.refill = 0
         /\ k \in DOMAIN b.bucket =>
              /\ bucket[k] \in Entry /\ t \in Limited
              /\ e.tokens <= bucket[k].tokens + bucket[k].refill * Rate[t]
  BY <1>1, <1>3, <1>8, WordFacts, RefilledFacts
<1>13. /\ kept \in [Keys -> Nat]
       /\ \A l \in Keys : kept[l] > 0 =>
             /\ l \in DOMAIN b.bucket /\ l \in DOMAIN bucket /\ kept[l] = meter[l]
             /\ b.bucket[l] = bucket[l] /\ bucket[l] \in Entry
             /\ kept[l] + bucket[l].tokens + bucket[l].refill * FastestRate <= Full
       /\ \A l \in Keys :
             /\ l \in DOMAIN b.bucket =>
                  /\ b.bucket[l] = bucket[l]
                  /\ b.bucket[l].refill >= pace[l].since /\ b.bucket[l].seen >= pace[l].since
             /\ b.penalty[l] > 0 => b.penalty[l] = penalty[l] /\ b.penalty[l] + pace[l].behaved <= MaxPenalty
  BY <1>1, <1>3, KeptMeters
<1>14. /\ meter' = IF word = "granted" THEN [kept EXCEPT ![k] = @ + Unit] ELSE kept
       /\ pace' = IF word = "unlimited" THEN pace
                  ELSE [pace EXCEPT ![k] = [since |-> 0,
                           behaved |-> IF Polite(pace[k].since) THEN pace[k].behaved ELSE 0]]
       /\ faults' = faults
            \cup (IF charged[a] < DedupeTtl /\ Cardinality(others[a]) < MaxHashes
                  THEN {"charged for a copy"} ELSE {})
            \cup (IF word \in Refusals /\ Deserves(k) THEN {"polite but refused"} ELSE {})
  BY <1>2 DEF Judged
<1>15. word = "granted" => ~(e.tokens < Unit)
  BY <1>1, <1>3, <1>8, WordFacts
<1>. HIDE DEF k, t, word, e, kept, c
<1>16. LimiterType'
  <2>1. meter' \in [Keys -> Nat]
    <3>1. kept[k] + Unit \in Nat
      BY <1>3, <1>13, RateFacts
    <3>. QED  BY <1>13, <1>14, <3>1
  <2>2. pace' \in [Keys -> [since : 0..AgeCap, behaved : 0..AgeCap]]
    <3>1. pace \in [Keys -> [since : 0..AgeCap, behaved : 0..AgeCap]] /\ 0 \in 0..AgeCap
      BY <1>1, RateFacts DEF LimiterType
    <3>. QED  BY <1>3, <1>14, <3>1
  <2>. QED  BY <1>4, <1>5, <1>7, <1>8, <1>11, <2>1, <2>2 DEF LimiterType
<1>17. MeterInv'
  <2>. SUFFICES ASSUME NEW l \in Keys, meter'[l] > 0
                PROVE  /\ l \in DOMAIN bucket'
                       /\ meter'[l] + bucket'[l].tokens + bucket'[l].refill * FastestRate <= Full
    BY DEF MeterInv
  <2>1. CASE word \in {"unlimited", "boxed"}
    <3>1. meter'[l] = kept[l] /\ bucket' = b.bucket
      BY <1>11, <1>14, <2>1
    <3>. QED  BY <1>13, <3>1
  <2>2. CASE word \in {"violation", "granted"} /\ l # k
    <3>1. meter'[l] = kept[l]
      BY <1>13, <1>14, <2>2
    <3>2. l \in DOMAIN b.bucket
      BY <1>13, <3>1
    <3>3. l \in DOMAIN bucket' /\ bucket'[l] = b.bucket[l]
      BY <1>11, <2>2, <3>2
    <3>. QED  BY <1>13, <3>1, <3>3
  <2>3. CASE word \in {"violation", "granted"} /\ l = k
    <3>1. e \in Entry /\ e.refill = 0 /\ e.tokens \in Nat
      BY <1>12, <2>3 DEF Entry
    <3>2. kept[k] \in Nat /\ kept[k] + e.tokens <= Full
      <4>1. kept[k] \in Nat
        BY <1>3, <1>13
      <4>2. CASE kept[k] = 0
        BY <3>1, <4>2, RateFacts DEF Entry
      <4>3. CASE kept[k] > 0
        <5>1. /\ k \in DOMAIN b.bucket /\ bucket[k] \in Entry
              /\ kept[k] + bucket[k].tokens + bucket[k].refill * FastestRate <= Full
          BY <1>3, <1>13, <4>3
        <5>2. t \in Limited /\ e.tokens <= bucket[k].tokens + bucket[k].refill * Rate[t]
          BY <1>12, <2>3, <5>1
        <5>3. bucket[k].refill \in Nat /\ bucket[k].tokens \in Nat
          BY <5>1, RateFacts DEF Entry
        <5>4. Rate[t] \in Nat /\ FastestRate \in Nat /\ Rate[t] <= FastestRate
          BY <5>2, RateFacts
        <5>5. /\ bucket[k].refill * Rate[t] \in Nat /\ bucket[k].refill * FastestRate \in Nat
              /\ bucket[k].refill * Rate[t] <= bucket[k].refill * FastestRate
          BY <5>3, <5>4, TimesMonotone
        <5>. QED  BY <3>1, <4>1, <5>1, <5>2, <5>3, <5>5, RateFacts
      <4>. QED  BY <4>1, <4>2, <4>3
    <3>3. CASE word = "violation"
      <4>1. l \in DOMAIN bucket' /\ bucket'[l] = e /\ meter'[l] = kept[k]
        BY <1>11, <1>14, <2>3, <3>3
      <4>2. bucket'[l].refill * FastestRate = 0
        BY <3>1, <4>1, RateFacts
      <4>. QED  BY <3>1, <3>2, <4>1, <4>2, RateFacts
    <3>4. CASE word = "granted"
      <4>1. l \in DOMAIN bucket' /\ bucket'[l] = [e EXCEPT !.tokens = @ - Unit, !.seen = 0]
        BY <1>11, <2>3, <3>4
      <4>2. meter'[l] = kept[k] + Unit
        BY <1>3, <1>13, <1>14, <2>3, <3>4
      <4>3. bucket'[l].tokens = e.tokens - Unit /\ bucket'[l].refill = 0
        BY <3>1, <4>1 DEF Entry
      <4>4. bucket'[l].refill * FastestRate = 0
        BY <4>3, RateFacts
      <4>. QED  BY <3>1, <3>2, <4>1, <4>2, <4>3, <4>4, RateFacts
    <3>. QED  BY <2>3, <3>3, <3>4
  <2>. QED  BY <1>9, <2>1, <2>2, <2>3
<1>18. PaceInv'
  <2>. SUFFICES ASSUME NEW l \in Keys
                PROVE  /\ l \in DOMAIN bucket' => bucket'[l].refill >= pace'[l].since /\ bucket'[l].seen >= pace'[l].since
                       /\ penalty'[l] > 0 => penalty'[l] + pace'[l].behaved <= MaxPenalty
    BY DEF PaceInv
  <2>0. pace \in [Keys -> [since : 0..AgeCap, behaved : 0..AgeCap]]
    BY <1>1 DEF LimiterType
  <2>1. CASE l # k
    <3>1. pace'[l] = pace[l] /\ penalty'[l] = b.penalty[l]
      BY <1>11, <1>14, <2>0, <2>1
    <3>2. l \in DOMAIN bucket' => l \in DOMAIN b.bucket /\ bucket'[l] = b.bucket[l]
      BY <1>9, <1>11, <2>1
    <3>. QED  BY <1>13, <3>1, <3>2
  <2>2. CASE l = k /\ word = "unlimited"
    <3>1. pace' = pace /\ bucket' = b.bucket /\ penalty' = b.penalty
      BY <1>11, <1>14, <2>2
    <3>. QED  BY <1>13, <3>1
  <2>3. CASE l = k /\ word # "unlimited"
    <3>1. /\ pace'[l].since = 0
          /\ pace'[l].behaved = IF Polite(pace[k].since) THEN pace[k].behaved ELSE 0
      <4>1. pace' = [pace EXCEPT ![k] = [since |-> 0,
                       behaved |-> IF Polite(pace[k].since) THEN pace[k].behaved ELSE 0]]
        BY <1>14, <2>3
      <4>. QED  BY <1>3, <2>0, <2>3, <4>1
    <3>2. l \in DOMAIN bucket' => bucket'[l].refill >= 0 /\ bucket'[l].seen >= 0
      BY <1>11, RateFacts DEF Entry
    <3>3. pace[k].behaved \in Nat
      BY <1>3, <2>0, RateFacts
    <3>4. penalty'[l] \in Nat /\ penalty'[l] <= MaxPenalty
      BY <1>11, RateFacts
    <3>5. penalty'[l] > 0 => penalty'[l] + pace'[l].behaved <= MaxPenalty
      <4>1. CASE word = "violation"
        BY <1>9, <3>1, <3>4, <4>1, RateFacts
      <4>2. CASE word \in {"boxed", "granted"}
        <5>1. penalty'[l] = b.penalty[l]
          BY <1>11, <4>2
        <5>2. b.penalty[l] > 0 => b.penalty[l] + pace[k].behaved <= MaxPenalty
          BY <1>13, <2>3
        <5>. QED  BY <3>1, <3>3, <3>4, <5>1, <5>2, RateFacts
      <4>. QED  BY <1>9, <2>3, <4>1, <4>2
    <3>. QED  BY <3>1, <3>2, <3>5
  <2>. QED  BY <2>1, <2>2, <2>3
<1>19. CacheInv'
  BY <1>7 DEF CacheInv
<1>20. FairToKeys'
  <2>1. ~(charged[a] < DedupeTtl /\ Cardinality(others[a]) < MaxHashes)
    <3>. SUFFICES ASSUME charged[a] < DedupeTtl, Cardinality(others[a]) < MaxHashes PROVE FALSE
      OBVIOUS
    <3>1. PICK i \in DOMAIN cached : cached[i].id = a
      BY <1>1 DEF CacheInv, Caches
    <3>2. cached[i].left + charged[a] >= DedupeTtl
      BY <1>1, <3>1 DEF CacheInv, Caches
    <3>3. cached[i].left \in Nat /\ charged[a] \in Nat
      BY <1>1, PlainCache, RateFacts DEF LimiterType
    <3>4. cached[i].left > 0
      BY <3>2, <3>3, RateFacts
    <3>5. ~IsCopy(a)
      BY DEF First
    <3>. QED  BY <3>1, <3>4, <3>5 DEF IsCopy
  <2>2. ~(word \in Refusals /\ Deserves(k))
    BY <1>9 DEF Refusals, Deserves
  <2>3. faults' = faults
    BY <1>14, <2>1, <2>2
  <2>. QED  BY <1>1, <2>3 DEF FairToKeys
<1>. QED  BY <1>16, <1>17, <1>18, <1>19, <1>20 DEF LimiterInv

\* The invariant of the advert limiter: the books of every key, the cache and the
\* record of what the limiter did wrong.
THEOREM LimiterInvariance == LimiterSpec => []LimiterInv
<1>1. LimiterInv /\ [LimiterNext]_limiterVars => LimiterInv'
  <2>. SUFFICES ASSUME LimiterInv, [LimiterNext]_limiterVars PROVE LimiterInv'
    OBVIOUS
  <2>1. CASE Ages
    BY <2>1, TickKeeps
  <2>2. CASE \E a \in Adverts : Hear(a)
    BY <2>2, CopyKeeps, FirstKeeps DEF Hear
  <2>3. CASE UNCHANGED limiterVars
    BY <2>3 DEF limiterVars, books, ghosts, LimiterInv, LimiterType, MeterInv, PaceInv, CacheInv,
       Caches, FairToKeys
  <2>. QED  BY <2>1, <2>2, <2>3 DEF LimiterNext
<1>. QED  BY <1>1, LimiterStarts, PTL DEF LimiterSpec

\* RateBound, for every number of keys, every rate of every tier and every bound:
\* the tiers change between refills, so no single rate bounds a refill, but what
\* was granted, what the bucket holds and what it has coming never exceed it.
THEOREM RateBounded == LimiterSpec => []RateBound
<1>1. LimiterInv => RateBound
  <2>. SUFFICES ASSUME LimiterInv, NEW k \in Keys PROVE meter[k] <= Full
    BY DEF RateBound, Full
  <2>1. LimiterType /\ MeterInv /\ meter[k] \in Nat
    BY DEF LimiterInv, LimiterType
  <2>2. CASE meter[k] > 0
    <3>1. k \in DOMAIN bucket /\ meter[k] + bucket[k].tokens + bucket[k].refill * FastestRate <= Full
      BY <2>1, <2>2 DEF MeterInv
    <3>2. bucket[k].tokens \in Nat /\ bucket[k].refill \in Nat
      BY <2>1, <3>1, RateFacts DEF LimiterType, Entry
    <3>3. bucket[k].refill * FastestRate \in Nat
      BY <3>2, RateFacts, TimesMonotone
    <3>. QED  BY <2>1, <3>1, <3>2, <3>3, RateFacts
  <2>. QED  BY <2>1, <2>2, RateFacts
<1>. QED  BY <1>1, LimiterInvariance, PTL

\* FairToKeys, for every number of keys and adverts and every tier, gap and
\* penalty: no key that keeps the spacing is refused, no copy is charged.
THEOREM KeysTreatedFairly == LimiterSpec => []FairToKeys
<1>1. LimiterInv => FairToKeys
  BY DEF LimiterInv
<1>. QED  BY <1>1, LimiterInvariance, PTL
=============================================================================
