---------------------------- MODULE RoomServer ----------------------------
(***************************************************************************)
(* Room servers and their clients: logins and posts that the mesh may lose,*)
(* repeat and reorder; the ACL, kept in memory; messages and one sync row  *)
(* per client, kept in SQLite; and one sync loop per room that pushes      *)
(* posts to clients and waits for their ACKs, under a limiter all rooms    *)
(* share. A loop runs without a pause from one sleep to the limiter and    *)
(* from the end of a push to the next sleep; logins and posts come between.*)
(*                                                                         *)
(* Posts are numbered in the order they are stored, which is the order of  *)
(* their post_timestamp. A client numbers its messages with its own clock. *)
(***************************************************************************)
EXTENDS Integers, Sequences, FiniteSets, SequencesExt, Selection

CONSTANTS
    Rooms, Clients,
    Server,         \* the author of what the operator posts
    NoRoom, NoRow,
    MaxFailures,    \* MAX_PUSH_FAILURES
    MaxPosts,       \* posts considered: copies of old messages could add more
                    \* after every restart and eviction
    Loads           \* the traffic considered, each a record of: room[c], the room
                    \* of client c; sends[c], what c sends, a sequence of "login"
                    \* and "post"; notices[r], how many posts the operator makes;
                    \* asks, whether a login wants "all" posts or the "new" ones;
                    \* keep, max_posts; crashes, how many restarts; idle, whether
                    \* clients may be idle too long; faults, whether writes to
                    \* SQLite may fail

ASSUME RoomAssumption ==
    /\ NoRoom \notin Rooms /\ Server \notin Clients
    /\ MaxFailures \in Nat \ {0} /\ MaxPosts \in Nat
    /\ \A n \in Loads : /\ n.room \in [Clients -> Rooms]
                        /\ n.sends \in [Clients -> Seq({"login", "post"})]
                        /\ n.notices \in [Rooms -> Nat]
                        /\ n.asks \subseteq {"all", "new"} /\ n.keep \in Nat \ {0}
                        /\ n.crashes \in Nat /\ n.idle \in BOOLEAN /\ n.faults \in BOOLEAN

VARIABLES
    load,       \* the traffic of this behaviour, which never changes
    log,        \* log[p]: the author and the room of post p
    kept,       \* posts in room_messages
    row,        \* row[c] of room_client_sync
    ripe,       \* the posts up to ripe are older than POST_SYNC_DELAY_SECS
    elapsed,    \* clients whose ACK timeout or backoff has passed
    acl,        \* acl[r]: the clients of ACL r, in the order of their logins
    lastTs,     \* ClientInfo.last_timestamp, 0 when not in the ACL
    asked,      \* ClientInfo.sync_since, while the client has no row
    turn,       \* next_client_idx
    step, job,  \* where each sync loop is, and what it pushes
    holder,     \* of GlobalRateLimiter.lock
    waiters,    \* rooms waiting for it, in order
    crashes,    \* restarts so far
    got,        \* posts a client received since its row was last set by a login
    claim,      \* the sync_since of that login
    raced,      \* clients that login found with a push to them under way
    tries,      \* pushes to a client that ended or began since its last
                \* login or ACK, up to MaxFailures + 1
    stored      \* stored[c]: the stamps of c's posts that were stored, in order,
                \* since c joined the ACL

disk   == <<log, kept, row>>
time   == <<ripe, elapsed>>
memory == <<acl, lastTs, asked>>
loops  == <<turn, step, job, holder, waiters>>
ghosts == <<got, claim, raced, tries, stored>>      \* never read
vars   == <<load, disk, time, memory, loops, crashes, ghosts>>

Room(c)    == load.room[c]
Members(r) == ToSet(acl[r])

\* What a client can have: the posts of its room by others.
Others(c) == {p \in kept : log[p].by # c /\ log[p].room = Room(c)}

NoJob == [client |-> NoRoom, post |-> 0, since |-> 0]

Init ==
    /\ load \in Loads
    /\ log = <<>> /\ kept = {} /\ row = [c \in Clients |-> NoRow]
    /\ ripe = 0 /\ elapsed = {} /\ crashes = 0
    /\ acl = [r \in Rooms |-> <<>>]
    /\ lastTs = [c \in Clients |-> 0] /\ asked = [c \in Clients |-> 0]
    /\ turn = [r \in Rooms |-> 0]
    /\ step = [r \in Rooms |-> "sleep"] /\ job = [r \in Rooms |-> NoJob]
    /\ holder = NoRoom /\ waiters = <<>>
    /\ got = [c \in Clients |-> {}] /\ claim = [c \in Clients |-> 0]
    /\ raced = {} /\ tries = [c \in Clients |-> 0] /\ stored = [c \in Clients |-> <<>>]

---------------------------------------------------------------------------
(* SQLite *)

\* upsert_client_sync: the row old after the fields in F are set, created if it
\* is missing. live is last_activity # 0.
Upsert(old, F) ==
    LET base == IF old = NoRow THEN [since |-> 0, pending |-> FALSE, failures |-> 0, live |-> TRUE]
                ELSE old
    IN [k \in DOMAIN base |-> IF k \in DOMAIN F THEN F[k] ELSE base[k]]

\* Every upsert sets updated_at, from which a backoff counts; an ACK timeout
\* counts from the push.
Touched(c) == IF row[c] # NoRow /\ row[c].pending THEN elapsed ELSE elapsed \ {c}

\* get_unsynced_messages
Unsynced(c, since) == {p \in Others(c) : p > since}

\* Mutant: the newest comes first.
Next1_Newest(S) == CHOOSE p \in S : \A q \in S : q <= p

\* Its first row: ORDER BY post_timestamp ASC LIMIT 1.
Next1(S) == CHOOSE p \in S : \A q \in S : p <= q

\* cleanup_old_messages: the newest n posts of the room.
Newest(r, n) ==
    {p \in kept : log[p].room = r /\ Cardinality({q \in kept : log[q].room = r /\ q > p}) < n}

---------------------------------------------------------------------------
(* What clients and the operator send: the messages of load.sends, any of      *)
(* which may arrive late, twice or never                                    *)

\* ACL._is_replay; a client that is new to the ACL has last_timestamp 0.
IsReplay(c, ts) == ts <= lastTs[c]

\* Mutant: the failure count survives a login.
LoginFields_Failures(since) == [since |-> since, pending |-> FALSE, live |-> TRUE]

\* The fields auth_callback_with_context resets.
LoginFields(since) == [since |-> since, pending |-> FALSE, failures |-> 0, live |-> TRUE]

\* The ACL once c has an entry.
Joined(r, c) == IF c \in Members(r) THEN acl[r] ELSE Append(acl[r], c)

\* A copy of the login c sent at ts arrives, asking for the posts after since,
\* and is accepted: the ACL entry and the row, whose write may fail unnoticed.
Login(c, ts, since, ok) ==
    LET r == Room(c) IN
    /\ load.sends[c][ts] = "login" /\ ~IsReplay(c, ts)
    /\ acl' = [acl EXCEPT ![r] = Joined(r, c)]
    /\ lastTs' = [lastTs EXCEPT ![c] = ts]
    /\ asked' = [asked EXCEPT ![c] = IF ok \/ row[c] # NoRow THEN 0 ELSE since]
    /\ IF ok
       THEN /\ row' = [row EXCEPT ![c] = Upsert(@, LoginFields(since))]
            /\ elapsed' = elapsed \ {c}
            /\ got' = [got EXCEPT ![c] = {}]
            /\ claim' = [claim EXCEPT ![c] = since]
            /\ tries' = [tries EXCEPT ![c] = IF step[r] = "send" /\ job[r].client = c THEN 1 ELSE 0]
            /\ raced' = IF job[r].client = c THEN raced \cup {c} ELSE raced \ {c}
       ELSE UNCHANGED <<row, elapsed, got, claim, tries, raced>>
    /\ UNCHANGED <<load, log, kept, ripe, loops, crashes, stored>>

\* Mutant: a post advances its author's watermark.
PostFields_Since(p) == [since |-> p, live |-> TRUE]

\* What post p refreshes in its author's row.
PostFields(p) == [live |-> TRUE]

\* RoomServer.add_post: the post is stored and its author's row refreshed.
AddPost(r, who) ==
    /\ Len(log) < MaxPosts
    /\ log' = Append(log, [by |-> who, room |-> r])
    /\ kept' = kept \cup {Len(log) + 1}
    /\ row' = [c \in Clients |-> IF c = who THEN Upsert(row[c], PostFields(Len(log) + 1)) ELSE row[c]]
    /\ elapsed' = IF who \in Clients THEN Touched(who) ELSE elapsed

\* Mutant: a retry is not told from a new message.
IsRetry_Never(c, ts) == FALSE

\* _accept_once: an equal timestamp is a retry.
IsRetry(c, ts) == ts = lastTs[c]

\* A copy of the post c sent at ts arrives, c is in the ACL and no later message
\* of c's came before: it is stored unless it is a retry or is refused, by the
\* client's role, the rate limit or a write that fails.
Post(c, ts, refused) ==
    LET r == Room(c) IN
    /\ load.sends[c][ts] = "post" /\ c \in Members(r) /\ ts >= lastTs[c]
    /\ lastTs' = [lastTs EXCEPT ![c] = ts]
    /\ IF IsRetry(c, ts) \/ refused
       THEN UNCHANGED <<disk, elapsed, stored>>
       ELSE AddPost(r, c) /\ stored' = [stored EXCEPT ![c] = Append(@, ts)]
    /\ UNCHANGED <<load, ripe, acl, asked, loops, crashes, got, claim, raced, tries>>

\* The operator posts through the web interface.
Notice(r) ==
    /\ Cardinality({p \in DOMAIN log : log[p] = [by |-> Server, room |-> r]}) < load.notices[r]
    /\ AddPost(r, Server)
    /\ UNCHANGED <<load, ripe, memory, loops, crashes, ghosts>>

\* Time passes: a post gets old enough to push, a wait or a backoff ends.
Ripen ==
    /\ ripe < Len(log) /\ ripe' = ripe + 1
    /\ UNCHANGED <<load, disk, elapsed, memory, loops, crashes, ghosts>>

Elapse(c) ==
    /\ c \notin elapsed /\ row[c] # NoRow /\ (row[c].pending \/ row[c].failures > 0)
    /\ elapsed' = elapsed \cup {c}
    /\ UNCHANGED <<load, disk, ripe, memory, loops, crashes, ghosts>>

---------------------------------------------------------------------------
(* The sync loop of a room *)

\* A client waiting for an ACK, evicted or at the limit of failures.
Skipped(R) == R # NoRow /\ (R.pending \/ ~R.live \/ R.failures >= MaxFailures)

\* _handle_ack_timeout
Failed(R) == [R EXCEPT !.failures = @ + 1, !.pending = FALSE]

\* A push under way whose ACK timeout has passed, and the row after
\* _check_ack_timeouts.
Late(c)        == row[c] # NoRow /\ row[c].pending /\ c \in elapsed
Current(c, ok) == IF Late(c) /\ ok THEN Failed(row[c]) ELSE row[c]

\* Where the client stands: its row, or else its login.
Since(c) == IF row[c] = NoRow THEN asked[c] ELSE row[c].since
Ready(c, ok) == ~Skipped(Current(c, ok)) /\ Unsynced(c, Since(c)) # {}

\* next_client_idx, back to the start once it is past the end, and the client
\* i places on.
First(r)   == IF turn[r] >= Len(acl[r]) THEN 0 ELSE turn[r]
InTurn(r, i) == acl[r][((First(r) + i - 1) % Len(acl[r])) + 1]

\* push_post_to_client before the limiter: a client that failed waits for its
\* backoff.
MayPush(c, p) == p <= ripe /\ ~Late(c) /\ (row[c] = NoRow \/ row[c].failures = 0 \/ c \in elapsed)

\* One iteration of _sync_loop that pushes: ACK timeouts, then the clients in
\* turn, up to the first with a post to have. Its oldest post is pushed if it
\* is old enough and the client is not in backoff. A client without a row gets
\* one from its login.
SyncTick(r, ok) ==
    /\ step[r] = "sleep"
    /\ \E n \in 1..Len(acl[r]) :
        LET c   == InTurn(r, n)
            p   == Next1(Unsynced(c, Since(c)))
            new == {InTurn(r, i) : i \in {j \in 1..n : row[InTurn(r, j)] = NoRow}}
        IN /\ \A i \in 1..(n - 1) : ~Ready(InTurn(r, i), ok)
           /\ n = Len(acl[r]) \/ Ready(c, ok)
           /\ turn' = [turn EXCEPT ![r] = (First(r) + n) % Len(acl[r])]
           /\ row' = [d \in Clients |-> IF d \in new /\ ok THEN Upsert(NoRow, [since |-> asked[d]])
                                       ELSE IF Room(d) = r THEN Current(d, ok) ELSE row[d]]
           /\ elapsed' = {d \in elapsed : Room(d) = r /\ ok => ~Late(d)}
           /\ claim' = [d \in Clients |-> IF d \in new THEN asked[d] ELSE claim[d]]
           /\ IF Ready(c, ok) /\ MayPush(c, p)
              THEN /\ step' = [step EXCEPT ![r] = "wait"]
                   /\ job' = [job EXCEPT ![r] = [client |-> c, post |-> p, since |-> Since(c)]]
                   /\ waiters' = Append(waiters, r)
              ELSE UNCHANGED <<step, job, waiters>>
    /\ UNCHANGED <<load, log, kept, ripe, memory, holder, crashes, got, raced, tries, stored>>

\* Mutant: the limiter paces pushes but is not held through them.
Free_Paced(r) == waiters # <<>> /\ Head(waiters) = r

\* GlobalRateLimiter.acquire: the lock goes to whoever has waited longest.
Free(r) == holder = NoRoom /\ waiters # <<>> /\ Head(waiters) = r

\* push_post_to_client has the limiter, the gap is over: the row is marked, with
\* the sync_since read before the wait, and the packet goes out.
Acquire(r, ok) ==
    LET c == job[r].client IN
    /\ step[r] = "wait" /\ Free(r)
    /\ holder' = r /\ waiters' = Tail(waiters)
    /\ step' = [step EXCEPT ![r] = "send"]
    /\ IF ok THEN /\ row' = [row EXCEPT ![c] = Upsert(@, [since |-> job[r].since, pending |-> TRUE, live |-> TRUE])]
                  /\ elapsed' = elapsed \ {c}
             ELSE UNCHANGED <<row, elapsed>>
    /\ tries' = [tries EXCEPT ![c] = IF @ > MaxFailures THEN @ ELSE @ + 1]
    /\ UNCHANGED <<load, log, kept, ripe, memory, turn, job, crashes, got, claim, raced, stored>>

\* The push ends with the client's ACK or with its timeout; the client may have
\* received the post although its ACK was lost.
PushEnds(r, received, acked, ok) ==
    LET c == job[r].client p == job[r].post IN
    /\ step[r] = "send" /\ (acked => received)
    /\ holder' = NoRoom
    /\ step' = [step EXCEPT ![r] = "sleep"] /\ job' = [job EXCEPT ![r] = NoJob]
    /\ IF ok /\ (acked \/ row[c] # NoRow)
       THEN /\ row' = [row EXCEPT ![c] =
                         IF acked THEN Upsert(@, [since |-> p, pending |-> FALSE, failures |-> 0, live |-> TRUE])
                         ELSE Failed(@)]
            /\ elapsed' = elapsed \ {c}
       ELSE UNCHANGED <<row, elapsed>>
    /\ got' = [got EXCEPT ![c] = IF received THEN @ \cup {p} ELSE @]
    /\ tries' = [tries EXCEPT ![c] = IF acked THEN 0 ELSE @]
    /\ UNCHANGED <<load, log, kept, ripe, memory, turn, waiters, crashes, claim, raced, stored>>

\* ACL.remove_client for each of out.
Remaining(r, out) == OutOf(acl[r], out)

\* _evict_failed_clients: rows at the limit of failures, and rows idle too long,
\* are marked and their clients leave the ACL.
Evict(r, idle, ok) ==
    LET out == {c \in Clients : /\ Room(c) = r /\ row[c] # NoRow /\ row[c].live
                                /\ (row[c].failures >= MaxFailures \/ c \in idle)} IN
    /\ step[r] = "sleep" /\ out # {}
    /\ row' = [c \in Clients |-> IF c \in out /\ ok THEN [row[c] EXCEPT !.live = FALSE] ELSE row[c]]
    /\ elapsed' = {c \in elapsed : c \in out => row[c].pending}
    /\ acl' = [acl EXCEPT ![r] = Remaining(r, out)]
    /\ lastTs' = [c \in Clients |-> IF c \in out THEN 0 ELSE lastTs[c]]
    /\ asked' = [c \in Clients |-> IF c \in out THEN 0 ELSE asked[c]]
    /\ stored' = [c \in Clients |-> IF c \in out THEN <<>> ELSE stored[c]]
    /\ UNCHANGED <<load, log, kept, ripe, loops, crashes, got, claim, raced, tries>>

\* _cleanup_old_messages
Cleanup(r) ==
    /\ step[r] = "sleep"
    /\ Cardinality({p \in kept : log[p].room = r}) > load.keep
    /\ kept' = {p \in kept : log[p].room = r => p \in Newest(r, load.keep)}
    /\ UNCHANGED <<load, log, row, time, memory, loops, crashes, ghosts>>

\* The daemon restarts at any point: the ACL, the loops and the limiter are new.
Crash ==
    /\ crashes < load.crashes /\ crashes' = crashes + 1
    /\ acl' = [r \in Rooms |-> <<>>]
    /\ lastTs' = [c \in Clients |-> 0] /\ asked' = [c \in Clients |-> 0]
    /\ turn' = [r \in Rooms |-> 0]
    /\ step' = [r \in Rooms |-> "sleep"] /\ job' = [r \in Rooms |-> NoJob]
    /\ holder' = NoRoom /\ waiters' = <<>>
    /\ stored' = [c \in Clients |-> <<>>]
    /\ UNCHANGED <<load, disk, time, got, claim, raced, tries>>

---------------------------------------------------------------------------
\* Does a write to SQLite succeed?
Writes == IF load.faults THEN BOOLEAN ELSE {TRUE}

\* A login asks for everything, or for what is posted from now on.
Message ==
    \/ \E c \in Clients : \E ts \in DOMAIN load.sends[c] :
           \/ \E wants \in load.asks, ok \in Writes :
                  Login(c, ts, IF wants = "all" THEN 0 ELSE Len(log), ok)
           \/ \E refused \in BOOLEAN : Post(c, ts, refused)
    \/ \E r \in Rooms : Notice(r)

Waiting == Ripen \/ (\E c \in Clients : Elapse(c))

Push(r)   == \E ok \in Writes : SyncTick(r, ok)
Begin(r)  == \E ok \in Writes : Acquire(r, ok)
Finish(r) == \E ok \in Writes, received, acked \in BOOLEAN : PushEnds(r, received, acked, ok)

Upkeep(r) == \/ \E ok \in Writes, idle \in IF load.idle THEN SUBSET Clients ELSE {{}} : Evict(r, idle, ok)
             \/ Cleanup(r)

Next == Message \/ Waiting \/ Crash \/ \E r \in Rooms : Push(r) \/ Begin(r) \/ Finish(r) \/ Upkeep(r)

Spec == Init /\ [][Next]_vars

\* The loops run, a push ends by its ACK or its timeout, and time passes.
\* Nothing makes the mesh deliver a message or a client answer.
FairSpec ==
    /\ Spec
    /\ \A r \in Rooms : WF_vars(Push(r) \/ Begin(r) \/ Finish(r))
    /\ \A c \in Clients : WF_vars(Elapse(c))
    /\ WF_vars(Ripen)

---------------------------------------------------------------------------
(* Properties *)

\* Only one room has a push on the air, and it holds the limiter until the push
\* is over: the loops share one radio, and the old limiter let them overlap.
OnePush == {r \in Rooms : step[r] = "send"} = {holder} \ {NoRoom}

\* A client's watermark never passes a post it can still have and has not
\* received since it said where it stands: a push, an ACK, a post of its own or
\* a restart skips nothing. A login during a push to it is another matter.
NoSkip ==
    \A c \in Clients \ raced :
        row[c] # NoRow => {p \in Others(c) : p > claim[c] /\ p <= row[c].since} \subseteq got[c]

\* The watermark is what the client asked for at its login or a post it received
\* since, as the comment in add_post says: it moves only when a push is ACKed.
SinceEarned ==
    \A c \in Clients : row[c] # NoRow => row[c].since \in got[c] \cup {claim[c]}

\* While a client stays in the ACL its posts are stored once each and in the
\* order it sent them, whatever copies the mesh delivers.
StoredOnce ==
    \A c \in Clients : \A i, j \in DOMAIN stored[c] : i < j => stored[c][i] < stored[c][j]

Behind(c, p) == row[c] # NoRow /\ row[c].since < p
Served(c)    == c \in Members(Room(c))

\* A post a member of the room may have is pushed until it is ACKed, unless it
\* is cleaned up, the client leaves the ACL, or the client did not answer
\* MaxFailures times. It holds whatever the other rooms and clients do, as long
\* as writes succeed.
PostsSettle ==
    \A c \in Clients, p \in 1..MaxPosts :
        (~load.faults /\ Served(c) /\ p \in Others(c) /\ Behind(c, p))
        ~> (~Behind(c, p) \/ ~Served(c) \/ p \notin kept \/ tries[c] >= MaxFailures)
=============================================================================
