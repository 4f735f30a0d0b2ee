------------------------- MODULE CompanionQueue -------------------------
(***************************************************************************)
(* The messages of one companion on their way to its client. A received   *)
(* message is pushed to the bridge's queue in memory; a task then writes   *)
(* it to companion_messages in a thread and takes it out of memory. The    *)
(* client asks for one message at a time: from memory first, else the      *)
(* oldest row, deleted in a thread before the frame is written.            *)
(*                                                                         *)
(* Threads commit in any order and may fail; the client comes and goes;    *)
(* the daemon stops or crashes and starts with another offline_queue_size. *)
(* A retention of 0, which stores nothing, is left out.                    *)
(***************************************************************************)
EXTENDS Naturals, Sequences, SequencesExt, FiniteSets, Selection

CONSTANTS
    Messages,
    Channel,        \* the messages of a channel; the others are direct
    PacketHashOf,   \* packet_hash of each message
    Arrivals,       \* bounds: the messages that may come, the SQLite calls that may raise
    Sizes,          \* the offline_queue_size a start may find in the settings
    MaxStarts,      \* bound: restarts
    none

ASSUME QueueAssumption ==
    /\ Channel \subseteq Messages /\ PacketHashOf \in [Messages -> Messages]
    /\ Arrivals \subseteq [heard : SUBSET Messages, faults : Nat]
    /\ Sizes \subseteq Nat \ {0} /\ Sizes # {}
    /\ none \notin Messages /\ MaxStarts \in Nat

VARIABLES
    size,       \* message_queue.max_size, the retention of the rows too
    queue,      \* bridge.message_queue, oldest first
    messageRows,    \* companion_messages in the order of their ids
    persist,    \* where the task of _persist_companion_message stands, for each message
    sync,       \* the client's command: where it stands and the message it holds
    client,     \* a client is connected
    serving,    \* the frame server runs
    starts,
    sqlFaults,  \* SQLite calls that may still raise
    got,        \* how often each message was written to a client; never read
    excused,    \* messages whose loss the code accepts; never read
    popped      \* messages taken from memory while they were being stored; never read

messageGhosts == <<got, excused, popped>>
queueVars == <<size, queue, messageRows, persist, sync, client, serving, starts, sqlFaults, messageGhosts>>

Idle == [at |-> "idle", msg |-> none]

QueueInit ==
    /\ size \in Sizes
    /\ queue = <<>> /\ messageRows = <<>>
    /\ \E a \in Arrivals :
          /\ persist = [m \in Messages |-> IF m \in a.heard THEN "unheard" ELSE "absent"]
          /\ sqlFaults = a.faults
    /\ sync = Idle /\ client = TRUE /\ serving = TRUE /\ starts = 0
    /\ got = [m \in Messages |-> 0] /\ excused = {} /\ popped = {}

CallFails == sqlFaults > 0 /\ sqlFaults' = sqlFaults - 1

\* Where s has messages of a channel, and its first n, or all if there are fewer.
ChannelIn(s) == {i \in DOMAIN s : s[i] \in Channel}
OldestChannel(s, n) ==
    {s[i] : i \in {i \in ChannelIn(s) : Cardinality({j \in ChannelIn(s) : j <= i}) <= n}}

---------------------------------------------------------------------------
(* A message is received: the bridge pushes it, and raises the event whose  *)
(* handler persists it unless the queue refused it. MeshCore's policy: a    *)
(* full queue gives up its oldest channel message, never a direct one.      *)

Arrive(m) ==
    /\ serving /\ persist[m] = "unheard"
    /\ IF Len(queue) < size
       THEN /\ queue' = Append(queue, m)
            /\ UNCHANGED excused
       ELSE IF ChannelIn(queue) # {}
       THEN LET oldest == OldestChannel(queue, 1)
            IN  queue' = Append(OutOf(queue, oldest), m) /\ excused' = excused \cup oldest
       ELSE queue' = queue /\ excused' = excused \cup {m}
    /\ persist' = [persist EXCEPT ![m] = IF m \in ToSet(queue') THEN "writing" ELSE "over"]
    /\ UNCHANGED <<size, messageRows, sync, client, serving, starts, sqlFaults, got, popped>>

\* companion_push_message, in the thread: one transaction.
Duplicate(m) == \E i \in DOMAIN messageRows : PacketHashOf[messageRows[i]] = PacketHashOf[m]
Excess == IF Len(messageRows) + 1 > size THEN Len(messageRows) + 1 - size ELSE 0

HasRoom(m) == Cardinality(ChannelIn(messageRows)) >= Excess

\* Mutant: the oldest rows go, whatever they are.
Evicted_Any(n) == ToSet(SubSeq(messageRows, 1, n))
Evicted(n) == OldestChannel(messageRows, n)

Store(m) ==
    /\ persist[m] = "writing" /\ ~Duplicate(m) /\ HasRoom(m)
    /\ messageRows' = Append(OutOf(messageRows, Evicted(Excess)), m)
    /\ persist' = [persist EXCEPT ![m] = "stored"]
    /\ excused' = excused \cup (Evicted(Excess) \cap Channel)
    /\ UNCHANGED <<size, queue, sync, client, serving, starts, sqlFaults, got, popped>>

StoreRefused(m) ==
    /\ persist[m] = "writing"
    /\ \/ (Duplicate(m) \/ ~HasRoom(m)) /\ UNCHANGED sqlFaults
       \/ CallFails
    /\ persist' = [persist EXCEPT ![m] = "refused"]
    /\ excused' = IF serving THEN excused ELSE excused \cup {m}
    /\ UNCHANGED <<size, queue, messageRows, sync, client, serving, starts, got, popped>>

\* Back on the event loop: the entry itself leaves the queue, if it is still
\* there; a message that was refused stays in memory.
\* Mutant: the newest entry leaves (pop_last).
Removed_Last(m) == SubSeq(queue, 1, Len(queue) - 1)
Removed(m) == OutOf(queue, {m})

Resume(m) ==
    /\ serving /\ persist[m] \in {"stored", "refused"}
    /\ queue' = IF persist[m] = "stored" THEN Removed(m) ELSE queue
    /\ persist' = [persist EXCEPT ![m] = "over"]
    /\ UNCHANGED <<size, messageRows, sync, client, serving, starts, sqlFaults, messageGhosts>>

---------------------------------------------------------------------------
(* _cmd_sync_next_message *)

Write(m) ==
    /\ got' = IF client THEN [got EXCEPT ![m] = @ + 1] ELSE got
    /\ excused' = IF client THEN excused ELSE excused \cup {m}

SyncMemory ==
    /\ serving /\ client /\ sync = Idle /\ queue # <<>>
    /\ queue' = Tail(queue)
    /\ Write(Head(queue))
    /\ popped' = IF persist[Head(queue)] \in {"writing", "stored"}
                 THEN popped \cup {Head(queue)} ELSE popped
    /\ UNCHANGED <<size, messageRows, persist, sync, client, serving, starts, sqlFaults>>

SyncStored ==
    /\ serving /\ client /\ sync = Idle /\ queue = <<>>
    /\ sync' = [at |-> "reading", msg |-> none]
    /\ UNCHANGED <<size, queue, messageRows, persist, client, serving, starts, sqlFaults, messageGhosts>>

\* companion_pop_message, in the thread: the SELECT opens no transaction, so a
\* push may commit between it and the DELETE.
Select ==
    /\ sync.at = "reading"
    /\ \/ messageRows # <<>> /\ sync' = [at |-> "deleting", msg |-> Head(messageRows)] /\ UNCHANGED sqlFaults
       \/ messageRows = <<>> /\ sync' = [at |-> "read", msg |-> none] /\ UNCHANGED sqlFaults
       \/ CallFails /\ sync' = [at |-> "read", msg |-> none]
    /\ UNCHANGED <<size, queue, messageRows, persist, client, serving, starts, messageGhosts>>

\* Mutant: the row is kept until the frame is written.
Deleted_Kept(m) == messageRows
Deleted(m) == OutOf(messageRows, {m})

Delete ==
    /\ sync.at = "deleting"
    /\ \/ messageRows' = Deleted(sync.msg) /\ sync' = [sync EXCEPT !.at = "read"] /\ UNCHANGED sqlFaults
       \/ CallFails /\ sync' = [at |-> "read", msg |-> none] /\ UNCHANGED messageRows
    /\ UNCHANGED <<size, queue, persist, client, serving, starts, messageGhosts>>

\* Back on the event loop: the frame, or that there are no more messages.
Reply ==
    /\ serving /\ sync.at = "read"
    /\ IF sync.msg = none THEN UNCHANGED <<got, excused>> ELSE Write(sync.msg)
    /\ sync' = Idle
    /\ UNCHANGED <<size, queue, messageRows, persist, client, serving, starts, sqlFaults, popped>>

ClientComesOrGoes ==
    /\ serving /\ client' = ~client
    /\ UNCHANGED <<size, queue, messageRows, persist, sync, serving, starts, sqlFaults, messageGhosts>>

---------------------------------------------------------------------------
(* The daemon stops, crashes and starts. The queue in memory is not saved,   *)
(* nor read back: the rows stay where they are (_restore_companion_state).   *)

Unheard == {m \in Messages : persist[m] \in {"absent", "unheard"}}
Writing == {m \in Messages : persist[m] = "writing"}
Unanswered == IF sync.at = "read" /\ sync.msg # none THEN {sync.msg} ELSE {}

\* A stop lets the threads finish what they were given.
Stop ==
    /\ serving /\ serving' = FALSE /\ client' = FALSE
    /\ queue' = <<>>
    /\ excused' = excused \cup Unanswered \cup (ToSet(queue) \ (ToSet(messageRows) \cup Writing))
    /\ sync' = IF sync.at \in {"reading", "deleting"} THEN sync ELSE Idle
    /\ UNCHANGED <<size, messageRows, persist, starts, sqlFaults, got, popped>>

Crash ==
    /\ serving' = FALSE /\ client' = FALSE
    /\ queue' = <<>> /\ sync' = Idle
    /\ persist' = [m \in Messages |-> IF m \in Unheard THEN persist[m] ELSE "over"]
    /\ excused' = excused \cup Unanswered \cup ((ToSet(queue) \cup Writing) \ ToSet(messageRows))
    /\ UNCHANGED <<size, messageRows, starts, sqlFaults, got, popped>>

\* The next process has none of the tasks and commands of the last one.
Start ==
    /\ ~serving /\ starts < MaxStarts
    /\ sync.at \notin {"reading", "deleting"}
    /\ \A m \in Messages : persist[m] # "writing"
    /\ serving' = TRUE /\ starts' = starts + 1
    /\ size' \in Sizes
    /\ persist' = [m \in Messages |-> IF m \in Unheard THEN persist[m] ELSE "over"]
    /\ sync' = Idle
    /\ excused' = excused \cup Unanswered
    /\ UNCHANGED <<queue, messageRows, client, sqlFaults, got, popped>>

QueueNext ==
    \/ \E m \in Messages : Arrive(m) \/ Store(m) \/ StoreRefused(m) \/ Resume(m)
    \/ SyncMemory \/ SyncStored \/ Select \/ Delete \/ Reply
    \/ ClientComesOrGoes \/ Stop \/ Crash \/ Start

QueueSpec == QueueInit /\ [][QueueNext]_queueVars

---------------------------------------------------------------------------
(* Properties *)

Held(m) == m \in ToSet(queue) \/ m \in ToSet(messageRows) \/ sync.msg = m \/ persist[m] = "writing"

\* A message the companion has taken is written to a client, or still held in
\* memory, in a row or by the task or command that has it, through overlapping
\* writes, evictions, restarts and SQLite errors. The losses the code accepts: a
\* channel message that makes room, a direct one refused by a full memory queue,
\* a message only in memory at a stop, a frame whose client is gone
\* (_persist_companion_message, companion_push_message, _cmd_sync_next_message).
NothingLost ==
    \A m \in Messages :
        m \notin Unheard /\ m \notin excused /\ got[m] = 0 => Held(m)

\* A client gets a message twice only if it took it from memory while it was
\* being stored, and never a third time; no restart, failed read or refused write
\* brings one back (_remove_queue_entry, companion_pop_message).
TwiceOnlyOverlapped == \A m \in Messages : got[m] <= (IF m \in popped THEN 2 ELSE 1)

\* A message reaches the client once: not lost on the way, and not delivered
\* again, but for what is said above (_persist_companion_message,
\* _cmd_sync_next_message).
DeliveredOnce == NothingLost /\ TwiceOnlyOverlapped
=============================================================================
