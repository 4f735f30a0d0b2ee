----------------------- MODULE CompanionQueue_proofs -----------------------
(***************************************************************************)
(* For any messages, retentions and faults: a message the companion has    *)
(* taken is not lost on the way to its client, and not delivered again.    *)
(***************************************************************************)
EXTENDS CompanionQueue, Selection_proofs

TypeInv ==
    /\ queue \in Seq(Messages) /\ messageRows \in Seq(Messages)
    /\ persist \in [Messages -> {"absent", "unheard", "writing", "stored", "refused", "over"}]
    /\ sync \in [at : {"idle", "reading", "deleting", "read"}, msg : Messages \cup {none}]
    /\ client \in BOOLEAN /\ serving \in BOOLEAN
    /\ got \in [Messages -> Nat] /\ excused \subseteq Messages /\ popped \subseteq Messages

\* The queue holds a message once, from when it is received to when it is
\* popped, and does not outlive the process.
MemoryInv ==
    /\ IsInjective(queue)
    /\ ~serving => queue = <<>>
    /\ \A m \in ToSet(queue) : m \notin Unheard /\ m \notin popped

\* A row was stored; the command that deletes it has read it, and it is there
\* unless it was evicted; the command that has it has deleted it.
RowInv ==
    /\ \A m \in Messages : m \in ToSet(messageRows) \/ sync.msg = m => persist[m] \in {"stored", "over"}
    /\ sync.at \in {"idle", "reading"} => sync.msg = none
    /\ sync.at = "deleting" => sync.msg \in ToSet(messageRows) \cup excused
    /\ sync.at = "read" => sync.msg \notin ToSet(messageRows)

\* The message may still reach the client out of the database.
Pending(m) == m \in ToSet(messageRows) \/ sync.msg = m \/ persist[m] = "writing"

\* Its task is not back on the event loop.
Overlaps(m) == persist[m] \in {"writing", "stored"}

Most(m) == IF m \in popped THEN 2 ELSE 1

\* What the client got, and what it may still get, is within the bound.
OnceInv(m) ==
    /\ m \in Unheard => got[m] = 0 /\ m \notin popped
    /\ got[m] <= Most(m)
    /\ Pending(m) \/ (m \in ToSet(queue) /\ ~Overlaps(m)) => got[m] < Most(m)
    /\ m \in ToSet(queue) /\ Pending(m) => Overlaps(m)

\* A message nobody got, and whose loss is not accepted, is where its task left it.
HeldInv(m) ==
    m \notin Unheard /\ m \notin excused /\ got[m] = 0 =>
        /\ Held(m)
        /\ persist[m] = "writing" /\ serving => m \in ToSet(queue)
        /\ persist[m] = "stored" => m \in ToSet(messageRows) \/ sync.msg = m

IInv == TypeInv /\ MemoryInv /\ RowInv /\ \A m \in Messages : OnceInv(m) /\ HeldInv(m)

---------------------------------------------------------------------------
(* The invariant is kept, one action at a time                             *)

\* The oldest messages of a channel are messages of the channel that are there.
LEMMA OldestOfChannel ==
    ASSUME NEW s, NEW n
    PROVE  OldestChannel(s, n) \subseteq Channel \cap ToSet(s)
  BY DEF OldestChannel, ChannelIn, ToSet

\* What Arrive does to the messages in memory.
LEMMA Received ==
    ASSUME TypeInv, MemoryInv, NEW m \in Messages, Arrive(m)
    PROVE  /\ queue' \in Seq(Messages) /\ IsInjective(queue')
           /\ excused \subseteq excused' /\ excused' \subseteq Messages
           /\ ToSet(queue') \subseteq ToSet(queue) \cup {m}
           /\ ToSet(queue) \subseteq ToSet(queue') \cup excused'
           /\ m \in ToSet(queue') \cup excused'
<1>0. m \notin ToSet(queue)
  BY DEF Arrive, MemoryInv, Unheard
<1>1. CASE queue' = Append(queue, m) /\ UNCHANGED excused
  BY <1>0, <1>1, AppendFacts DEF TypeInv, MemoryInv
<1>2. CASE \E gone \in SUBSET (Channel \cap ToSet(queue)) :
              queue' = Append(OutOf(queue, gone), m) /\ excused' = excused \cup gone
  <2>1. PICK gone \in SUBSET (Channel \cap ToSet(queue)) :
                queue' = Append(OutOf(queue, gone), m) /\ excused' = excused \cup gone
    BY <1>2
  <2>2. /\ OutOf(queue, gone) \in Seq(Messages) /\ IsInjective(OutOf(queue, gone))
        /\ ToSet(OutOf(queue, gone)) = ToSet(queue) \ gone
    BY OutOfFacts DEF TypeInv, MemoryInv
  <2>3. /\ queue' \in Seq(Messages) /\ IsInjective(queue')
        /\ ToSet(queue') = (ToSet(queue) \ gone) \cup {m}
    BY <1>0, <2>1, <2>2, AppendFacts
  <2>4. gone \in SUBSET Messages
    BY QueueAssumption DEF QueueAssumption
  <2>. QED  BY <2>1, <2>3, <2>4 DEF TypeInv
<1>3. CASE queue' = queue /\ excused' = excused \cup {m}
  BY <1>3 DEF TypeInv, MemoryInv
<1>4. OldestChannel(queue, 1) \in SUBSET (Channel \cap ToSet(queue))
  BY OldestOfChannel
<1>. QED  BY <1>1, <1>2, <1>3, <1>4 DEF Arrive

\* A message comes.
LEMMA ReceiveKeeps ==
    ASSUME IInv, NEW m \in Messages, Arrive(m)
    PROVE  IInv'
<1>1. /\ queue' \in Seq(Messages) /\ IsInjective(queue')
      /\ excused \subseteq excused' /\ excused' \subseteq Messages
      /\ ToSet(queue') \subseteq ToSet(queue) \cup {m}
      /\ ToSet(queue) \subseteq ToSet(queue') \cup excused'
      /\ m \in ToSet(queue') \cup excused'
  BY Received DEF IInv
<1>2. /\ serving /\ persist[m] = "unheard" /\ UNCHANGED <<messageRows, sync, client, serving, got, popped>>
      /\ \A n \in Messages : persist'[n] = IF n = m THEN IF m \in ToSet(queue') THEN "writing" ELSE "over"
                                                    ELSE persist[n]
      /\ persist' \in [Messages -> {"absent", "unheard", "writing", "stored", "refused", "over"}]
  BY DEF Arrive, IInv, TypeInv
<1>3. TypeInv'
  BY <1>1, <1>2 DEF IInv, TypeInv
<1>4. /\ Unheard' = Unheard \ {m} /\ m \in Unheard
      /\ got[m] = 0 /\ m \notin popped /\ m \notin ToSet(messageRows) /\ sync.msg # m
  BY <1>2 DEF Unheard, IInv, RowInv, OnceInv
<1>5. MemoryInv'
  BY <1>1, <1>2, <1>4 DEF IInv, MemoryInv
<1>6. RowInv'
  BY <1>1, <1>2, <1>4 DEF IInv, RowInv
<1>7. ASSUME NEW n \in Messages PROVE OnceInv(n)'
  <2>1. CASE n = m
    BY <1>1, <1>2, <1>4, <2>1 DEF OnceInv, Most, Pending, Overlaps
  <2>2. CASE n # m
    BY <1>1, <1>2, <1>4, <2>2 DEF OnceInv, Most, Pending, Overlaps, IInv
  <2>. QED  BY <2>1, <2>2
<1>8. ASSUME NEW n \in Messages PROVE HeldInv(n)'
  <2>1. CASE n = m
    BY <1>1, <1>2, <1>4, <2>1 DEF HeldInv, Held
  <2>2. CASE n # m
    BY <1>1, <1>2, <1>4, <2>2 DEF HeldInv, Held, IInv
  <2>. QED  BY <2>1, <2>2
<1>. QED  BY <1>3, <1>5, <1>6, <1>7, <1>8 DEF IInv

\* Its row is committed.
LEMMA StoreKeeps ==
    ASSUME IInv, NEW m \in Messages, Store(m)
    PROVE  IInv'
<1>1. /\ persist[m] = "writing" /\ UNCHANGED <<queue, sync, client, serving, got, popped>>
      /\ \A n \in Messages : persist'[n] = IF n = m THEN "stored" ELSE persist[n]
      /\ persist' \in [Messages -> {"absent", "unheard", "writing", "stored", "refused", "over"}]
  BY DEF Store, IInv, TypeInv
<1>2. /\ messageRows' \in Seq(Messages) /\ excused \subseteq excused' /\ excused' \subseteq Messages
      /\ ToSet(messageRows') \subseteq ToSet(messageRows) \cup {m} /\ m \in ToSet(messageRows')
      /\ ToSet(messageRows) \subseteq ToSet(messageRows') \cup excused'
  <2>. DEFINE gone == Evicted(Excess)
  <2>1. gone \subseteq Channel /\ messageRows' = Append(OutOf(messageRows, gone), m)
        /\ excused' = excused \cup (gone \cap Channel)
    BY OldestOfChannel DEF Store, Evicted
  <2>. HIDE DEF gone
  <2>2. OutOf(messageRows, gone) \in Seq(Messages) /\ ToSet(OutOf(messageRows, gone)) = ToSet(messageRows) \ gone
    BY OutOfFacts DEF IInv, TypeInv
  <2>3. messageRows' \in Seq(Messages) /\ ToSet(messageRows') = (ToSet(messageRows) \ gone) \cup {m}
    BY <2>1, <2>2, AppendFacts
  <2>. QED  BY <2>1, <2>3, QueueAssumption DEF QueueAssumption, IInv, TypeInv
<1>3. TypeInv'
  BY <1>1, <1>2 DEF IInv, TypeInv
<1>4. Unheard' = Unheard /\ m \notin ToSet(messageRows) /\ sync.msg # m
  BY <1>1 DEF Unheard, IInv, RowInv
<1>5. MemoryInv'
  BY <1>1, <1>4 DEF IInv, MemoryInv
<1>6. RowInv'
  BY <1>1, <1>2, <1>4 DEF IInv, RowInv
<1>7. ASSUME NEW n \in Messages PROVE OnceInv(n)'
  BY <1>1, <1>2, <1>4 DEF OnceInv, Most, Pending, Overlaps, IInv
<1>8. ASSUME NEW n \in Messages PROVE HeldInv(n)'
  BY <1>1, <1>2, <1>4 DEF HeldInv, Held, IInv
<1>. QED  BY <1>3, <1>5, <1>6, <1>7, <1>8 DEF IInv

\* Its row is refused.
LEMMA RefuseKeeps ==
    ASSUME IInv, NEW m \in Messages, StoreRefused(m)
    PROVE  IInv'
<1>1. /\ persist[m] = "writing" /\ UNCHANGED <<queue, messageRows, sync, client, serving, got, popped>>
      /\ \A n \in Messages : persist'[n] = IF n = m THEN "refused" ELSE persist[n]
      /\ persist' \in [Messages -> {"absent", "unheard", "writing", "stored", "refused", "over"}]
      /\ excused' = IF serving THEN excused ELSE excused \cup {m}
  BY DEF StoreRefused, IInv, TypeInv
<1>2. TypeInv'
  BY <1>1 DEF IInv, TypeInv
<1>3. Unheard' = Unheard /\ m \notin ToSet(messageRows) /\ sync.msg # m
  BY <1>1 DEF Unheard, IInv, RowInv
<1>4. MemoryInv' /\ RowInv'
  BY <1>1, <1>3 DEF IInv, MemoryInv, RowInv
<1>5. ASSUME NEW n \in Messages PROVE OnceInv(n)'
  BY <1>1, <1>3 DEF OnceInv, Most, Pending, Overlaps, IInv
<1>6. ASSUME NEW n \in Messages PROVE HeldInv(n)'
  BY <1>1, <1>3 DEF HeldInv, Held, IInv
<1>. QED  BY <1>2, <1>4, <1>5, <1>6 DEF IInv

\* Its task is back on the event loop.
LEMMA ResumeKeeps ==
    ASSUME IInv, NEW m \in Messages, Resume(m)
    PROVE  IInv'
<1>1. /\ serving /\ persist[m] \in {"stored", "refused"}
      /\ UNCHANGED <<messageRows, sync, client, serving, got, excused, popped>>
      /\ \A n \in Messages : persist'[n] = IF n = m THEN "over" ELSE persist[n]
      /\ persist' \in [Messages -> {"absent", "unheard", "writing", "stored", "refused", "over"}]
  BY DEF Resume, messageGhosts, IInv, TypeInv
<1>2. /\ queue' \in Seq(Messages) /\ IsInjective(queue')
      /\ ToSet(queue') = IF persist[m] = "stored" THEN ToSet(queue) \ {m} ELSE ToSet(queue)
  BY OutOfFacts DEF Resume, Removed, IInv, TypeInv, MemoryInv
<1>3. TypeInv'
  BY <1>1, <1>2 DEF IInv, TypeInv
<1>4. Unheard' = Unheard
  BY <1>1 DEF Unheard
<1>5. MemoryInv' /\ RowInv'
  BY <1>1, <1>2, <1>4 DEF IInv, MemoryInv, RowInv
<1>6. ASSUME NEW n \in Messages PROVE OnceInv(n)'
  BY <1>1, <1>2, <1>4 DEF OnceInv, Most, Pending, Overlaps, IInv
<1>7. ASSUME NEW n \in Messages PROVE HeldInv(n)'
  BY <1>1, <1>2, <1>4 DEF HeldInv, Held, IInv
<1>. QED  BY <1>3, <1>5, <1>6, <1>7 DEF IInv

\* The client gets a message out of memory.
LEMMA SyncMemoryKeeps ==
    ASSUME IInv, SyncMemory
    PROVE  IInv'
<1> DEFINE m == Head(queue)
<1>1. /\ m \in Messages /\ m \in ToSet(queue) /\ queue' \in Seq(Messages) /\ IsInjective(queue')
      /\ ToSet(queue) = ToSet(queue') \cup {m} /\ m \notin ToSet(queue')
  BY TailFacts DEF SyncMemory, IInv, TypeInv, MemoryInv
<1>2. /\ serving /\ UNCHANGED <<messageRows, persist, sync, client, serving, excused>>
      /\ got' = [got EXCEPT ![m] = @ + 1]
      /\ popped' = IF Overlaps(m) THEN popped \cup {m} ELSE popped
  BY DEF SyncMemory, Write, Overlaps
<1>. HIDE DEF m
<1>3. \A n \in Messages : got'[n] = IF n = m THEN got[n] + 1 ELSE got[n]
  BY <1>2 DEF IInv, TypeInv
<1>4. got' \in [Messages -> Nat] /\ \A n \in Messages : got[n] \in Nat
  BY <1>1, <1>2 DEF IInv, TypeInv
<1>5. TypeInv'
  BY <1>1, <1>2, <1>4 DEF IInv, TypeInv
<1>6. Unheard' = Unheard /\ m \notin Unheard /\ m \notin popped
  BY <1>1, <1>2 DEF Unheard, IInv, MemoryInv
<1>7. MemoryInv' /\ RowInv'
  BY <1>1, <1>2, <1>6 DEF IInv, MemoryInv, RowInv
<1>8. ASSUME NEW n \in Messages PROVE OnceInv(n)'
  <2>1. CASE n = m
    BY <1>1, <1>2, <1>3, <1>4, <1>6, <2>1 DEF OnceInv, Most, Pending, Overlaps, IInv
  <2>2. CASE n # m
    BY <1>1, <1>2, <1>3, <1>6, <2>2 DEF OnceInv, Most, Pending, Overlaps, IInv
  <2>. QED  BY <2>1, <2>2
<1>9. ASSUME NEW n \in Messages PROVE HeldInv(n)'
  BY <1>1, <1>2, <1>3, <1>4, <1>6 DEF HeldInv, Held, IInv
<1>. QED  BY <1>5, <1>7, <1>8, <1>9 DEF IInv

\* Nothing happens to the messages.
LEMMA AsideKeeps ==
    ASSUME IInv, UNCHANGED <<queue, messageRows, persist, got, excused, popped, serving>>, client' \in BOOLEAN,
           sync' \in [at : {"idle", "reading", "deleting", "read"}, msg : Messages \cup {none}],
           sync' = sync \/ (sync'.at \in {"idle", "reading", "read"} /\ sync'.msg = none)
                        \/ (sync'.at = "deleting" /\ sync'.msg \in ToSet(messageRows)),
           sync'.at # "deleting" \/ sync'.msg \in ToSet(messageRows) \/ sync' = sync,
           sync.at # "read" \/ sync.msg = none \/ sync' = sync
    PROVE  IInv'
<1>1. none \notin Messages
  BY QueueAssumption DEF QueueAssumption
<1>2. TypeInv' /\ MemoryInv' /\ Unheard' = Unheard
  BY DEF IInv, TypeInv, MemoryInv, Unheard
<1>3. ToSet(messageRows) \subseteq Messages
  BY DEF IInv, TypeInv, ToSet
<1>4. RowInv'
  BY <1>1, <1>3 DEF IInv, RowInv
<1>5. ASSUME NEW n \in Messages PROVE OnceInv(n)'
  BY <1>1, <1>2, <1>3 DEF OnceInv, Most, Pending, Overlaps, IInv
<1>6. ASSUME NEW n \in Messages PROVE HeldInv(n)'
  <2>1. sync.msg = n /\ sync' # sync => n \in ToSet(messageRows) \cup excused
    BY <1>1 DEF IInv, TypeInv, RowInv
  <2>. QED  BY <1>1, <1>2, <1>3, <2>1 DEF HeldInv, Held, IInv
<1>. QED  BY <1>2, <1>4, <1>5, <1>6 DEF IInv

\* The client is served from the database: a row is read.
LEMMA SelectKeeps ==
    ASSUME IInv, SyncStored \/ Select \/ ClientComesOrGoes
    PROVE  IInv'
<1>1. CASE SyncStored
  BY <1>1, AsideKeeps DEF SyncStored, Idle, messageGhosts, IInv, TypeInv
<1>2. CASE Select
  <2>1. messageRows # <<>> => Head(messageRows) \in Messages /\ Head(messageRows) \in ToSet(messageRows)
    BY TailFacts DEF IInv, TypeInv
  <2>. QED  BY <1>2, <2>1, AsideKeeps DEF Select, messageGhosts, IInv, TypeInv
<1>3. CASE ClientComesOrGoes
  BY <1>3, AsideKeeps DEF ClientComesOrGoes, messageGhosts, IInv, TypeInv
<1>. QED  BY <1>1, <1>2, <1>3

\* The row that was read is deleted.
LEMMA DeleteKeeps ==
    ASSUME IInv, Delete
    PROVE  IInv'
<1>0. none \notin Messages
  BY QueueAssumption DEF QueueAssumption
<1>1. /\ sync.at = "deleting" /\ UNCHANGED <<queue, persist, client, serving, got, excused, popped>>
      /\ sync.msg \in Messages
      /\ sync.msg \in ToSet(messageRows) \cup excused
  BY DEF Delete, messageGhosts, IInv, RowInv, TypeInv, ToSet
<1>2. CASE messageRows' = messageRows /\ sync' = [at |-> "read", msg |-> none]
  BY <1>1, <1>2, AsideKeeps DEF IInv, TypeInv
<1>3. CASE messageRows' = Deleted(sync.msg) /\ sync' = [sync EXCEPT !.at = "read"]
  <2>1. /\ sync' \in [at : {"idle", "reading", "deleting", "read"}, msg : Messages \cup {none}]
        /\ sync'.at = "read" /\ sync'.msg = sync.msg
    BY <1>3 DEF IInv, TypeInv
  <2>2. messageRows' \in Seq(Messages) /\ ToSet(messageRows') = ToSet(messageRows) \ {sync.msg}
    BY <1>3, OutOfFacts DEF Deleted, IInv, TypeInv
  <2>3. TypeInv' /\ MemoryInv' /\ Unheard' = Unheard
    BY <1>1, <2>1, <2>2 DEF IInv, TypeInv, MemoryInv, Unheard
  <2>4. RowInv'
    BY <1>1, <2>1, <2>2 DEF IInv, RowInv
  <2>5. ASSUME NEW n \in Messages PROVE OnceInv(n)'
    BY <1>1, <2>1, <2>2, <2>3 DEF OnceInv, Most, Pending, Overlaps, IInv
  <2>6. ASSUME NEW n \in Messages PROVE HeldInv(n)'
    BY <1>1, <2>1, <2>2, <2>3 DEF HeldInv, Held, IInv
  <2>. QED  BY <2>3, <2>4, <2>5, <2>6 DEF IInv
<1>. QED  BY <1>2, <1>3 DEF Delete

\* The client gets what was deleted.
LEMMA ReplyKeeps ==
    ASSUME IInv, Reply
    PROVE  IInv'
<1>0. none \notin Messages
  BY QueueAssumption DEF QueueAssumption
<1>1. /\ sync.at = "read" /\ sync' = Idle /\ UNCHANGED <<queue, messageRows, persist, client, serving, popped>>
      /\ Idle \in [at : {"idle", "reading", "deleting", "read"}, msg : Messages \cup {none}]
      /\ sync.msg \in Messages \cup {none} /\ sync.msg \notin ToSet(messageRows)
  BY DEF Reply, Idle, IInv, RowInv, TypeInv
<1>2. CASE sync.msg = none
  BY <1>1, <1>2, AsideKeeps DEF Reply, Idle, IInv, TypeInv
<1>3. CASE sync.msg \in Messages
  <2> DEFINE m == sync.msg
  <2>1. Write(m)
    BY <1>0, <1>3 DEF Reply
  <2>2. /\ got' \in [Messages -> Nat] /\ excused \subseteq excused' /\ excused' \subseteq Messages
        /\ \A n \in Messages : got[n] \in Nat /\ got'[n] \in {got[n], got[n] + 1}
        /\ \A n \in Messages : n # m => got'[n] = got[n]
        /\ m \in excused' \/ got'[m] = got[m] + 1
    BY <1>3, <2>1 DEF Write, IInv, TypeInv
  <2>. HIDE DEF m
  <2>3. m \in Messages /\ persist[m] \in {"stored", "over"} /\ m \notin ToSet(messageRows)
    BY <1>1, <1>3 DEF m, IInv, RowInv
  <2>4. TypeInv' /\ MemoryInv' /\ Unheard' = Unheard
    BY <1>1, <2>2 DEF IInv, TypeInv, MemoryInv, Unheard
  <2>5. RowInv'
    BY <1>0, <1>1 DEF IInv, RowInv, Idle
  <2>6. ASSUME NEW n \in Messages PROVE OnceInv(n)'
    <3>1. CASE n = m
      <4>1. sync.msg = n
        BY <3>1 DEF m
      <4>. QED
        BY <1>0, <1>1, <2>2, <2>3, <2>4, <3>1, <4>1 DEF OnceInv, Most, Pending, Overlaps, IInv, Idle,
           Unheard
    <3>2. CASE n # m
      BY <1>0, <1>1, <2>2, <2>4, <3>2 DEF OnceInv, Most, Pending, Overlaps, IInv, Idle, m
    <3>. QED  BY <3>1, <3>2
  <2>7. ASSUME NEW n \in Messages PROVE HeldInv(n)'
    BY <1>0, <1>1, <2>2, <2>4 DEF HeldInv, Held, IInv, Idle, m
  <2>. QED  BY <2>4, <2>5, <2>6, <2>7 DEF IInv
<1>. QED  BY <1>1, <1>2, <1>3

\* The process ends: its memory goes, and of its work what the threads hold.
LEMMA StopKeeps ==
    ASSUME IInv, Stop
    PROVE  IInv'
<1>0. none \notin Messages
  BY QueueAssumption DEF QueueAssumption
<1>1. /\ serving' = FALSE /\ client' = FALSE /\ queue' = <<>> /\ UNCHANGED <<messageRows, persist, got, popped>>
      /\ excused' = excused \cup Unanswered \cup (ToSet(queue) \ (ToSet(messageRows) \cup Writing))
      /\ sync' = IF sync.at \in {"reading", "deleting"} THEN sync ELSE Idle
  BY DEF Stop
<1>2. queue' \in Seq(Messages) /\ ToSet(queue') = {} /\ IsInjective(queue')
  BY <1>1 DEF ToSet, IsInjective
<1>3. /\ sync' \in [at : {"idle", "reading", "deleting", "read"}, msg : Messages \cup {none}]
      /\ \/ sync' = sync /\ sync.at \in {"reading", "deleting"}
         \/ sync'.at = "idle" /\ sync'.msg = none
  BY <1>1 DEF Idle, IInv, TypeInv
<1>4. excused' \subseteq Messages /\ excused \subseteq excused'
      /\ \A n \in Messages : sync.msg = n /\ sync'.msg # n => n \in excused'
  BY <1>0, <1>1, <1>3 DEF Unanswered, Idle, IInv, TypeInv, RowInv, ToSet
<1>5. TypeInv' /\ MemoryInv' /\ Unheard' = Unheard
  <2>1. TypeInv'
    BY <1>1, <1>2, <1>3, <1>4 DEF IInv, TypeInv
  <2>2. MemoryInv'
    BY <1>1, <1>2 DEF MemoryInv
  <2>. QED  BY <1>1, <2>1, <2>2 DEF Unheard
<1>6. RowInv'
  BY <1>0, <1>1, <1>3, <1>4 DEF IInv, RowInv
<1>7. ASSUME NEW n \in Messages PROVE OnceInv(n)'
  BY <1>0, <1>1, <1>2, <1>3, <1>5 DEF OnceInv, Most, Pending, Overlaps, IInv
<1>8. ASSUME NEW n \in Messages PROVE HeldInv(n)'
  BY <1>0, <1>1, <1>2, <1>3, <1>4, <1>5 DEF HeldInv, Held, IInv, Writing
<1>. QED  BY <1>5, <1>6, <1>7, <1>8 DEF IInv

\* The process dies with its threads.
LEMMA CrashKeeps ==
    ASSUME IInv, Crash
    PROVE  IInv'
<1>0. none \notin Messages
  BY QueueAssumption DEF QueueAssumption
<1>1. /\ serving' = FALSE /\ client' = FALSE /\ queue' = <<>> /\ sync' = Idle /\ UNCHANGED <<messageRows, got, popped>>
      /\ excused' = excused \cup Unanswered \cup ((ToSet(queue) \cup Writing) \ ToSet(messageRows))
      /\ \A n \in Messages : persist'[n] = IF n \in Unheard THEN persist[n] ELSE "over"
      /\ persist' \in [Messages -> {"absent", "unheard", "writing", "stored", "refused", "over"}]
  BY DEF Crash, IInv, TypeInv
<1>2. queue' \in Seq(Messages) /\ ToSet(queue') = {} /\ IsInjective(queue')
  BY <1>1 DEF ToSet, IsInjective
<1>3. Idle \in [at : {"idle", "reading", "deleting", "read"}, msg : Messages \cup {none}]
  BY DEF Idle
<1>4. /\ excused' \subseteq Messages /\ excused \subseteq excused'
      /\ \A n \in Messages : sync.msg = n => n \in excused' \cup ToSet(messageRows)
  BY <1>0, <1>1 DEF Unanswered, Writing, IInv, TypeInv, RowInv, ToSet
<1>5. /\ \A n \in Messages : n \in Unheard => persist[n] \in {"absent", "unheard"}
      /\ Unheard' = Unheard
  BY <1>1 DEF Unheard
<1>6. TypeInv' /\ MemoryInv'
  <2>1. TypeInv'
    BY <1>1, <1>2, <1>3, <1>4 DEF IInv, TypeInv
  <2>2. MemoryInv'
    BY <1>1, <1>2, <1>5 DEF IInv, MemoryInv
  <2>. QED  BY <2>1, <2>2
<1>7. RowInv'
  BY <1>0, <1>1, <1>5 DEF IInv, RowInv, Idle
<1>8. ASSUME NEW n \in Messages PROVE OnceInv(n)'
  BY <1>0, <1>1, <1>2, <1>5 DEF OnceInv, Most, Pending, Overlaps, IInv, Idle
<1>9. ASSUME NEW n \in Messages PROVE HeldInv(n)'
  BY <1>0, <1>1, <1>2, <1>4, <1>5 DEF HeldInv, Held, IInv, Writing, Idle
<1>. QED  BY <1>6, <1>7, <1>8, <1>9 DEF IInv

\* The next process starts from the rows.
LEMMA StartKeeps ==
    ASSUME IInv, Start
    PROVE  IInv'
<1>0. none \notin Messages
  BY QueueAssumption DEF QueueAssumption
<1>1. /\ ~serving /\ serving' = TRUE /\ sync' = Idle /\ UNCHANGED <<queue, messageRows, client, got, popped>>
      /\ excused' = excused \cup Unanswered /\ sync.at \notin {"reading", "deleting"}
      /\ \A n \in Messages : persist[n] # "writing"
      /\ \A n \in Messages : persist'[n] = IF n \in Unheard THEN persist[n] ELSE "over"
      /\ persist' \in [Messages -> {"absent", "unheard", "writing", "stored", "refused", "over"}]
  BY DEF Start, IInv, TypeInv
<1>2. ToSet(queue) = {}
  BY <1>1 DEF IInv, MemoryInv, ToSet
<1>3. Idle \in [at : {"idle", "reading", "deleting", "read"}, msg : Messages \cup {none}]
  BY DEF Idle
<1>4. /\ excused' \subseteq Messages /\ excused \subseteq excused'
      /\ \A n \in Messages : sync.msg = n => n \in excused'
  BY <1>0, <1>1 DEF Unanswered, IInv, TypeInv, RowInv
<1>5. /\ \A n \in Messages : n \in Unheard => persist[n] \in {"absent", "unheard"}
      /\ Unheard' = Unheard
  BY <1>1 DEF Unheard
<1>6. TypeInv' /\ MemoryInv'
  <2>1. TypeInv'
    BY <1>1, <1>2, <1>3, <1>4 DEF IInv, TypeInv
  <2>2. MemoryInv'
    BY <1>1, <1>2, <1>5 DEF IInv, MemoryInv
  <2>. QED  BY <2>1, <2>2
<1>7. RowInv'
  BY <1>0, <1>1, <1>5 DEF IInv, RowInv, Idle
<1>8. ASSUME NEW n \in Messages PROVE OnceInv(n)'
  BY <1>0, <1>1, <1>2, <1>5 DEF OnceInv, Most, Pending, Overlaps, IInv, Idle
<1>9. ASSUME NEW n \in Messages PROVE HeldInv(n)'
  BY <1>0, <1>1, <1>2, <1>4, <1>5 DEF HeldInv, Held, IInv, Idle
<1>. QED  BY <1>6, <1>7, <1>8, <1>9 DEF IInv

---------------------------------------------------------------------------
(* The theorems                                                            *)

\* The invariant holds in every reachable state.
THEOREM QueueInvariance == QueueSpec => []IInv
<1>1. QueueInit => IInv
  <2> SUFFICES ASSUME QueueInit PROVE IInv
    OBVIOUS
  <2>0. none \notin Messages
    BY QueueAssumption DEF QueueAssumption
  <2>1. queue = <<>> /\ messageRows = <<>> /\ ToSet(<<>>) = {} /\ IsInjective(<<>>)
    BY DEF QueueInit, ToSet, IsInjective
  <2>2. /\ persist \in [Messages -> {"absent", "unheard"}] /\ Unheard = Messages
        /\ \A m \in Messages : persist[m] \in {"absent", "unheard"}
    BY DEF QueueInit, Unheard
  <2>3. TypeInv
    BY <2>1, <2>2 DEF QueueInit, TypeInv, Idle
  <2>4. MemoryInv /\ RowInv
    BY <2>0, <2>1, <2>2 DEF QueueInit, MemoryInv, RowInv, Idle
  <2>5. \A m \in Messages : OnceInv(m) /\ HeldInv(m)
    BY <2>0, <2>1, <2>2 DEF QueueInit, OnceInv, HeldInv, Most, Pending, Idle
  <2>. QED  BY <2>3, <2>4, <2>5 DEF IInv
<1>2. IInv /\ [QueueNext]_queueVars => IInv'
  <2> SUFFICES ASSUME IInv, [QueueNext]_queueVars PROVE IInv'
    OBVIOUS
  <2>1. CASE UNCHANGED queueVars
    BY <2>1, AsideKeeps DEF queueVars, messageGhosts, IInv, TypeInv
  <2>. QED
    BY <2>1, ReceiveKeeps, StoreKeeps, RefuseKeeps, ResumeKeeps, SyncMemoryKeeps, SelectKeeps,
       DeleteKeeps, ReplyKeeps, StopKeeps, CrashKeeps, StartKeeps DEF QueueNext
<1>. QED  BY <1>1, <1>2, PTL DEF QueueSpec

\* For any messages, retention and order of threads, commands and restarts: a
\* message that was taken is not lost, nor delivered again.
THEOREM AlwaysDeliveredOnce == QueueSpec => []DeliveredOnce
<1>1. IInv => DeliveredOnce
  BY DEF IInv, OnceInv, HeldInv, Most, DeliveredOnce, NothingLost, TwiceOnlyOverlapped
<1>. QED  BY <1>1, QueueInvariance, PTL
=============================================================================
