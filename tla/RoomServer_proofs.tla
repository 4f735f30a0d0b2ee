------------------------- MODULE RoomServer_proofs -------------------------
(***************************************************************************)
(* For any rooms, clients and traffic: one push is on the air at a time, a *)
(* client's watermark skips no post, and a post is stored once.            *)
(***************************************************************************)
EXTENDS RoomServer, Selection_proofs

SyncRow == [since : Nat, pending : BOOLEAN, failures : Nat, live : BOOLEAN]
PushJob == [client : Clients \cup {NoRoom}, post : Nat, since : Nat]
Posts   == [by : Clients \cup {Server}, room : Rooms]

TypeInv ==
    /\ load \in Loads
    /\ log \in Seq(Posts) /\ kept \subseteq 1..Len(log)
    /\ row \in [Clients -> SyncRow \cup {NoRow}]
    /\ acl \in [Rooms -> Seq(Clients)]
    /\ lastTs \in [Clients -> Nat] /\ asked \in [Clients -> 0..Len(log)]
    /\ turn \in [Rooms -> Nat]
    /\ step \in [Rooms -> {"sleep", "wait", "send"}] /\ job \in [Rooms -> PushJob]
    /\ holder \in Rooms \cup {NoRoom} /\ waiters \in Seq(Rooms)
    /\ got \in [Clients -> SUBSET Nat] /\ claim \in [Clients -> Nat]
    /\ raced \subseteq Clients /\ stored \in [Clients -> Seq(Nat)]

\* A room's ACL and its push are about its own clients.
PlaceInv ==
    \A r \in Rooms :
        /\ \A c \in ToSet(acl[r]) : Room(c) = r
        /\ step[r] # "sleep" => job[r].client \in Clients /\ Room(job[r].client) = r

\* What client c can have, said it does not have, and never got.
Missed(c) == {p \in Others(c) : p > claim[c] /\ p \notin got[c]}

\* The watermark of a row, and the one a push will write, are not past the end
\* of the log: a post stored later is past them.
BoundInv ==
    /\ \A c \in Clients : row[c] # NoRow => row[c].since <= Len(log)
    /\ \A r \in Rooms : job[r].since <= Len(log) /\ job[r].post <= Len(log)

Pushed(c) == step[Room(c)] # "sleep" /\ job[Room(c)].client = c

\* Every missed post is past the row's watermark. It is past the one that a push
\* read too, and no older than the post pushed.
SkipInv(c) ==
    c \notin raced =>
        \A p \in Missed(c) :
            /\ row[c] # NoRow => row[c].since < p
            /\ Pushed(c) => job[Room(c)].since < p /\ job[Room(c)].post <= p

\* Posts are stored in the order of their stamps, none past the last accepted.
StampInv(c) ==
    /\ \A i, j \in DOMAIN stored[c] : i < j => stored[c][i] < stored[c][j]
    /\ \A i \in DOMAIN stored[c] : stored[c][i] <= lastTs[c]

IInv ==
    /\ TypeInv /\ PlaceInv /\ OnePush /\ BoundInv
    /\ \A c \in Clients : SkipInv(c) /\ StampInv(c)

---------------------------------------------------------------------------
(* Rows and missed posts                                                   *)

Has(F, k) == k \in DOMAIN F

\* An upsert makes a row, and leaves the watermark unless it is one of the
\* fields to set.
LEMMA UpsertFacts ==
    ASSUME NEW old \in SyncRow \cup {NoRow}, NEW F,
           Has(F, "since") => F["since"] \in Nat,
           Has(F, "pending") => F["pending"] \in BOOLEAN,
           Has(F, "failures") => F["failures"] \in Nat,
           Has(F, "live") => F["live"] \in BOOLEAN
    PROVE  /\ Upsert(old, F) \in SyncRow
           /\ Upsert(old, F).since =
                 IF Has(F, "since") THEN F["since"] ELSE IF old = NoRow THEN 0 ELSE old.since
<1> DEFINE base == IF old = NoRow THEN [since |-> 0, pending |-> FALSE, failures |-> 0, live |-> TRUE]
                   ELSE old
           new == [k \in DOMAIN base |-> IF k \in DOMAIN F THEN F[k] ELSE base[k]]
<1>1. base \in SyncRow /\ base.since = IF old = NoRow THEN 0 ELSE old.since
  BY DEF SyncRow
<1>2. DOMAIN base = {"since", "pending", "failures", "live"}
  BY <1>1 DEF SyncRow
<1>3. Upsert(old, F) = new
  BY DEF Upsert
<1>4. /\ base["since"] \in Nat /\ base["pending"] \in BOOLEAN
      /\ base["failures"] \in Nat /\ base["live"] \in BOOLEAN
  BY <1>1 DEF SyncRow
<1>. HIDE DEF base
<1>5. /\ new["since"] = IF Has(F, "since") THEN F["since"] ELSE base["since"]
      /\ new["pending"] = IF Has(F, "pending") THEN F["pending"] ELSE base["pending"]
      /\ new["failures"] = IF Has(F, "failures") THEN F["failures"] ELSE base["failures"]
      /\ new["live"] = IF Has(F, "live") THEN F["live"] ELSE base["live"]
  BY <1>2 DEF Has
<1>6. new = [since |-> new["since"], pending |-> new["pending"],
             failures |-> new["failures"], live |-> new["live"]]
  BY <1>2
<1>7. /\ new["since"] \in Nat /\ new["pending"] \in BOOLEAN
      /\ new["failures"] \in Nat /\ new["live"] \in BOOLEAN
  BY <1>4, <1>5
<1>. HIDE DEF new
<1>8. new \in SyncRow
  BY <1>6, <1>7 DEF SyncRow
<1>. QED  BY <1>1, <1>3, <1>5, <1>8

LEMMA FailedFacts ==
    ASSUME NEW R \in SyncRow
    PROVE  Failed(R) \in SyncRow /\ Failed(R).since = R.since
<1>1. /\ R.since \in Nat /\ R.pending \in BOOLEAN /\ R.failures \in Nat /\ R.live \in BOOLEAN
      /\ R = [since |-> R.since, pending |-> R.pending, failures |-> R.failures, live |-> R.live]
  BY DEF SyncRow
<1>2. DOMAIN R = {"since", "pending", "failures", "live"}
  BY DEF SyncRow
<1>. DEFINE new == Failed(R)
<1>3. /\ DOMAIN new = {"since", "pending", "failures", "live"}
      /\ new["since"] = R.since /\ new["pending"] = FALSE
      /\ new["failures"] = R.failures + 1 /\ new["live"] = R.live
  BY <1>2 DEF Failed
<1>4. new = [k \in {"since", "pending", "failures", "live"} |-> new[k]]
  BY <1>2 DEF Failed
<1>. HIDE DEF new
<1>5. new = [since |-> new["since"], pending |-> new["pending"],
             failures |-> new["failures"], live |-> new["live"]]
  BY <1>3, <1>4
<1>6. /\ new["since"] \in Nat /\ new["pending"] \in BOOLEAN
      /\ new["failures"] \in Nat /\ new["live"] \in BOOLEAN
  <2>1. new["since"] \in Nat /\ new["live"] \in BOOLEAN
    BY <1>1, <1>3
  <2>2. new["pending"] \in BOOLEAN
    BY <1>3
  <2>3. new["failures"] \in Nat
    BY <1>1, <1>3
  <2>. QED  BY <2>1, <2>2, <2>3
<1>7. new \in SyncRow
  BY <1>5, <1>6 DEF SyncRow
<1>. QED  BY <1>3, <1>7 DEF new

\* Clients are in rooms, and number what they send.
LEMMA LoadFacts ==
    ASSUME TypeInv
    PROVE  \A c \in Clients : Room(c) \in Rooms /\ \A ts \in DOMAIN load.sends[c] : ts \in Nat
<1>1. load.room \in [Clients -> Rooms] /\ load.sends \in [Clients -> Seq({"login", "post"})]
  BY RoomAssumption DEF TypeInv
<1>. QED  BY <1>1 DEF Room

LEMMA StampTypes ==
    ASSUME TypeInv, NEW c \in Clients
    PROVE  stored[c] \in Seq(Nat) /\ lastTs[c] \in Nat
BY DEF TypeInv

\* The last stamp accepted only grows while the client's posts stand.
LEMMA StampStays ==
    ASSUME TypeInv, NEW c \in Clients, StampInv(c), stored'[c] = stored[c],
           lastTs'[c] \in Nat, lastTs[c] <= lastTs'[c]
    PROVE  StampInv(c)'
<1>1. \A i \in DOMAIN stored[c] : stored[c][i] \in Nat
  BY StampTypes
<1>2. \A i \in DOMAIN stored[c] : stored[c][i] <= lastTs'[c]
  BY <1>1, StampTypes DEF StampInv
<1>. QED  BY <1>2 DEF StampInv

\* Nothing more is missed while the log and the login stand.
LEMMA MissedStays ==
    ASSUME UNCHANGED <<load, log>>, kept' \subseteq kept,
           NEW c \in Clients, claim'[c] = claim[c], got[c] \subseteq got'[c]
    PROVE  Missed(c)' \subseteq Missed(c)
BY DEF Missed, Others, Room

\* A new post comes after all there are.
LEMMA MissedGrows ==
    ASSUME TypeInv, NEW x, log' = Append(log, x), kept' = kept \cup {Len(log) + 1},
           UNCHANGED <<load, got, claim>>, NEW c \in Clients
    PROVE  Missed(c)' \subseteq Missed(c) \cup {Len(log) + 1}
<1>1. \A p \in kept : log'[p] = log[p]
  BY DEF TypeInv
<1>. QED  BY <1>1 DEF Missed, Others, Room

LEMMA MissedFacts ==
    ASSUME TypeInv, NEW c \in Clients
    PROVE  Missed(c) \subseteq 1..Len(log)
BY DEF TypeInv, Missed, Others

\* A client that misses nothing more keeps its part of the invariant when its
\* row and its push stay, or end.
LEMMA SkipStays ==
    ASSUME NEW c \in Clients, SkipInv(c), Missed(c)' \subseteq Missed(c),
           load' = load, c \in raced => c \in raced',
           row'[c] # NoRow => row[c] # NoRow /\ row'[c].since = row[c].since,
           Pushed(c)' => Pushed(c) /\ job'[Room(c)] = job[Room(c)]
    PROVE  SkipInv(c)'
<1>1. Room(c)' = Room(c)
  BY DEF Room
<1>. QED  BY <1>1 DEF SkipInv

---------------------------------------------------------------------------
(* What clients and the operator send                                      *)

LEMMA LoginKeeps ==
    ASSUME IInv, NEW c \in Clients, NEW ts \in DOMAIN load.sends[c],
           NEW since \in 0..Len(log), NEW ok \in BOOLEAN, Login(c, ts, since, ok)
    PROVE  IInv'
<1>. DEFINE r == Room(c)
<1>. USE DEF IInv
<1>1. r \in Rooms /\ ts \in Nat
  BY LoadFacts
<1>2. Joined(r, c) \in Seq(Clients) /\ ToSet(Joined(r, c)) \subseteq ToSet(acl[r]) \cup {c}
  BY <1>1, AppendFacts DEF TypeInv, Joined
<1>3. UNCHANGED <<load, log, kept, turn, step, job, holder, waiters, stored>>
  BY DEF Login, loops
<1>4. /\ row' \in [Clients -> SyncRow \cup {NoRow}]
      /\ row'[c] = row[c] \/ row'[c].since = since
      /\ ok => row'[c].since = since
      /\ \A d \in Clients \ {c} : row'[d] = row[d]
  <2>1. Upsert(row[c], LoginFields(since)) \in SyncRow
        /\ Upsert(row[c], LoginFields(since)).since = since
    <3>1. row[c] \in SyncRow \cup {NoRow} /\ since \in Nat
      BY DEF TypeInv
    <3>. DEFINE F == LoginFields(since)
    <3>2. /\ Has(F, "since") /\ F["since"] = since /\ F["pending"] \in BOOLEAN
          /\ F["failures"] \in Nat /\ F["live"] \in BOOLEAN
      BY DEF LoginFields, Has
    <3>. HIDE DEF F
    <3>3. Upsert(row[c], F) \in SyncRow /\ Upsert(row[c], F).since = since
      BY <3>1, <3>2, UpsertFacts
    <3>. QED  BY <3>3 DEF F
  <2>2. row \in [Clients -> SyncRow \cup {NoRow}]
    BY DEF TypeInv
  <2>3. row' = IF ok THEN [row EXCEPT ![c] = Upsert(row[c], LoginFields(since))] ELSE row
    BY DEF Login
  <2>. QED  BY <2>1, <2>2, <2>3
<1>5. TypeInv'
  <2>1. acl' \in [Rooms -> Seq(Clients)] /\ lastTs' \in [Clients -> Nat]
    BY <1>1, <1>2 DEF TypeInv, Login
  <2>2. asked' \in [Clients -> 0..Len(log)]
    BY <1>3 DEF TypeInv, Login
  <2>3. CASE ok
    <3>1. got' = [got EXCEPT ![c] = {}] /\ claim' = [claim EXCEPT ![c] = since]
          /\ (raced' = raced \cup {c} \/ raced' = raced \ {c})
      BY <2>3 DEF Login
    <3>2. got' \in [Clients -> SUBSET Nat]
      BY <3>1 DEF TypeInv
    <3>3. claim' \in [Clients -> Nat] /\ raced' \subseteq Clients
      BY <3>1 DEF TypeInv
    <3>. QED  BY <1>3, <1>4, <2>1, <2>2, <3>2, <3>3 DEF TypeInv
  <2>4. CASE ~ok
    BY <1>3, <1>4, <2>1, <2>2, <2>4 DEF TypeInv, Login
  <2>. QED  BY <2>3, <2>4
<1>6. PlaceInv'
  BY <1>1, <1>2, <1>3 DEF PlaceInv, Login, Room, TypeInv
<1>7. OnePush'
  BY <1>3 DEF OnePush
<1>8. BoundInv'
  <2>1. \A d \in Clients : row'[d] # NoRow => row'[d].since <= Len(log)
    <3>1. row'[c] # NoRow => row'[c].since <= Len(log)
      BY <1>4 DEF BoundInv
    <3>. QED  BY <1>4, <3>1 DEF BoundInv
  <2>. QED  BY <1>3, <2>1 DEF BoundInv
<1>9. ASSUME NEW d \in Clients
      PROVE  SkipInv(d)' /\ StampInv(d)'
  <2>1. StampInv(d)'
    <3>1. lastTs' = [lastTs EXCEPT ![c] = ts] /\ ~(ts <= lastTs[c])
      BY DEF Login, IsReplay
    <3>2. lastTs[c] \in Nat /\ lastTs[d] \in Nat /\ lastTs \in [Clients -> Nat]
      BY StampTypes DEF TypeInv
    <3>3. lastTs'[d] \in Nat /\ lastTs[d] <= lastTs'[d]
      BY <1>1, <3>1, <3>2
    <3>. QED  BY <1>3, <3>3, StampStays
  <2>2. CASE d = c /\ ok
    <3>1. \A p \in Missed(c)' : p > since
      BY <2>2 DEF Missed, Login, TypeInv
    <3>2. row'[c].since = since
      BY <1>4, <2>2
    <3>3. c \notin raced' => ~Pushed(c)'
      BY <1>3, <2>2 DEF Login, Pushed, Room, TypeInv
    <3>4. Missed(c)' \subseteq 1..Len(log)
      BY <1>3 DEF Missed, Others, TypeInv
    <3>. QED  BY <2>1, <2>2, <3>1, <3>2, <3>3, <3>4 DEF SkipInv
  <2>3. CASE ~(d = c /\ ok)
    <3>1. /\ claim'[d] = claim[d] /\ got'[d] = got[d] /\ row'[d] = row[d]
          /\ d \in raced => d \in raced'
      BY <2>3 DEF Login, TypeInv
    <3>2. Missed(d)' \subseteq Missed(d)
      BY <1>3, <3>1, MissedStays
    <3>3. Pushed(d)' => Pushed(d) /\ job'[Room(d)] = job[Room(d)]
      BY <1>3 DEF Pushed, Room
    <3>. QED  BY <1>3, <2>1, <3>1, <3>2, <3>3, SkipStays
  <2>. QED  BY <2>2, <2>3
<1>. QED  BY <1>5, <1>6, <1>7, <1>8, <1>9

\* A stored post creates its author's row or leaves its watermark.
LEMMA PostAdded ==
    ASSUME TypeInv, NEW r \in Rooms, NEW who \in Clients \cup {Server}, AddPost(r, who)
    PROVE  /\ log' \in Seq(Posts) /\ Len(log') = Len(log) + 1 /\ kept' \subseteq 1..Len(log')
           /\ row' \in [Clients -> SyncRow \cup {NoRow}]
           /\ \A c \in Clients : row'[c] # NoRow =>
                  row'[c].since = 0 \/ (row[c] # NoRow /\ row'[c].since = row[c].since)
<1>1. log' = Append(log, [by |-> who, room |-> r]) /\ [by |-> who, room |-> r] \in Posts
  BY DEF AddPost, Posts
<1>2. log' \in Seq(Posts) /\ Len(log') = Len(log) + 1
  BY <1>1 DEF TypeInv
<1>3. kept' \subseteq 1..Len(log')
  <2>1. Len(log) \in Nat /\ kept \subseteq 1..Len(log) /\ kept' = kept \cup {Len(log) + 1}
    BY DEF TypeInv, AddPost
  <2>2. 1..Len(log) \subseteq 1..Len(log) + 1 /\ Len(log) + 1 \in 1..Len(log) + 1
    BY <2>1
  <2>. QED  BY <1>2, <2>1, <2>2
<1>4. ASSUME NEW c \in Clients
      PROVE  /\ row'[c] \in SyncRow \cup {NoRow}
             /\ row'[c] # NoRow =>
                  row'[c].since = 0 \/ (row[c] # NoRow /\ row'[c].since = row[c].since)
  <2>1. row[c] \in SyncRow \cup {NoRow}
    BY DEF TypeInv
  <2>2. /\ Upsert(row[c], PostFields(Len(log) + 1)) \in SyncRow
        /\ Upsert(row[c], PostFields(Len(log) + 1)).since = IF row[c] = NoRow THEN 0 ELSE row[c].since
    BY <2>1, UpsertFacts DEF PostFields, Has
  <2>3. row'[c] = IF c = who THEN Upsert(row[c], PostFields(Len(log) + 1)) ELSE row[c]
    BY DEF AddPost
  <2>. QED  BY <2>1, <2>2, <2>3
<1>5. DOMAIN row' = Clients /\ row' = [c \in Clients |-> row'[c]]
  BY DEF AddPost
<1>. QED  BY <1>2, <1>3, <1>4, <1>5

LEMMA AddPostKeeps ==
    ASSUME IInv, NEW r \in Rooms, NEW who \in Clients \cup {Server}, AddPost(r, who),
           UNCHANGED <<load, acl, asked, loops, got, claim, raced>>,
           lastTs' \in [Clients -> Nat], stored' \in [Clients -> Seq(Nat)]
    PROVE  /\ TypeInv' /\ PlaceInv' /\ OnePush' /\ BoundInv'
           /\ \A c \in Clients : SkipInv(c)'
<1>. USE DEF IInv
<1>1. UNCHANGED <<turn, step, job, holder, waiters>>
  BY DEF loops
<1>2. /\ log' \in Seq(Posts) /\ Len(log') = Len(log) + 1 /\ kept' \subseteq 1..Len(log')
      /\ row' \in [Clients -> SyncRow \cup {NoRow}]
      /\ \A c \in Clients : row'[c] # NoRow =>
             row'[c].since = 0 \/ (row[c] # NoRow /\ row'[c].since = row[c].since)
  BY PostAdded
<1>3. Len(log) \in Nat
  BY DEF TypeInv
<1>4. TypeInv'
  <2>1. asked' \in [Clients -> 0..Len(log')]
    BY <1>2, <1>3 DEF TypeInv
  <2>. QED  BY <1>1, <1>2, <2>1 DEF TypeInv
<1>5. PlaceInv' /\ OnePush'
  BY <1>1 DEF PlaceInv, OnePush, Room
<1>6. BoundInv'
  <2>1. \A c \in Clients : row'[c] # NoRow => row'[c].since <= Len(log')
    <3>1. \A c \in Clients : row[c] # NoRow => row[c].since \in Nat
      BY DEF TypeInv, SyncRow
    <3>. QED  BY <1>2, <1>3, <3>1 DEF BoundInv
  <2>2. \A q \in Rooms : job'[q].since <= Len(log') /\ job'[q].post <= Len(log')
    <3>1. \A q \in Rooms : job[q].since \in Nat /\ job[q].post \in Nat
      BY DEF TypeInv, PushJob
    <3>. QED  BY <1>1, <1>2, <1>3, <3>1 DEF BoundInv
  <2>. QED  BY <2>1, <2>2 DEF BoundInv
<1>7. ASSUME NEW c \in Clients PROVE SkipInv(c)'
  <2>. SUFFICES ASSUME c \notin raced, NEW p \in Missed(c)'
                PROVE  /\ row'[c] # NoRow => row'[c].since < p
                       /\ Pushed(c)' => job'[Room(c)'].since < p /\ job'[Room(c)'].post <= p
    BY DEF SkipInv
  <2>1. p \in Missed(c) \cup {Len(log) + 1} /\ Missed(c) \subseteq 1..Len(log)
    BY MissedGrows, MissedFacts DEF AddPost
  <2>2. Room(c)' = Room(c) /\ Pushed(c)' = Pushed(c) /\ Room(c) \in Rooms
    BY <1>1, LoadFacts DEF Room, Pushed
  <2>3. row'[c] # NoRow => row'[c].since < p
    <3>1. row[c] # NoRow => row[c].since \in Nat /\ row[c].since <= Len(log)
      BY DEF TypeInv, SyncRow, BoundInv
    <3>2. row[c] # NoRow /\ p \in Missed(c) => row[c].since < p
      BY DEF SkipInv
    <3>. QED  BY <1>2, <1>3, <2>1, <3>1, <3>2
  <2>4. Pushed(c)' => job'[Room(c)'].since < p /\ job'[Room(c)'].post <= p
    <3>1. job[Room(c)].since \in 0..Len(log) /\ job[Room(c)].post \in 0..Len(log)
      BY <2>2 DEF TypeInv, PushJob, BoundInv
    <3>2. Pushed(c) /\ p \in Missed(c) => job[Room(c)].since < p /\ job[Room(c)].post <= p
      BY DEF SkipInv
    <3>. QED  BY <1>1, <1>3, <2>1, <2>2, <3>1, <3>2
  <2>. QED  BY <2>3, <2>4
<1>. QED  BY <1>4, <1>5, <1>6, <1>7

LEMMA PostKeeps ==
    ASSUME IInv, NEW c \in Clients, NEW ts \in DOMAIN load.sends[c], NEW refused, Post(c, ts, refused)
    PROVE  IInv'
<1>. USE DEF IInv
<1>1. Room(c) \in Rooms /\ ts \in Nat /\ lastTs[c] \in Nat /\ ts >= lastTs[c]
  BY LoadFacts DEF TypeInv, Post
<1>2. UNCHANGED <<load, acl, asked, loops, got, claim, raced>>
  BY DEF Post
<1>3. lastTs' = [lastTs EXCEPT ![c] = ts] /\ lastTs' \in [Clients -> Nat]
  BY <1>1 DEF Post, TypeInv
<1>4. CASE UNCHANGED <<disk, stored>>
  <2>1. UNCHANGED <<log, kept, row, turn, step, job, holder, waiters, stored>>
    BY <1>2, <1>4 DEF disk, loops
  <2>2. TypeInv' /\ PlaceInv' /\ OnePush' /\ BoundInv'
    BY <1>2, <1>3, <2>1 DEF TypeInv, PlaceInv, OnePush, BoundInv, Room
  <2>3. ASSUME NEW d \in Clients PROVE SkipInv(d)' /\ StampInv(d)'
    <3>1. SkipInv(d)'
      BY <1>2, <2>1 DEF SkipInv, Missed, Others, Pushed, Room
    <3>2. lastTs'[d] \in Nat /\ lastTs[d] <= lastTs'[d]
      BY <1>1, <1>3, StampTypes
    <3>. QED  BY <2>1, <3>1, <3>2, StampStays
  <2>. QED  BY <2>2, <2>3
<1>5. CASE /\ ~IsRetry(c, ts) /\ AddPost(Room(c), c)
           /\ stored' = [stored EXCEPT ![c] = Append(@, ts)]
  <2>1. stored' \in [Clients -> Seq(Nat)]
    BY <1>1, <1>5 DEF TypeInv
  <2>2. /\ TypeInv' /\ PlaceInv' /\ OnePush' /\ BoundInv'
        /\ \A d \in Clients : SkipInv(d)'
    BY <1>1, <1>2, <1>3, <1>5, <2>1, AddPostKeeps
  <2>3. ASSUME NEW d \in Clients PROVE StampInv(d)'
    <3>1. /\ stored[d] \in Seq(Nat) /\ lastTs[d] \in Nat
          /\ \A i, j \in DOMAIN stored[d] : i < j => stored[d][i] < stored[d][j]
          /\ \A i \in DOMAIN stored[d] : stored[d][i] <= lastTs[d]
      BY DEF TypeInv, StampInv
    <3>2. CASE d = c
      <4>1. lastTs[d] < ts /\ stored'[d] = Append(stored[d], ts) /\ lastTs'[d] = ts
        BY <1>1, <1>3, <1>5, <3>2 DEF IsRetry, TypeInv
      <4>2. /\ DOMAIN stored'[d] = DOMAIN stored[d] \cup {Len(stored[d]) + 1}
            /\ stored'[d][Len(stored[d]) + 1] = ts
            /\ \A i \in DOMAIN stored[d] : stored'[d][i] = stored[d][i] /\ i < Len(stored[d]) + 1
                                           /\ stored[d][i] \in Nat
        BY <3>1, <4>1
      <4>3. \A i \in DOMAIN stored[d] : stored[d][i] < ts
        BY <1>1, <3>1, <4>1, <4>2
      <4>4. \A i \in DOMAIN stored[d] : ~(Len(stored[d]) + 1 < i)
        BY <3>1
      <4>5. \A i, j \in DOMAIN stored'[d] : i < j => stored'[d][i] < stored'[d][j]
        <5>1. Len(stored[d]) + 1 \in Nat /\ ~(Len(stored[d]) + 1 < Len(stored[d]) + 1)
          BY <3>1
        <5>. QED  BY <3>1, <4>2, <4>3, <4>4, <5>1
      <4>6. \A i \in DOMAIN stored'[d] : stored'[d][i] <= ts
        BY <1>1, <4>2, <4>3
      <4>. QED  BY <4>1, <4>5, <4>6 DEF StampInv
    <3>3. CASE d # c
      BY <1>3, <1>5, <3>1, <3>3 DEF StampInv, TypeInv
    <3>. QED  BY <3>2, <3>3
  <2>. QED  BY <2>2, <2>3
<1>. QED  BY <1>4, <1>5 DEF Post

LEMMA NoticeKeeps ==
    ASSUME IInv, NEW r \in Rooms, Notice(r)
    PROVE  IInv'
<1>1. AddPost(r, Server) /\ UNCHANGED <<load, acl, asked, lastTs, loops, got, claim, raced, stored>>
  BY DEF Notice, memory, ghosts
<1>2. /\ TypeInv' /\ PlaceInv' /\ OnePush' /\ BoundInv'
      /\ \A c \in Clients : SkipInv(c)'
  BY <1>1, AddPostKeeps DEF IInv, TypeInv
<1>3. \A c \in Clients : StampInv(c)'
  BY <1>1 DEF IInv, StampInv
<1>. QED  BY <1>2, <1>3 DEF IInv

---------------------------------------------------------------------------
(* The sync loop                                                           *)

\* A step that leaves the loops and the log alone, and whose rows keep their
\* watermarks.
LEMMA RowsKeep ==
    ASSUME IInv, UNCHANGED <<load, log, loops, got, claim, raced>>, kept' \subseteq kept,
           row' \in [Clients -> SyncRow \cup {NoRow}],
           \A c \in Clients : row'[c] # NoRow => row[c] # NoRow /\ row'[c].since = row[c].since,
           acl' \in [Rooms -> Seq(Clients)], \A r \in Rooms : ToSet(acl'[r]) \subseteq ToSet(acl[r]),
           lastTs' \in [Clients -> Nat], asked' \in [Clients -> 0..Len(log)],
           stored' \in [Clients -> Seq(Nat)],
           \A c \in Clients : stored'[c] = <<>> \/ UNCHANGED <<stored[c], lastTs[c]>>
    PROVE  IInv'
<1>. USE DEF IInv
<1>1. UNCHANGED <<turn, step, job, holder, waiters>>
  BY DEF loops
<1>2. TypeInv'
  BY <1>1 DEF TypeInv
<1>3. PlaceInv' /\ OnePush' /\ BoundInv'
  BY <1>1 DEF PlaceInv, OnePush, BoundInv, Room
<1>4. ASSUME NEW c \in Clients PROVE SkipInv(c)' /\ StampInv(c)'
  <2>1. Missed(c)' \subseteq Missed(c)
    BY MissedStays
  <2>2. Pushed(c)' => Pushed(c) /\ job'[Room(c)] = job[Room(c)]
    BY <1>1 DEF Pushed, Room
  <2>3. SkipInv(c)'
    BY <2>1, <2>2, SkipStays
  <2>4. CASE stored'[c] = <<>>
    <3>1. DOMAIN stored'[c] = {}
      BY <2>4
    <3>. QED  BY <2>3, <3>1 DEF StampInv
  <2>5. CASE stored'[c] = stored[c] /\ lastTs'[c] = lastTs[c]
    BY <2>3, <2>5 DEF StampInv
  <2>. QED  BY <2>4, <2>5
<1>. QED  BY <1>2, <1>3, <1>4

LEMMA TimeKeeps ==
    ASSUME IInv, UNCHANGED <<load, disk, memory, loops, ghosts>>
    PROVE  IInv'
<1>1. UNCHANGED <<load, log, loops, got, claim, raced, kept, row, acl, lastTs, asked, stored>>
  BY DEF disk, memory, ghosts
<1>. QED  BY <1>1, RowsKeep DEF IInv, TypeInv

LEMMA CleanupKeeps ==
    ASSUME IInv, NEW r \in Rooms, Cleanup(r)
    PROVE  IInv'
<1>1. /\ UNCHANGED <<load, log, loops, got, claim, raced, row, acl, lastTs, asked, stored>>
      /\ kept' \subseteq kept
  BY DEF Cleanup, memory, ghosts
<1>. QED  BY <1>1, RowsKeep DEF IInv, TypeInv

LEMMA EvictKeeps ==
    ASSUME IInv, NEW r \in Rooms, NEW idle, NEW ok \in BOOLEAN, Evict(r, idle, ok)
    PROVE  IInv'
<1>. DEFINE out == {c \in Clients : /\ Room(c) = r /\ row[c] # NoRow /\ row[c].live
                                    /\ (row[c].failures >= MaxFailures \/ c \in idle)}
<1>1. /\ row' = [c \in Clients |-> IF c \in out /\ ok THEN [row[c] EXCEPT !.live = FALSE] ELSE row[c]]
      /\ acl' = [acl EXCEPT ![r] = Remaining(r, out)]
      /\ lastTs' = [c \in Clients |-> IF c \in out THEN 0 ELSE lastTs[c]]
      /\ asked' = [c \in Clients |-> IF c \in out THEN 0 ELSE asked[c]]
      /\ stored' = [c \in Clients |-> IF c \in out THEN <<>> ELSE stored[c]]
      /\ UNCHANGED <<load, log, kept, loops, got, claim, raced>>
  BY DEF Evict
<1>2. \A c \in out : row[c] # NoRow
  OBVIOUS
<1>3. TypeInv
  BY DEF IInv
<1>. HIDE DEF out
<1>4. ASSUME NEW c \in Clients
      PROVE  /\ row'[c] \in SyncRow \cup {NoRow}
             /\ row'[c] # NoRow => row[c] # NoRow /\ row'[c].since = row[c].since
  <2>1. row[c] \in SyncRow \cup {NoRow}
    BY <1>3 DEF TypeInv
  <2>2. CASE c \in out /\ ok
    <3>1. row[c] \in SyncRow /\ row'[c] = [row[c] EXCEPT !.live = FALSE]
      BY <1>1, <1>2, <2>1, <2>2
    <3>. QED  BY <1>2, <2>2, <3>1 DEF SyncRow
  <2>3. CASE ~(c \in out /\ ok)
    BY <1>1, <2>1, <2>3
  <2>. QED  BY <2>2, <2>3
<1>5. row' \in [Clients -> SyncRow \cup {NoRow}]
  BY <1>1, <1>4
<1>6. /\ acl' \in [Rooms -> Seq(Clients)]
      /\ \A q \in Rooms : ToSet(acl'[q]) \subseteq ToSet(acl[q])
  <2>1. Remaining(r, out) \in Seq(Clients) /\ ToSet(Remaining(r, out)) \subseteq ToSet(acl[r])
    BY <1>3, OutOfFacts DEF TypeInv, Remaining
  <2>. QED  BY <1>1, <1>3, <2>1 DEF TypeInv
<1>7. /\ lastTs' \in [Clients -> Nat] /\ asked' \in [Clients -> 0..Len(log)]
      /\ stored' \in [Clients -> Seq(Nat)]
      /\ \A c \in Clients : stored'[c] = <<>> \/ UNCHANGED <<stored[c], lastTs[c]>>
  BY <1>1, <1>3 DEF TypeInv
<1>. QED  BY <1>1, <1>4, <1>5, <1>6, <1>7, RowsKeep

LEMMA CrashKeeps ==
    ASSUME IInv, Crash
    PROVE  IInv'
<1>. USE DEF IInv
<1>1. /\ UNCHANGED <<load, log, kept, row, got, claim, raced>>
      /\ acl' = [r \in Rooms |-> <<>>] /\ step' = [r \in Rooms |-> "sleep"]
      /\ lastTs' = [c \in Clients |-> 0] /\ asked' = [c \in Clients |-> 0]
      /\ turn' = [r \in Rooms |-> 0] /\ job' = [r \in Rooms |-> NoJob]
      /\ holder' = NoRoom /\ waiters' = <<>> /\ stored' = [c \in Clients |-> <<>>]
  BY DEF Crash, disk
<1>2. NoJob \in PushJob /\ NoJob.since = 0 /\ NoJob.post = 0
  BY DEF NoJob, PushJob
<1>3. TypeInv'
  <2>1. Len(log) \in Nat
    BY DEF TypeInv
  <2>. QED  BY <1>1, <1>2, <2>1 DEF TypeInv
<1>4. PlaceInv' /\ OnePush'
  BY <1>1 DEF PlaceInv, OnePush, ToSet
<1>5. BoundInv'
  <2>1. Len(log) \in Nat
    BY DEF TypeInv
  <2>. QED  BY <1>1, <1>2, <2>1 DEF BoundInv
<1>6. ASSUME NEW c \in Clients PROVE SkipInv(c)' /\ StampInv(c)'
  <2>1. Missed(c)' \subseteq Missed(c)
    BY <1>1, MissedStays
  <2>2. ~Pushed(c)'
    BY <1>1, LoadFacts DEF Pushed, Room
  <2>3. SkipInv(c)'
    BY <1>1, <2>1, <2>2, SkipStays
  <2>4. StampInv(c)'
    BY <1>1 DEF StampInv
  <2>. QED  BY <2>3, <2>4
<1>. QED  BY <1>3, <1>4, <1>5, <1>6

\* The push has the limiter: no other was under way.
LEMMA AcquireKeeps ==
    ASSUME IInv, NEW r \in Rooms, NEW ok \in BOOLEAN, Acquire(r, ok)
    PROVE  IInv'
<1>. DEFINE c == job[r].client
            fields == [since |-> job[r].since, pending |-> TRUE, live |-> TRUE]
<1>. USE DEF IInv
<1>1. /\ step[r] = "wait" /\ c \in Clients /\ Room(c) = r
      /\ job[r].since \in Nat /\ job[r].since <= Len(log)
  BY DEF Acquire, PlaceInv, TypeInv, PushJob, BoundInv
<1>2. /\ UNCHANGED <<load, log, kept, acl, lastTs, asked, turn, job, got, claim, raced, stored>>
      /\ step' = [step EXCEPT ![r] = "send"] /\ holder' = r /\ waiters' = Tail(waiters)
      /\ holder = NoRoom /\ waiters # <<>>
      /\ row' = IF ok THEN [row EXCEPT ![c] = Upsert(@, fields)] ELSE row
  BY DEF Acquire, memory, Free
<1>3. Upsert(row[c], fields) \in SyncRow /\ Upsert(row[c], fields).since = job[r].since
  <2>1. row[c] \in SyncRow \cup {NoRow}
    BY <1>1 DEF TypeInv
  <2>. QED  BY <1>1, <2>1, UpsertFacts DEF Has
<1>. HIDE DEF fields
<1>4. /\ row' \in [Clients -> SyncRow \cup {NoRow}]
      /\ \A d \in Clients \ {c} : row'[d] = row[d]
      /\ row'[c] = row[c] \/ row'[c].since = job[r].since
  BY <1>1, <1>2, <1>3 DEF TypeInv
<1>5. TypeInv'
  <2>1. step' \in [Rooms -> {"sleep", "wait", "send"}] /\ holder' \in Rooms \cup {NoRoom}
    BY <1>2 DEF TypeInv
  <2>2. waiters' \in Seq(Rooms)
    BY <1>2 DEF TypeInv
  <2>. QED  BY <1>2, <1>4, <2>1, <2>2 DEF TypeInv
<1>6. PlaceInv'
  BY <1>1, <1>2 DEF PlaceInv, TypeInv, Room
<1>7. OnePush'
  <2>1. NoRoom \notin Rooms /\ step \in [Rooms -> {"sleep", "wait", "send"}]
    BY RoomAssumption DEF TypeInv
  <2>2. \A q \in Rooms : step[q] # "send"
    BY <1>2, <2>1 DEF OnePush
  <2>3. {q \in Rooms : step'[q] = "send"} = {r}
    BY <1>2, <2>1, <2>2
  <2>. QED  BY <1>2, <2>1, <2>3 DEF OnePush
<1>8. BoundInv'
  <2>1. ASSUME NEW d \in Clients, row'[d] # NoRow PROVE row'[d].since <= Len(log)
    BY <1>1, <1>4, <2>1 DEF BoundInv
  <2>. QED  BY <1>2, <2>1 DEF BoundInv
<1>9. ASSUME NEW d \in Clients PROVE SkipInv(d)' /\ StampInv(d)'
  <2>1. Missed(d)' \subseteq Missed(d)
    BY <1>2, MissedStays
  <2>2. Pushed(d)' => Pushed(d) /\ job'[Room(d)] = job[Room(d)]
    BY <1>1, <1>2, LoadFacts DEF Pushed, Room, TypeInv
  <2>3. CASE row'[d] = row[d]
    BY <1>2, <2>1, <2>2, <2>3, SkipStays DEF StampInv
  <2>4. CASE d = c /\ row'[c].since = job[r].since
    <3>1. Pushed(c) /\ Room(c)' = Room(c)
      BY <1>1, <1>2 DEF Pushed, Room
    <3>2. SkipInv(c)'
      BY <1>1, <1>2, <2>1, <2>2, <2>4, <3>1 DEF SkipInv
    <3>. QED  BY <1>2, <2>4, <3>2 DEF StampInv
  <2>. QED  BY <1>4, <2>3, <2>4
<1>. QED  BY <1>5, <1>6, <1>7, <1>8, <1>9

\* An ACK moves the watermark to the post pushed, which was the oldest missed.
LEMMA PushEndsKeeps ==
    ASSUME IInv, NEW r \in Rooms, NEW received \in BOOLEAN, NEW acked \in BOOLEAN, NEW ok \in BOOLEAN,
           PushEnds(r, received, acked, ok)
    PROVE  IInv'
<1>. DEFINE c == job[r].client
            p == job[r].post
            fields == [since |-> p, pending |-> FALSE, failures |-> 0, live |-> TRUE]
<1>. USE DEF IInv
<1>1. /\ step[r] = "send" /\ c \in Clients /\ Room(c) = r
      /\ p \in Nat /\ p <= Len(log)
  BY DEF PushEnds, PlaceInv, TypeInv, PushJob, BoundInv
<1>2. /\ UNCHANGED <<load, log, kept, acl, lastTs, asked, turn, waiters, claim, raced, stored>>
      /\ step' = [step EXCEPT ![r] = "sleep"] /\ holder' = NoRoom
      /\ job' = [job EXCEPT ![r] = NoJob] /\ (acked => received)
      /\ got' = [got EXCEPT ![c] = IF received THEN @ \cup {p} ELSE @]
      /\ row' = IF ok /\ (acked \/ row[c] # NoRow)
                THEN [row EXCEPT ![c] = IF acked THEN Upsert(@, fields) ELSE Failed(@)]
                ELSE row
  BY DEF PushEnds, memory
<1>3. row[c] \in SyncRow \cup {NoRow}
  BY <1>1 DEF TypeInv
<1>4. Upsert(row[c], fields) \in SyncRow /\ Upsert(row[c], fields).since = p
  BY <1>1, <1>3, UpsertFacts DEF Has
<1>5. row[c] # NoRow => Failed(row[c]) \in SyncRow /\ Failed(row[c]).since = row[c].since
  BY <1>3, FailedFacts
<1>. HIDE DEF fields
<1>6. /\ row' \in [Clients -> SyncRow \cup {NoRow}]
      /\ \A d \in Clients \ {c} : row'[d] = row[d]
      /\ \/ row'[c] = row[c]
         \/ row[c] # NoRow /\ row'[c].since = row[c].since
         \/ acked /\ row'[c].since = p
  BY <1>1, <1>2, <1>3, <1>4, <1>5 DEF TypeInv
<1>7. NoJob \in PushJob /\ NoJob.since = 0 /\ NoJob.post = 0
  BY DEF NoJob, PushJob
<1>8. TypeInv'
  <2>1. step' \in [Rooms -> {"sleep", "wait", "send"}] /\ holder' \in Rooms \cup {NoRoom}
        /\ job' \in [Rooms -> PushJob]
    BY <1>2, <1>7 DEF TypeInv
  <2>2. got' \in [Clients -> SUBSET Nat]
    BY <1>1, <1>2 DEF TypeInv
  <2>. QED  BY <1>2, <1>6, <2>1, <2>2 DEF TypeInv
<1>9. PlaceInv' /\ OnePush'
  <2>1. PlaceInv'
    BY <1>1, <1>2 DEF PlaceInv, TypeInv, Room
  <2>2. OnePush'
    <3>1. NoRoom \notin Rooms /\ step \in [Rooms -> {"sleep", "wait", "send"}]
      BY RoomAssumption DEF TypeInv
    <3>2. \A q \in Rooms : step[q] = "send" <=> q = r
      BY <1>1, <3>1 DEF OnePush
    <3>3. \A q \in Rooms : step'[q] # "send"
      BY <1>2, <3>1, <3>2
    <3>. QED  BY <1>2, <3>3 DEF OnePush
  <2>. QED  BY <2>1, <2>2
<1>10. BoundInv'
  <2>1. ASSUME NEW d \in Clients, row'[d] # NoRow PROVE row'[d].since <= Len(log)
    BY <1>1, <1>6, <2>1 DEF BoundInv
  <2>2. \A q \in Rooms : job'[q].since <= Len(log) /\ job'[q].post <= Len(log)
    <3>1. Len(log) \in Nat /\ job \in [Rooms -> PushJob]
      BY DEF TypeInv
    <3>2. job' = [job EXCEPT ![r] = NoJob] /\ NoJob.since <= Len(log) /\ NoJob.post <= Len(log)
      BY <1>2, <1>7, <3>1
    <3>. QED  BY <3>1, <3>2 DEF BoundInv
  <2>. QED  BY <1>2, <2>1, <2>2 DEF BoundInv
<1>11. ASSUME NEW d \in Clients PROVE SkipInv(d)' /\ StampInv(d)'
  <2>1. got[d] \subseteq got'[d] /\ (d = c /\ received => p \in got'[d])
    BY <1>1, <1>2 DEF TypeInv
  <2>2. Missed(d)' \subseteq Missed(d) /\ (d = c /\ received => p \notin Missed(d)')
    <3>1. Missed(d)' \subseteq Missed(d)
      BY <1>2, <2>1, MissedStays
    <3>2. d = c /\ received => p \notin Missed(d)'
      BY <2>1 DEF Missed
    <3>. QED  BY <3>1, <3>2
  <2>3. Pushed(d)' => Pushed(d) /\ job'[Room(d)] = job[Room(d)]
    BY <1>1, <1>2, LoadFacts DEF Pushed, Room, TypeInv
  <2>4. CASE row'[d] # NoRow => row[d] # NoRow /\ row'[d].since = row[d].since
    BY <1>2, <2>2, <2>3, <2>4, SkipStays DEF StampInv
  <2>5. CASE d = c /\ acked /\ row'[d].since = p
    <3>1. Pushed(d) /\ Room(d) = r /\ Room(d)' = r
      BY <1>1, <1>2, <2>5 DEF Pushed, Room
    <3>2. Missed(d)' \subseteq Missed(d) \ {p} /\ Missed(d) \subseteq 1..Len(log)
      BY <1>2, <2>2, <2>5, MissedFacts
    <3>3. d \notin raced => \A q \in Missed(d)' : p < q
      BY <1>1, <3>1, <3>2 DEF SkipInv
    <3>4. ~Pushed(d)'
      BY <1>2, <3>1 DEF Pushed, TypeInv
    <3>. QED  BY <1>2, <2>5, <3>3, <3>4 DEF SkipInv, StampInv
  <2>. QED  BY <1>6, <2>4, <2>5
<1>. QED  BY <1>8, <1>9, <1>10, <1>11

\* The post pushed is the oldest its client has not had.
LEMMA OldestFirst ==
    ASSUME TypeInv, NEW c \in Clients, NEW since, Unsynced(c, since) # {}
    PROVE  /\ Next1(Unsynced(c, since)) \in 1..Len(log)
           /\ \A q \in Unsynced(c, since) : Next1(Unsynced(c, since)) <= q
<1>1. Unsynced(c, since) \subseteq 1..Len(log)
  BY DEF Unsynced, Others, TypeInv
<1>2. \E p \in Unsynced(c, since) : \A q \in Unsynced(c, since) : p <= q
  <2>1. Unsynced(c, since) \in SUBSET Nat
    BY <1>1
  <2>. QED  BY <2>1, Least
<1>. QED  BY <1>1, <1>2 DEF Next1

\* A row after the check for ACK timeouts.
LEMMA CurrentFacts ==
    ASSUME TypeInv, NEW d \in Clients, NEW ok \in BOOLEAN
    PROVE  /\ Current(d, ok) \in SyncRow \cup {NoRow}
           /\ Current(d, ok) # NoRow => row[d] # NoRow /\ Current(d, ok).since = row[d].since
           /\ row[d] = NoRow => Current(d, ok) = NoRow
<1>1. row[d] \in SyncRow \cup {NoRow}
  BY DEF TypeInv
<1>. QED  BY <1>1, FailedFacts DEF Current, Late

\* Where the loop's clients are in the ACL.
LEMMA InTurnFacts ==
    ASSUME TypeInv, PlaceInv, NEW r \in Rooms, NEW n \in 1..Len(acl[r])
    PROVE  InTurn(r, n) \in Clients /\ Room(InTurn(r, n)) = r
<1>1. acl[r] \in Seq(Clients) /\ turn[r] \in Nat
  BY DEF TypeInv
<1>2. Len(acl[r]) \in Nat /\ Len(acl[r]) > 0 /\ First(r) \in Nat /\ n \in Nat /\ n >= 1
  BY <1>1 DEF First
<1>3. ((First(r) + n - 1) % Len(acl[r])) + 1 \in DOMAIN acl[r]
  BY <1>1, <1>2
<1>4. InTurn(r, n) \in ToSet(acl[r]) /\ InTurn(r, n) \in Clients
  BY <1>1, <1>3 DEF InTurn, ToSet
<1>. QED  BY <1>4 DEF PlaceInv

\* The loop reads where its client stands and what it misses, and nothing
\* between them is lost.
LEMMA SyncTickKeeps ==
    ASSUME IInv, NEW r \in Rooms, NEW ok \in BOOLEAN, SyncTick(r, ok)
    PROVE  IInv'
<1>. USE DEF IInv
<1>1. PICK n \in 1..Len(acl[r]) :
        LET c   == InTurn(r, n)
            p   == Next1(Unsynced(c, Since(c)))
            new == {InTurn(r, i) : i \in {j \in 1..n : row[InTurn(r, j)] = NoRow}}
        IN /\ turn' = [turn EXCEPT ![r] = (First(r) + n) % Len(acl[r])]
           /\ row' = [d \in Clients |-> IF d \in new /\ ok THEN Upsert(NoRow, [since |-> asked[d]])
                                       ELSE IF Room(d) = r THEN Current(d, ok) ELSE row[d]]
           /\ claim' = [d \in Clients |-> IF d \in new THEN asked[d] ELSE claim[d]]
           /\ IF Ready(c, ok) /\ MayPush(c, p)
              THEN /\ step' = [step EXCEPT ![r] = "wait"]
                   /\ job' = [job EXCEPT ![r] = [client |-> c, post |-> p, since |-> Since(c)]]
                   /\ waiters' = Append(waiters, r)
              ELSE UNCHANGED <<step, job, waiters>>
  BY DEF SyncTick
<1>2. PICK c, new :
        /\ c = InTurn(r, n)
        /\ new = {InTurn(r, i) : i \in {j \in 1..n : row[InTurn(r, j)] = NoRow}}
  OBVIOUS
<1>3. /\ c \in Clients /\ Room(c) = r
      /\ new \subseteq Clients /\ \A d \in new : row[d] = NoRow /\ Room(d) = r
      /\ row[c] = NoRow => c \in new
  <2>1. Len(acl[r]) \in Nat
    BY DEF TypeInv
  <2>2. \A j \in 1..n : j \in 1..Len(acl[r])
    BY <2>1
  <2>. QED  BY <1>2, <2>1, <2>2, InTurnFacts
<1>. DEFINE p == Next1(Unsynced(c, Since(c)))
<1>4. /\ turn' = [turn EXCEPT ![r] = (First(r) + n) % Len(acl[r])]
      /\ row' = [d \in Clients |-> IF d \in new /\ ok THEN Upsert(NoRow, [since |-> asked[d]])
                                  ELSE IF Room(d) = r THEN Current(d, ok) ELSE row[d]]
      /\ claim' = [d \in Clients |-> IF d \in new THEN asked[d] ELSE claim[d]]
      /\ \/ /\ Ready(c, ok)
            /\ step' = [step EXCEPT ![r] = "wait"]
            /\ job' = [job EXCEPT ![r] = [client |-> c, post |-> p, since |-> Since(c)]]
            /\ waiters' = Append(waiters, r)
         \/ UNCHANGED <<step, job, waiters>>
  BY <1>1, <1>2
<1>5. /\ UNCHANGED <<load, log, kept, acl, lastTs, asked, holder, got, raced, stored>>
      /\ step[r] = "sleep"
  BY DEF SyncTick, memory
<1>6. ASSUME NEW d \in Clients
      PROVE  /\ row'[d] \in SyncRow \cup {NoRow}
             /\ d \in new => row'[d] = NoRow \/ row'[d].since = asked[d]
             /\ d \notin new /\ row'[d] # NoRow => row[d] # NoRow /\ row'[d].since = row[d].since
             /\ d \in new => claim'[d] = asked[d]
             /\ d \notin new => claim'[d] = claim[d]
  <2>1. /\ Upsert(NoRow, [since |-> asked[d]]) \in SyncRow
        /\ Upsert(NoRow, [since |-> asked[d]]).since = asked[d]
    <3>1. asked[d] \in Nat
      BY DEF TypeInv
    <3>. QED  BY <3>1, UpsertFacts DEF Has
  <2>2. row[d] \in SyncRow \cup {NoRow}
    BY DEF TypeInv
  <2>. QED  BY <1>3, <1>4, <2>1, <2>2, CurrentFacts
<1>7. Since(c) \in 0..Len(log) /\ (c \notin new => row[c] # NoRow /\ Since(c) = row[c].since)
      /\ (c \in new => Since(c) = asked[c])
  <2>1. row[c] # NoRow => row[c].since \in Nat /\ row[c].since <= Len(log)
    BY <1>3 DEF TypeInv, SyncRow, BoundInv
  <2>2. asked[c] \in 0..Len(log) /\ Len(log) \in Nat
    BY <1>3 DEF TypeInv
  <2>. QED  BY <1>3, <2>1, <2>2 DEF Since
<1>8. Ready(c, ok) => /\ p \in 1..Len(log)
                      /\ \A q \in Others(c) : q > Since(c) => p <= q
  BY <1>3, OldestFirst DEF Ready, Unsynced
<1>. HIDE DEF p
<1>9. TypeInv'
  <2>1. turn' \in [Rooms -> Nat]
    <3>1. Len(acl[r]) \in Nat /\ turn[r] \in Nat
      BY DEF TypeInv
    <3>2. First(r) \in Nat
      BY <3>1 DEF First
    <3>3. (First(r) + n) % Len(acl[r]) \in Nat
      BY <3>1, <3>2
    <3>. QED  BY <1>4, <3>3 DEF TypeInv
  <2>2. row' \in [Clients -> SyncRow \cup {NoRow}]
    BY <1>4, <1>6
  <2>3. claim' \in [Clients -> Nat]
    BY <1>4 DEF TypeInv
  <2>4. step' \in [Rooms -> {"sleep", "wait", "send"}] /\ waiters' \in Seq(Rooms)
    <3>1. step' = step \/ step' = [step EXCEPT ![r] = "wait"]
      BY <1>4
    <3>2. waiters' = waiters \/ waiters' = Append(waiters, r)
      BY <1>4
    <3>3. step' \in [Rooms -> {"sleep", "wait", "send"}]
      BY <3>1 DEF TypeInv
    <3>4. waiters' \in Seq(Rooms)
      <4>1. waiters \in Seq(Rooms)
        BY DEF TypeInv
      <4>. QED  BY <3>2, <4>1
    <3>. QED  BY <3>3, <3>4
  <2>5. job' \in [Rooms -> PushJob]
    <3>1. CASE UNCHANGED job
      BY <3>1 DEF TypeInv
    <3>2. CASE Ready(c, ok) /\ job' = [job EXCEPT ![r] = [client |-> c, post |-> p, since |-> Since(c)]]
      <4>1. [client |-> c, post |-> p, since |-> Since(c)] \in PushJob
        BY <1>3, <1>7, <1>8, <3>2 DEF PushJob
      <4>. QED  BY <3>2, <4>1 DEF TypeInv
    <3>. QED  BY <1>4, <3>1, <3>2
  <2>. QED  BY <1>5, <2>1, <2>2, <2>3, <2>4, <2>5 DEF TypeInv
<1>10. PlaceInv'
  <2>. SUFFICES ASSUME NEW q \in Rooms
                PROVE  /\ \A d \in ToSet(acl[q]) : load.room[d] = q
                       /\ step'[q] # "sleep" =>
                              job'[q].client \in Clients /\ load.room[job'[q].client] = q
    BY <1>5 DEF PlaceInv, Room
  <2>1. \A d : Room(d) = load.room[d]
    BY DEF Room
  <2>2. \A d \in ToSet(acl[q]) : load.room[d] = q
    BY <2>1 DEF PlaceInv
  <2>3. CASE step'[q] = step[q] /\ job'[q] = job[q]
    BY <2>1, <2>2, <2>3 DEF PlaceInv
  <2>4. CASE q = r /\ job'[q].client = c
    BY <1>3, <2>1, <2>2, <2>4
  <2>5. (step'[q] = step[q] /\ job'[q] = job[q]) \/ (q = r /\ job'[q].client = c)
    <3>1. \/ UNCHANGED <<step, job>>
          \/ /\ step' = [step EXCEPT ![r] = "wait"]
             /\ job' = [job EXCEPT ![r] = [client |-> c, post |-> p, since |-> Since(c)]]
      BY <1>4
    <3>2. step \in [Rooms -> {"sleep", "wait", "send"}] /\ job \in [Rooms -> PushJob]
      BY DEF TypeInv
    <3>. QED  BY <3>1, <3>2
  <2>. QED  BY <2>3, <2>4, <2>5
<1>11. OnePush'
  BY <1>4, <1>5 DEF OnePush, TypeInv
<1>12. BoundInv'
  <2>1. ASSUME NEW d \in Clients, row'[d] # NoRow PROVE row'[d].since <= Len(log)
    <3>1. asked[d] <= Len(log)
      BY DEF TypeInv
    <3>. QED  BY <1>6, <2>1, <3>1 DEF BoundInv
  <2>2. \A q \in Rooms : job'[q].since <= Len(log) /\ job'[q].post <= Len(log)
    <3>1. CASE UNCHANGED job
      BY <3>1 DEF BoundInv
    <3>2. CASE Ready(c, ok) /\ job' = [job EXCEPT ![r] = [client |-> c, post |-> p, since |-> Since(c)]]
      <4>1. job'[r].since <= Len(log) /\ job'[r].post <= Len(log)
        BY <1>7, <1>8, <3>2 DEF TypeInv
      <4>. QED  BY <3>2, <4>1 DEF BoundInv, TypeInv
    <3>. QED  BY <1>4, <3>1, <3>2
  <2>. QED  BY <1>5, <2>1, <2>2 DEF BoundInv
<1>13. ASSUME NEW d \in Clients PROVE SkipInv(d)'
  <2>. SUFFICES ASSUME d \notin raced, NEW q \in Missed(d)'
                PROVE  /\ row'[d] # NoRow => row'[d].since < q
                       /\ Pushed(d)' => job'[Room(d)'].since < q /\ job'[Room(d)'].post <= q
    BY <1>5 DEF SkipInv
  <2>1. Room(d)' = Room(d) /\ Others(d)' = Others(d)
    BY <1>5 DEF Room, Others
  <2>2. q \in Others(d) /\ q \in 1..Len(log) /\ q > claim'[d] /\ q \notin got[d]
    BY <1>5, <2>1 DEF Missed, Others, TypeInv
  <2>3. d \notin new => q \in Missed(d)
    BY <1>6, <2>2 DEF Missed
  <2>4. row'[d] # NoRow => row'[d].since < q
    <3>1. CASE d \in new
      <4>1. asked[d] \in Nat
        BY DEF TypeInv
      <4>. QED  BY <1>6, <2>2, <3>1, <4>1
    <3>2. CASE d \notin new
      BY <1>6, <2>3, <3>2 DEF SkipInv
    <3>. QED  BY <3>1, <3>2
  <2>5. CASE UNCHANGED <<step, job>>
    <3>1. Pushed(d)' => Pushed(d) /\ d \notin new
      BY <1>3, <1>5, <2>1, <2>5 DEF Pushed
    <3>. QED  BY <2>1, <2>3, <2>4, <2>5, <3>1 DEF SkipInv
  <2>6. CASE /\ Ready(c, ok) /\ step' = [step EXCEPT ![r] = "wait"]
             /\ job' = [job EXCEPT ![r] = [client |-> c, post |-> p, since |-> Since(c)]]
    <3>1. CASE Room(d) # r
      <4>1. Pushed(d)' => Pushed(d) /\ d \notin new /\ job'[Room(d)] = job[Room(d)]
        BY <1>3, <2>1, <2>6, <3>1, LoadFacts DEF Pushed, TypeInv
      <4>. QED  BY <2>1, <2>3, <2>4, <4>1 DEF SkipInv
    <3>2. CASE Room(d) = r
      <4>1. Pushed(d)' => d = c
        BY <2>1, <2>6, <3>2 DEF Pushed, TypeInv
      <4>2. job'[r].since = Since(c) /\ job'[r].post = p
        BY <2>6 DEF TypeInv
      <4>3. d = c => Since(c) < q
        <5>1. asked[d] \in Nat
          BY DEF TypeInv
        <5>2. d \notin new /\ row[d] # NoRow => row[d].since < q
          BY <2>3 DEF SkipInv
        <5>. QED  BY <1>6, <1>7, <2>2, <5>1, <5>2
      <4>4. d = c => p <= q
        <5>1. Since(c) \in Nat
          BY <1>7
        <5>. QED  BY <1>8, <2>2, <2>6, <4>3, <5>1
      <4>. QED  BY <2>1, <2>4, <3>2, <4>1, <4>2, <4>3, <4>4
    <3>. QED  BY <3>1, <3>2
  <2>. QED  BY <1>4, <2>5, <2>6
<1>14. \A d \in Clients : StampInv(d)'
  BY <1>5 DEF StampInv
<1>. QED  BY <1>9, <1>10, <1>11, <1>12, <1>13, <1>14

---------------------------------------------------------------------------
(* The theorems                                                            *)

LEMMA InitKeeps ==
    ASSUME Init
    PROVE  IInv
<1>. USE DEF Init
<1>1. Len(log) = 0
  OBVIOUS
<1>2. NoJob \in PushJob /\ NoJob.since = 0 /\ NoJob.post = 0
  BY DEF NoJob, PushJob
<1>3. TypeInv
  BY <1>1, <1>2 DEF TypeInv
<1>4. PlaceInv /\ OnePush /\ BoundInv
  BY <1>1, <1>2 DEF PlaceInv, OnePush, BoundInv, ToSet
<1>5. ASSUME NEW c \in Clients PROVE SkipInv(c) /\ StampInv(c)
  <2>1. Missed(c) = {}
    BY DEF Missed, Others
  <2>. QED  BY <2>1 DEF SkipInv, StampInv
<1>. QED  BY <1>3, <1>4, <1>5 DEF IInv

\* The invariant holds for any rooms, clients, traffic, faults and restarts.
THEOREM RoomInvariance == Spec => []IInv
<1>1. Init => IInv
  BY InitKeeps
<1>2. IInv /\ [Next]_vars => IInv'
  <2>. SUFFICES ASSUME IInv, [Next]_vars PROVE IInv'
    OBVIOUS
  <2>1. ASSUME NEW c \in Clients, NEW ts \in DOMAIN load.sends[c], NEW wants \in load.asks, NEW ok \in Writes,
               Login(c, ts, IF wants = "all" THEN 0 ELSE Len(log), ok)
        PROVE  IInv'
    <3>1. ok \in BOOLEAN
      BY DEF Writes
    <3>2. (IF wants = "all" THEN 0 ELSE Len(log)) \in 0..Len(log)
      <4>1. Len(log) \in Nat
        BY DEF IInv, TypeInv
      <4>. QED  BY <4>1
    <3>. QED  BY <2>1, <3>1, <3>2, LoginKeeps
  <2>2. ASSUME NEW c \in Clients, NEW ts \in DOMAIN load.sends[c], NEW refused \in BOOLEAN,
               Post(c, ts, refused)
        PROVE  IInv'
    BY <2>2, PostKeeps
  <2>3. ASSUME NEW r \in Rooms, Notice(r) PROVE IInv'
    BY <2>3, NoticeKeeps
  <2>4. CASE Ripen
    BY <2>4, TimeKeeps DEF Ripen
  <2>5. ASSUME NEW c \in Clients, Elapse(c) PROVE IInv'
    BY <2>5, TimeKeeps DEF Elapse
  <2>6. CASE Crash
    BY <2>6, CrashKeeps
  <2>7. ASSUME NEW r \in Rooms, NEW ok \in Writes, SyncTick(r, ok) PROVE IInv'
    BY <2>7, SyncTickKeeps DEF Writes
  <2>8. ASSUME NEW r \in Rooms, NEW ok \in Writes, Acquire(r, ok) PROVE IInv'
    BY <2>8, AcquireKeeps DEF Writes
  <2>9. ASSUME NEW r \in Rooms, NEW ok \in Writes, NEW received \in BOOLEAN, NEW acked \in BOOLEAN,
               PushEnds(r, received, acked, ok)
        PROVE  IInv'
    BY <2>9, PushEndsKeeps DEF Writes
  <2>10. ASSUME NEW r \in Rooms, NEW ok \in Writes, NEW idle, Evict(r, idle, ok) PROVE IInv'
    BY <2>10, EvictKeeps DEF Writes
  <2>11. ASSUME NEW r \in Rooms, Cleanup(r) PROVE IInv'
    BY <2>11, CleanupKeeps
  <2>12. CASE UNCHANGED vars
    BY <2>12, TimeKeeps DEF vars
  <2>13. CASE Message
    BY <2>1, <2>2, <2>3, <2>13 DEF Message
  <2>14. CASE \E r \in Rooms : Push(r) \/ Begin(r) \/ Finish(r) \/ Upkeep(r)
    BY <2>7, <2>8, <2>9, <2>10, <2>11, <2>14 DEF Push, Begin, Finish, Upkeep
  <2>. QED  BY <2>4, <2>5, <2>6, <2>12, <2>13, <2>14 DEF Next, Waiting
<1>. QED  BY <1>1, <1>2, PTL DEF Spec

\* GlobalRateLimiter: at most one room has a push on the air, the one that
\* holds the limiter.
THEOREM OnePushAlways == Spec => []OnePush
<1>1. IInv => OnePush
  BY DEF IInv
<1>. QED  BY <1>1, RoomInvariance, PTL

\* sync_since never passes a post its client can still have and has not had,
\* unless a login came while a push to it was under way.
THEOREM NothingSkipped == Spec => []NoSkip
<1>1. IInv => NoSkip
  <2>. SUFFICES ASSUME IInv, NEW c \in Clients \ raced, row[c] # NoRow,
                       NEW p \in Others(c), p > claim[c], p <= row[c].since
                PROVE  p \in got[c]
    BY DEF NoSkip
  <2>1. row[c].since \in Nat /\ p \in Nat
    BY DEF IInv, TypeInv, SyncRow, Others
  <2>2. \A q \in Missed(c) : row[c].since < q
    BY DEF IInv, SkipInv
  <2>. QED  BY <2>1, <2>2 DEF Missed
<1>. QED  BY <1>1, RoomInvariance, PTL

\* _accept_once and the monotonic timestamp: copies store no post twice or out
\* of order.
THEOREM EachStoredOnce == Spec => []StoredOnce
<1>1. IInv => StoredOnce
  BY DEF IInv, StampInv, StoredOnce
<1>. QED  BY <1>1, RoomInvariance, PTL
=============================================================================
