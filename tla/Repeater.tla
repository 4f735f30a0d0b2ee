----------------------------- MODULE Repeater -----------------------------
(***************************************************************************)
(* One RepeaterHandler: each __call__ decides in one piece whether to relay*)
(* its packet, waits for the transmission, and files the packet among the  *)
(* recent ones; meanwhile other calls run, the background timer prunes     *)
(* seen_packets, keys are edited and the configuration is reloaded.        *)
(*                                                                         *)
(* A call is one reception or one local transmission; Pkt[c] is its packet.*)
(* With dispatcher_dedupe_enabled a reception may come here twice, to be   *)
(* logged and to be handled: these are two calls.                          *)
(* Time is counted in ticks; an age grows from 0 and stops at MaxAge.      *)
(***************************************************************************)
EXTENDS Forwarding, Selection

CONSTANTS
    Loads,          \* the traffic considered, each a record of: pkt, the packet of
                    \* each call; local, the calls that transmit a packet from
                    \* here; ttls, what reload_runtime_config may read; keys,
                    \* the transport keys in storage; dedup,
                    \* dispatcher_dedupe_enabled
    Me,             \* this node
    NoCall,
    MaxCacheSize,   \* max_cache_size
    Ttl,            \* cache_ttl as __init__ sets it, never below MinTtl
    MinTtl,         \* the floor of __init__
    KeyTtl,         \* _transport_keys_cache_ttl
    MaxRecent,      \* max_recent_packets
    MaxDuplicates,  \* max_duplicates_per_packet
    MaxAge          \* bound: ages are not told apart beyond it

ASSUME RepeaterAssumption ==
    /\ \A n \in Loads : /\ NoCall \notin DOMAIN n.pkt /\ n.local \subseteq DOMAIN n.pkt
                        /\ n.ttls \subseteq Nat /\ \A t \in n.ttls : MaxAge > t
                        /\ n.dedup \in BOOLEAN
    /\ MaxCacheSize \in Nat \ {0} /\ MaxRecent \in Nat \ {0} /\ MaxDuplicates \in Nat
    /\ MinTtl \in Nat /\ Ttl \in Nat /\ Ttl >= MinTtl
    /\ KeyTtl \in Nat
    /\ MaxAge \in Nat /\ MaxAge > Ttl /\ MaxAge > KeyTtl

VARIABLES
    load,        \* the traffic of this behaviour, which never changes
    call,        \* call[c]: where each __call__ stands
    mode,        \* repeater.mode
    seenPackets, \* keys of seen_packets, in insertion order
    age,         \* ticks since the key's timestamp
    ttl,         \* cache_ttl
    scopes,      \* the transport keys that allow floods, in storage
    scopeCache,  \* the keys as _check_transport_codes last read them
    cacheAge,    \* ticks since then
    recent,      \* recent_packets, by call
    index,       \* _recent_hash_index
    dups,        \* the records attached to a record
    flagged,     \* calls recorded with is_duplicate
    since,       \* calls that inserted another key since the key was last marked
    lowTtl, revoked     \* lowest cache_ttl so far, ticks since a key's revocation

cacheVars == <<seenPackets, age>>
keyVars   == <<scopes, scopeCache, cacheAge>>
fileVars  == <<recent, index, dups, flagged>>
histories == <<since, lowTtl, revoked>>    \* never read
engineVars == <<load, call, mode, cacheVars, ttl, keyVars, fileVars, histories>>

Calls == DOMAIN load.pkt
Pkt   == load.pkt
Local == load.local
ScopeNames == load.keys

\* pkt_hash_full: a wrapper's hash is not the key it is remembered by.
PacketHash(p) == IF p.type = "multiack" THEN <<"wrapper", p.id>> ELSE Key(p)

PacketKeys == {Key(Pkt[c]) : c \in Calls} \cup {PacketHash(Pkt[c]) : c \in Calls}
Hash(c) == PacketHash(Pkt[c])

Elems(s) == {s[i] : i \in DOMAIN s}
Older(n) == IF n < MaxAge THEN n + 1 ELSE n

EngineInit ==
    /\ load \in Loads
    /\ call = [c \in Calls |-> "idle"] /\ mode \in {"forward", "monitor", "no_tx"}
    /\ seenPackets = <<>> /\ age = [k \in PacketKeys |-> MaxAge] /\ ttl = Ttl
    /\ scopes \in SUBSET ScopeNames /\ scopeCache = {} /\ cacheAge = MaxAge
    /\ recent = <<>> /\ index = [k \in PacketKeys |-> NoCall]
    /\ dups = [c \in Calls |-> {}] /\ flagged = {}
    /\ since = [k \in PacketKeys |-> {}]
    /\ lowTtl = Ttl /\ revoked = [s \in ScopeNames |-> MaxAge]

---------------------------------------------------------------------------
(* seen_packets *)

\* An overflowing cache loses its oldest insertion.
Evict(s) == IF Len(s) > MaxCacheSize THEN Tail(s) ELSE s

\* mark_seen: the timestamp is renewed, the place in the order is not.
MarkSeenPacket(k) ==
    /\ seenPackets' = IF k \in Elems(seenPackets) THEN seenPackets
                      ELSE Evict(Append(seenPackets, k))
    /\ age' = [age EXCEPT ![k] = 0]

\* Mutant: the entry goes one tick early.
Expired_Early(k) == age[k] >= ttl

Expired(k) == age[k] > ttl

\* The background timer runs cleanup_cache.
CleanupCache ==
    /\ seenPackets' = OutOf(seenPackets, {k \in PacketKeys : Expired(k)})
    /\ seenPackets' # seenPackets
    /\ UNCHANGED <<load, call, mode, age, ttl, keyVars, fileVars, histories>>

\* reload_runtime_config takes cache_ttl as it comes.
ReloadConfig(t) ==
    /\ ttl' = t /\ ttl # t
    /\ lowTtl' = IF t < lowTtl THEN t ELSE lowTtl
    /\ UNCHANGED <<load, call, mode, cacheVars, keyVars, fileVars, since, revoked>>

SetMode(m) ==
    /\ mode' = m /\ mode # m
    /\ UNCHANGED <<load, call, cacheVars, ttl, keyVars, fileVars, histories>>

---------------------------------------------------------------------------
(* The transport keys *)

\* flood_forward gets as far as _check_transport_codes.
ChecksScope(p) == p.type # "multiack" /\ p.route = "tflood" /\ Valid(p) /\ ~p.dnr

\* An operator edits a key's flood policy.
EditKey(s) ==
    /\ scopes' = IF s \in scopes THEN scopes \ {s} ELSE scopes \cup {s}
    /\ revoked' = [revoked EXCEPT ![s] = IF s \in scopes THEN 0 ELSE MaxAge]
    /\ UNCHANGED <<load, call, mode, cacheVars, ttl, scopeCache, cacheAge, fileVars, since, lowTtl>>

\* Mutant: a cache that is read stays fresh.
CacheStale_Never == cacheAge = MaxAge /\ scopeCache = {}

CacheStale == cacheAge > KeyTtl

\* The keys a check of p sees.
ScopesSeen == IF CacheStale THEN scopes ELSE scopeCache

\* The check re-reads the keys when its copy is too old.
ReadScopes(p) ==
    IF ChecksScope(p) /\ CacheStale
    THEN scopeCache' = scopes /\ cacheAge' = 0
    ELSE UNCHANGED <<scopeCache, cacheAge>>

---------------------------------------------------------------------------
(* The record of a packet *)

\* Mutant: a popped record keeps its index entry.
Unindex_Keep(i, c) == i

\* The index entry of record c goes, unless a newer record has taken it.
Unindex(i, c) == IF i[Hash(c)] = c THEN [i EXCEPT ![Hash(c)] = NoCall] ELSE i

\* _append_recent_packet
AppendRecent(c) ==
    LET full == Len(recent) >= MaxRecent
        rest == IF full THEN Tail(recent) ELSE recent
        kept == IF full THEN Unindex(index, Head(recent)) ELSE index
    IN /\ recent' = Append(rest, c)
       /\ index' = [kept EXCEPT ![Hash(c)] = c]
       /\ UNCHANGED dups

\* Mutant: no limit.
RoomFor_Any(o) == TRUE

RoomFor(o) == Cardinality(dups[o]) < MaxDuplicates

\* A duplicate joins its original's record.
Attach(c, limited) ==
    LET o == index[Hash(c)] IN
    /\ dups' = IF limited => RoomFor(o) THEN [dups EXCEPT ![o] = @ \cup {c}] ELSE dups
    /\ UNCHANGED <<recent, index>>

\* If that is still there: else it has a place of its own.
FileDuplicate(c, limited) ==
    IF recent # <<>> /\ index[Hash(c)] # NoCall THEN Attach(c, limited) ELSE AppendRecent(c)

\* At the end of __call__: the packet counts as a duplicate when its hash is
\* known and it was not transmitted.
Record(c, transmitted, known) ==
    LET dupe == Hash(c) \in known /\ ~transmitted IN
    /\ flagged' = IF dupe THEN flagged \cup {c} ELSE flagged
    /\ IF dupe THEN FileDuplicate(c, TRUE) ELSE AppendRecent(c)

\* The dispatcher shows the engine a packet before its own check for duplicates:
\* record_duplicate files one the engine knows, and observes no limit.
LogDuplicate(c) ==
    /\ load.dedup /\ call[c] = "idle" /\ c \notin Local
    /\ Hash(c) \in Elems(seenPackets)
    /\ call' = [call EXCEPT ![c] = "done"]
    /\ flagged' = flagged \cup {c} /\ FileDuplicate(c, FALSE)
    /\ UNCHANGED <<load, mode, cacheVars, ttl, keyVars, histories>>

\* The router has consumed the packet: record_packet_only files it, once it is
\* stored, without any check, and for a TRACE log_trace_record does so whether it
\* is stored or not.
RecordOnly(c, stored) ==
    /\ call[c] = "idle" /\ c \notin Local
    /\ call' = [call EXCEPT ![c] = "done"]
    /\ IF stored THEN AppendRecent(c) ELSE UNCHANGED <<recent, index, dups>>
    /\ UNCHANGED <<load, mode, cacheVars, ttl, keyVars, flagged, histories>>

---------------------------------------------------------------------------
(* __call__ *)

\* allow: policy_engine.evaluate did not answer "drop".
MayRelay(c, allow) ==
    /\ c \notin Local /\ allow /\ mode = "forward"
    /\ Accepts(Me, Pkt[c], Elems(seenPackets), ScopesSeen)

MaySend(c, allow) == c \in Local /\ allow /\ mode # "no_tx"

\* The key a call marks: a local packet is marked by its hash.
MarkedKey(c) == IF c \in Local THEN Hash(c) ELSE Key(Pkt[c])

\* The packet is marked as seen and handed to the scheduler.
Begin(c, allow) ==
    /\ call[c] = "idle"
    /\ MayRelay(c, allow) \/ MaySend(c, allow)
    /\ call' = [call EXCEPT ![c] = "sending"]
    /\ MarkSeenPacket(MarkedKey(c))
    /\ IF c \in Local THEN UNCHANGED <<scopeCache, cacheAge>> ELSE ReadScopes(Pkt[c])
    /\ since' = [k \in PacketKeys |->
                    IF k = MarkedKey(c) THEN {}
                    ELSE IF MarkedKey(c) \in Elems(seenPackets) THEN since[k]
                    ELSE since[k] \cup {c}]
    /\ UNCHANGED <<load, mode, ttl, scopes, fileVars, lowTtl, revoked>>

\* The packet goes no further: it is recorded at once.
Refuse(c, allow) ==
    /\ call[c] = "idle"
    /\ ~MayRelay(c, allow) /\ ~MaySend(c, allow)
    /\ call' = [call EXCEPT ![c] = "done"]
    /\ IF c \notin Local /\ allow /\ mode = "forward" THEN ReadScopes(Pkt[c])
       ELSE UNCHANGED <<scopeCache, cacheAge>>
    /\ Record(c, FALSE, Elems(seenPackets))
    /\ UNCHANGED <<load, mode, cacheVars, ttl, scopes, since, lowTtl, revoked>>

\* The transmission has ended, one way or the other.
Finish(c, transmitted) ==
    /\ call[c] = "sending"
    /\ call' = [call EXCEPT ![c] = "done"]
    /\ Record(c, transmitted, Elems(seenPackets))
    /\ UNCHANGED <<load, mode, cacheVars, ttl, keyVars, histories>>

\* The transmission raised: nothing is recorded.
Raise(c) ==
    /\ call[c] = "sending"
    /\ call' = [call EXCEPT ![c] = "done"]
    /\ UNCHANGED <<load, mode, cacheVars, ttl, keyVars, fileVars, histories>>

Tick ==
    /\ age' = [k \in PacketKeys |-> Older(age[k])]
    /\ cacheAge' = Older(cacheAge)
    /\ revoked' = [s \in ScopeNames |-> Older(revoked[s])]
    /\ UNCHANGED <<load, call, mode, seenPackets, ttl, scopes, scopeCache, fileVars, since, lowTtl>>

Handle(c) == \/ \E allow \in BOOLEAN : Begin(c, allow) \/ Refuse(c, allow)
             \/ \E ok \in BOOLEAN : Finish(c, ok)
             \/ Raise(c)

Recorded(c) == LogDuplicate(c) \/ \E stored \in BOOLEAN : RecordOnly(c, stored)

Operate == \/ \E t \in load.ttls : ReloadConfig(t)
           \/ \E m \in {"forward", "monitor", "no_tx"} : SetMode(m)
           \/ \E s \in ScopeNames : EditKey(s)

EngineNext == (\E c \in Calls : Handle(c) \/ Recorded(c)) \/ CleanupCache \/ Operate \/ Tick

EngineSpec == EngineInit /\ [][EngineNext]_engineVars

---------------------------------------------------------------------------
(* Properties *)

\* A call that relays key k.
Relays(c, k) == c \notin Local /\ call[c] = "idle" /\ call'[c] = "sending" /\ Key(Pkt[c]) = k

OwnKeys == {Hash(c) : c \in {d \in Local : call[d] # "idle"}}

\* k has been marked in the last t ticks, and since then fewer new keys came
\* than the cache holds.
Remembered(k, t) == age[k] <= t /\ Cardinality(since[k]) < MaxCacheSize

\* A packet is not relayed twice while its entry should still be in the cache,
\* whatever runs between the two receptions: cleanups, reloads, other packets
\* and transmissions that fail. Packets sent from here are excepted: mark_seen
\* leaves a hash it finds in the cache at its old place, the next to be evicted.
NoEarlyRelay == [][\A c \in Calls : \A k \in PacketKeys \ OwnKeys :
                       Relays(c, k) => ~Remembered(k, lowTtl)]_engineVars

\* A scoped flood is relayed only under a key that allows it, or did until a
\* revocation no older than the key cache.
ScopeObeyed == [][\A c \in Calls : \A k \in PacketKeys :
                      Relays(c, k) /\ Pkt[c].route = "tflood" =>
                          \/ Pkt[c].scope \in scopes
                          \/ /\ Pkt[c].scope \in ScopeNames
                             /\ revoked[Pkt[c].scope] <= KeyTtl]_engineVars

\* The hash index names, for each hash, the latest record of the recent list
\* that has it, and nothing that has left the list.
IndexAligned ==
    \A k \in PacketKeys :
        LET at == {i \in DOMAIN recent : Hash(recent[i]) = k}
        IN IF at = {} THEN index[k] = NoCall
           ELSE \E i \in at : index[k] = recent[i] /\ \A j \in at : j <= i

\* A record is filed once: in the recent list, or with one original of the
\* same hash, whose list stays within its limit where only __call__ adds to it.
FiledOnce ==
    \A o, c \in Calls : c \in dups[o] =>
        /\ Hash(c) = Hash(o) /\ c \in flagged /\ c \notin Elems(recent)
        /\ \A q \in Calls : c \in dups[q] => q = o
        /\ load.dedup \/ Cardinality(dups[o]) <= MaxDuplicates

\* What the index finds is where a duplicate is filed.
RecordsFiled == IndexAligned /\ FiledOnce
=============================================================================
