-------------------------- MODULE AdvertLimiter --------------------------
(***************************************************************************)
(* AdvertHelper.process_advert_packet: which of the adverts a repeater     *)
(* hears it refuses to relay. A hash cache recognises the copies of an     *)
(* advert, a token bucket and a minimum gap limit the adverts of one       *)
(* public key, repeated violations put the key in a penalty box, and the   *)
(* limits follow the activity of the mesh through four tiers.              *)
(*                                                                         *)
(* Every time is an age or a remaining time in ticks, ages saturating at   *)
(* AgeCap; tokens are counted in Units. The EWMAs are abstracted to the    *)
(* tier they point at, any tier each time a metrics window closes.         *)
(***************************************************************************)
EXTENDS Integers, Sequences, FiniteSets, Selection

CONSTANTS
    Adverts,        \* packet hashes
    Keys,           \* public keys
    KeyOf,          \* KeyOf[a]: the key advert a announces
    DedupeTtl, MaxHashes,                           \* advert_dedupe
    Capacity, Unit, Rate, MinGap,                   \* advert_rate_limit, by tier
    Threshold, Decay, BasePenalty, Factor, MaxPenalty,  \* advert_penalty_box
    Hysteresis,                                     \* advert_adaptive
    WindowLength, CleanupEvery, Retention, MaxTracked, EvictShare,
    AgeCap, MaxStrikes                              \* bounds: an age, a count of violations

Tiers == {"quiet", "normal", "busy", "congested"}
Limited == Tiers \ {"quiet"}

Lesser(x, y) == IF x < y THEN x ELSE y
Greater(x, y) == IF x < y THEN y ELSE x

\* Saturation hides nothing: AgeCap is past every age the code compares, and
\* MaxStrikes past the count whose penalty is the longest.
ASSUME LimiterAssumption ==
    /\ KeyOf \in [Adverts -> Keys]
    /\ {DedupeTtl, MaxHashes, Capacity, Unit, Threshold, BasePenalty, Factor, EvictShare}
         \subseteq Nat \ {0}
    /\ {MaxPenalty, AgeCap, MaxStrikes} \subseteq Nat
    /\ Rate \in [Limited -> Nat \ {0}] /\ MinGap \in [Limited -> Nat]
    /\ \A t \in Limited : AgeCap * Rate[t] >= Capacity * Unit /\ AgeCap > MinGap[t]
    /\ \A age \in {DedupeTtl, Decay, Hysteresis, WindowLength, CleanupEvery, Retention} :
          age \in 0..AgeCap - 1
    /\ \A n \in 0..MaxStrikes : Factor ^ n \in Nat     \* which the provers do not know
    /\ BasePenalty * Factor ^ (MaxStrikes - Threshold) >= MaxPenalty

VARIABLES
    cached,     \* _recent_advert_hashes: <<[id, left]>>, least recently heard first
    bucket,     \* _bucket_state: for the tracked keys, [tokens, refill, seen]
    strikes,    \* _violation_state: [count, age], of some tracked keys
    penalty,    \* _penalty_until: the time left of each key's penalty, 0 for none
    tier,       \* _current_tier, _pending_tier and its age
    target,     \* the tier the EWMAs call for
    window,     \* ages of _last_metrics_update and _last_cleanup
    meter,      \* a reference of what each key was granted; never read
    pace,       \* of each key, the time since it met the limits and since it did so too soon; never read
    charged,    \* time since each advert last met the limiter; never read
    others,     \* the adverts heard since each was last heard; never read
    faults      \* what the limiter did wrong so far; never read

books == <<bucket, strikes, penalty>>
ghosts == <<meter, pace, charged, others, faults>>
limiterVars == <<cached, books, tier, target, window, ghosts>>

LimiterInit ==
    /\ cached = <<>> /\ bucket = <<>> /\ strikes = <<>>
    /\ penalty = [k \in Keys |-> 0]
    /\ tier = [now |-> "normal", pending |-> "none", since |-> 0] /\ target = "quiet"
    /\ window = [closed |-> 0, cleaned |-> 0]
    /\ meter = [k \in Keys |-> 0]
    /\ pace = [k \in Keys |-> [since |-> AgeCap, behaved |-> AgeCap]]
    /\ charged = [a \in Adverts |-> AgeCap]
    /\ others = [a \in Adverts |-> {}]
    /\ faults = {}

---------------------------------------------------------------------------
(* _dedupe_advert_packet_hash *)

IsCopy(a) == \E i \in DOMAIN cached : cached[i].id = a /\ cached[i].left > 0

Entries(a) == {e \in {cached[i] : i \in DOMAIN cached} : e.id = a}
Without(a) == OutOf(cached, Entries(a))
LeftOf(a) == (CHOOSE e \in Entries(a) : TRUE).left

Reheard(a) == Append(Without(a), [id |-> a, left |-> LeftOf(a)])

\* Mutant: room is kept for one hash more.
WithNewest_Short(a) ==
    LET all == Append(Without(a), [id |-> a, left |-> DedupeTtl])
    IN  SubSeq(all, Greater(1, Len(all) - MaxHashes + 2), Len(all))

\* The oldest hashes make room.
WithNewest(a) ==
    LET all == Append(Without(a), [id |-> a, left |-> DedupeTtl])
    IN  SubSeq(all, Greater(1, Len(all) - MaxHashes + 1), Len(all))

---------------------------------------------------------------------------
(* _cleanup_old_state: expired hashes leave from the front, buckets unused  *)
(* for Retention go with their violations, old violations are forgiven, and *)
(* past MaxTracked a share of the longest unseen keys loses everything.     *)

Unexpired(hashes) ==
    LET live == {i \in DOMAIN hashes : hashes[i].left > 0}
    IN  IF live = {} THEN <<>>
        ELSE SubSeq(hashes, CHOOSE i \in live : \A j \in live : i <= j, Len(hashes))

Active == {k \in DOMAIN bucket : bucket[k].seen <= Retention}

Displaced ==
    {gone \in SUBSET Active :
        /\ Cardinality(gone) = IF Cardinality(Active) > MaxTracked
                               THEN Cardinality(Active) \div EvictShare ELSE 0
        /\ \A k \in gone, l \in Active \ gone : bucket[k].seen >= bucket[l].seen}

Forgiven(s) == IF s.age > Decay THEN [s EXCEPT !.count = 0] ELSE s

Books == [bucket |-> bucket, strikes |-> strikes, penalty |-> penalty]
CleanBooks(gone) ==
    LET live == Active \ gone
    IN  [bucket |-> [k \in live |-> bucket[k]],
         strikes |-> [k \in live \cap DOMAIN strikes |-> Forgiven(strikes[k])],
         penalty |-> [k \in Keys |-> IF k \in gone THEN 0 ELSE penalty[k]]]

Closing == window.closed >= WindowLength
Cleaning == Closing /\ window.cleaned >= CleanupEvery

\* _update_metrics_window: hashes is the cache, b what the limiter goes on with.
Measure(hashes, b) ==
    /\ window' = [closed |-> IF Closing THEN 0 ELSE window.closed,
                  cleaned |-> IF Cleaning THEN 0 ELSE window.cleaned]
    /\ target' \in IF Closing THEN Tiers ELSE {target}
    /\ cached' = IF Cleaning THEN Unexpired(hashes) ELSE hashes
    /\ b \in IF Cleaning THEN {CleanBooks(gone) : gone \in Displaced} ELSE {Books}

---------------------------------------------------------------------------
(* _update_tier: the tier follows its target after Hysteresis, unless the   *)
(* target changes in between.                                               *)

NextTier ==
    IF target' = tier.now THEN [tier EXCEPT !.pending = "none"]
    ELSE IF tier.pending # target' THEN [tier EXCEPT !.pending = target', !.since = 0]
    ELSE IF tier.since >= Hysteresis THEN [tier EXCEPT !.now = target', !.pending = "none"]
    ELSE tier

(* _refill_tokens_if_needed: everything since the last refill, at the rate  *)
(* of the tier of now; a key not tracked starts with a full bucket.         *)

\* Mutant: the refill is not capped.
Credit_Uncapped(e, t) == e.tokens + e.refill * Rate[t]
Credit(e, t) == Lesser(Capacity * Unit, e.tokens + e.refill * Rate[t])

\* Mutant: the time since the last refill counts again at the next one.
Refilled_Again(b, k, t) ==
    IF k \in DOMAIN b.bucket
    THEN [b.bucket[k] EXCEPT !.tokens = Credit(b.bucket[k], t)]
    ELSE [tokens |-> Capacity * Unit, refill |-> 0, seen |-> AgeCap]
Refilled(b, k, t) ==
    IF k \in DOMAIN b.bucket
    THEN [b.bucket[k] EXCEPT !.tokens = Credit(b.bucket[k], t), !.refill = 0]
    ELSE [tokens |-> Capacity * Unit, refill |-> 0, seen |-> AgeCap]

Holds(b, k, e) == [b EXCEPT !.bucket = [l \in DOMAIN b.bucket \cup {k} |->
                                          IF l = k THEN e ELSE b.bucket[l]]]

(* _record_violation_and_maybe_penalize *)

Penalty(count) == Lesser(MaxPenalty, BasePenalty * Factor ^ (count - Threshold))

Violations(b, k) ==
    IF k \in DOMAIN b.strikes /\ b.strikes[k].age <= Decay THEN b.strikes[k].count ELSE 0

Strike(b, k) ==
    LET count == Lesser(MaxStrikes, Violations(b, k) + 1)
    IN  [b EXCEPT !.strikes = [l \in DOMAIN b.strikes \cup {k} |->
                                 IF l = k THEN [count |-> count, age |-> 0] ELSE b.strikes[l]],
                  !.penalty[k] = IF count < Threshold THEN @ ELSE Greater(@, Penalty(count))]

\* Mutant: an advert that keeps the gap exactly is too soon.
TooSoon_Tie(e, t) == e.seen <= MinGap[t]
TooSoon(e, t) == e.seen < MinGap[t]

---------------------------------------------------------------------------
(* The ghosts. A key's meter gains a Unit for each advert it is granted and *)
(* drains at the fastest rate: it stays within Capacity exactly when no     *)
(* span of time was granted more than Capacity and what that rate brings.   *)

FastestRate == CHOOSE r \in {Rate[t] : t \in Limited} : \A t \in Limited : Rate[t] <= r
SlowestRate == CHOOSE r \in {Rate[t] : t \in Limited} : \A t \in Limited : Rate[t] >= r
WidestGap == CHOOSE g \in {MinGap[t] : t \in Limited} : \A t \in Limited : MinGap[t] <= g

\* The spacing that earns a token and passes the gap in any tier.
Polite(since) == since * SlowestRate >= Unit /\ since >= WidestGap

\* k keeps that spacing now and has kept it for as long as a penalty can last.
Deserves(k) == Polite(pace[k].since) /\ pace[k].behaved >= MaxPenalty

Heard(a) == others' = [x \in Adverts |-> IF x = a THEN {} ELSE others[x] \cup {a}]

Refusals == {"boxed", "violation"}

\* b: what the clean-up kept, so what the ghosts of a forgotten key may keep.
Judged(a, b, word) ==
    LET k == KeyOf[a]
        kept == [l \in Keys |-> IF l \in DOMAIN b.bucket THEN meter[l] ELSE 0]
    IN  /\ meter' = IF word = "granted" THEN [kept EXCEPT ![k] = @ + Unit] ELSE kept
        /\ pace' = IF word = "unlimited" THEN pace
                   ELSE [pace EXCEPT ![k] = [since |-> 0,
                            behaved |-> IF Polite(@.since) THEN @.behaved ELSE 0]]
        /\ charged' = [charged EXCEPT ![a] = 0]
        /\ faults' = faults
             \cup (IF charged[a] < DedupeTtl /\ Cardinality(others[a]) < MaxHashes
                   THEN {"charged for a copy"} ELSE {})
             \cup (IF word \in Refusals /\ Deserves(k) THEN {"polite but refused"} ELSE {})
        /\ Heard(a)

---------------------------------------------------------------------------
(* process_advert_packet: a refused advert is marked do-not-retransmit, a   *)
(* copy of any returns at once.                                             *)

Keep(b) == bucket' = b.bucket /\ strikes' = b.strikes /\ penalty' = b.penalty

Copy(a) ==
    /\ IsCopy(a)
    /\ \E b \in {Books} \cup {CleanBooks(gone) : gone \in Displaced} :
        /\ Measure(Reheard(a), b) /\ Keep(b)
        /\ meter' = [l \in Keys |-> IF l \in DOMAIN b.bucket THEN meter[l] ELSE 0]
    /\ Heard(a)
    /\ UNCHANGED <<tier, pace, charged, faults>>

\* _allow_advert says why it refuses or lets through.
Word(b, k, t) ==
    LET e == Refilled(b, k, t)
    IN  IF t = "quiet" THEN "unlimited"
        ELSE IF b.penalty[k] > 0 THEN "boxed"
        ELSE IF TooSoon(e, t) \/ e.tokens < Unit THEN "violation" ELSE "granted"

\* Mutant: an advert refused in the penalty box is one more violation.
Limit_Feeding(b, k, t) ==
    LET e == Refilled(b, k, t)
        word == Word(b, k, t)
    IN  CASE word = "unlimited" -> b
          [] word \in Refusals -> Strike(Holds(b, k, e), k)
          [] word = "granted" -> Holds(b, k, [e EXCEPT !.tokens = @ - Unit, !.seen = 0])
Limit(b, k, t) ==
    LET e == Refilled(b, k, t)
        word == Word(b, k, t)
    IN  CASE word \in {"unlimited", "boxed"} -> b
          [] word = "violation" -> Strike(Holds(b, k, e), k)
          [] word = "granted" -> Holds(b, k, [e EXCEPT !.tokens = @ - Unit, !.seen = 0])

First(a) ==
    /\ ~IsCopy(a)
    /\ \E b \in {Books} \cup {CleanBooks(gone) : gone \in Displaced} :
        /\ Measure(WithNewest(a), b)
        /\ tier' = NextTier
        /\ LET word == Word(b, KeyOf[a], tier'.now)
           IN  /\ Keep(Limit(b, KeyOf[a], tier'.now))
               /\ Judged(a, b, word)

\* An advert that does not parse is dropped before any of this.
Hear(a) == Copy(a) \/ First(a)

Grown(age) == Lesser(AgeCap, age + 1)
Shorter(left) == Greater(0, left - 1)

Ages ==
    /\ cached' = [i \in DOMAIN cached |-> [cached[i] EXCEPT !.left = Shorter(@)]]
    /\ bucket' = [k \in DOMAIN bucket |->
                    [bucket[k] EXCEPT !.refill = Grown(@), !.seen = Grown(@)]]
    /\ strikes' = [k \in DOMAIN strikes |-> [strikes[k] EXCEPT !.age = Grown(@)]]
    /\ penalty' = [k \in Keys |-> Shorter(penalty[k])]
    /\ tier' = [tier EXCEPT !.since = IF tier.pending = "none" THEN @ ELSE Grown(@)]
    /\ window' = [closed |-> Grown(window.closed), cleaned |-> Grown(window.cleaned)]
    /\ meter' = [k \in Keys |-> Greater(0, meter[k] - FastestRate)]
    /\ pace' = [k \in Keys |-> [since |-> Grown(pace[k].since), behaved |-> Grown(pace[k].behaved)]]
    /\ charged' = [a \in Adverts |-> Grown(charged[a])]
    /\ UNCHANGED <<target, others, faults>>

LimiterNext == Ages \/ \E a \in Adverts : Hear(a)

LimiterSpec == LimiterInit /\ [][LimiterNext]_limiterVars

---------------------------------------------------------------------------
(* Properties *)

\* In every span of time a public key is granted at most a full bucket of
\* adverts and what the fastest refill brings in that span, through refills at
\* the rates of different tiers, clean-ups and penalties, as long as its bucket
\* is kept (_refill_tokens_if_needed, _allow_advert). Adverts that pass in the
\* quiet tier are without limit and not counted.
RateBound == \A k \in Keys : meter[k] <= Capacity * Unit

\* A key whose adverts keep the spacing any tier asks for, and have kept it for
\* the longest penalty, is never refused: a penalty neither feeds on the adverts
\* it refuses nor outlives its term. And a copy heard within the dedupe time never
\* costs its key a token, unless MaxHashes other adverts were heard since the last
\* copy (_allow_advert, _record_violation_and_maybe_penalize,
\* _dedupe_advert_packet_hash).
FairToKeys == faults = {}
=============================================================================
