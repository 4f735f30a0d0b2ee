-------------------------- MODULE Selection_proofs --------------------------
(***************************************************************************)
(* Lists that hold a member once: what taking out, Append and Tail do to   *)
(* them.                                                                   *)
(***************************************************************************)
EXTENDS Selection, SequencesExt, FiniteSetTheorems, WellFoundedInduction, TLAPS

\* There is a least number.
LEMMA Least ==
    ASSUME NEW S \in SUBSET Nat, S # {}
    PROVE  \E p \in S : \A q \in S : p <= q
<1>1. PICK p \in S : \A q \in S : ~(<<q, p>> \in OpToRel(<, Nat))
  BY NatLessThanWellFounded, WFMin
<1>2. \A q \in S : <<q, p>> \in Nat \X Nat /\ <<q, p>>[1] = q /\ <<q, p>>[2] = p
  OBVIOUS
<1>3. \A q \in S : ~(q < p)
  BY <1>1, <1>2 DEF OpToRel
<1>. QED  BY <1>3

UpTo(K, k) == {j \in K : j <= k}

\* The numbers K, counted from the smallest, are each found once.
LEMMA NthFinds ==
    ASSUME NEW n \in Nat, NEW K \in SUBSET (1..n)
    PROVE  /\ Cardinality(K) \in Nat
           /\ \A i \in 1..Cardinality(K) : Nth(K, i) \in K
           /\ \A i, j \in 1..Cardinality(K) : Nth(K, i) = Nth(K, j) => i = j
           /\ \A k \in K : \E i \in 1..Cardinality(K) : Nth(K, i) = k
           /\ \A i, j \in 1..Cardinality(K) : i < j => Nth(K, i) < Nth(K, j)
<1> DEFINE rank == [k \in K |-> Cardinality(UpTo(K, k))]
<1>1. IsFiniteSet(K) /\ Cardinality(K) \in Nat
  <2>1. IsFiniteSet(1..n)
    BY FS_Interval
  <2>. QED  BY <2>1, FS_Subset, FS_CardinalityType
<1>2. ASSUME NEW k \in K
      PROVE  IsFiniteSet(UpTo(K, k)) /\ Cardinality(UpTo(K, k)) \in 1..Cardinality(K)
  <2>1. UpTo(K, k) \in SUBSET K /\ k \in UpTo(K, k)
    BY DEF UpTo
  <2>2. IsFiniteSet(UpTo(K, k)) /\ Cardinality(UpTo(K, k)) <= Cardinality(K)
    BY <1>1, <2>1, FS_Subset
  <2>3. Cardinality(UpTo(K, k)) \in Nat /\ Cardinality(UpTo(K, k)) # 0
    BY <2>1, <2>2, FS_CardinalityType, FS_EmptySet
  <2>. QED  BY <1>1, <2>2, <2>3
<1>3. ASSUME NEW j \in K, NEW k \in K, j < k
      PROVE  rank[j] < rank[k]
  <2>1. UpTo(K, j) \in SUBSET UpTo(K, k) /\ k \in UpTo(K, k) /\ k \notin UpTo(K, j)
    <3>1. j \in Nat /\ k \in Nat /\ \A i \in K : i \in Nat
      OBVIOUS
    <3>2. \A i \in K : i <= j => i <= k
      BY <1>3, <3>1
    <3>3. k <= k /\ ~(k <= j)
      BY <1>3, <3>1
    <3>. QED  BY <3>2, <3>3 DEF UpTo
  <2>2. UpTo(K, j) # UpTo(K, k)
    BY <2>1
  <2>3. Cardinality(UpTo(K, j)) < Cardinality(UpTo(K, k))
    BY <1>2, <2>1, <2>2, FS_Subset
  <2>. QED  BY <2>3
<1>4. \A j, k \in K : rank[j] = rank[k] => j = k
  <2>1. \A k \in K : rank[k] \in Nat
    BY <1>1, <1>2
  <2>. HIDE DEF rank
  <2>. QED  BY <1>3, <2>1
<1>5. ASSUME NEW i \in 1..Cardinality(K)
      PROVE  \E k \in K : rank[k] = i
  <2>. SUFFICES ASSUME \A k \in K : rank[k] # i PROVE FALSE
    OBVIOUS
  <2>. DEFINE T == (1..Cardinality(K)) \ {i}
  <2>1. rank \in [K -> T]
    BY <1>2
  <2>2. IsFiniteSet(1..Cardinality(K)) /\ Cardinality(1..Cardinality(K)) = Cardinality(K)
    BY <1>1, FS_Interval
  <2>. HIDE DEF rank
  <2>3. IsFiniteSet(T) /\ Cardinality(T) = Cardinality(K) - 1
    BY <2>2, FS_RemoveElement
  <2>. HIDE DEF T
  <2>4. \E j, k \in K : j # k /\ rank[j] = rank[k]
    <3>1. Cardinality(T) < Cardinality(K)
      BY <1>1, <2>3
    <3>. QED  BY <1>1, <2>1, <2>3, <3>1, FS_PigeonHole
  <2>. QED  BY <1>4, <2>4
<1>6. ASSUME NEW i \in 1..Cardinality(K)
      PROVE  Nth(K, i) \in K /\ rank[Nth(K, i)] = i
  BY <1>5 DEF Nth, UpTo
<1>7. ASSUME NEW k \in K
      PROVE  rank[k] \in 1..Cardinality(K) /\ Nth(K, rank[k]) = k
  <2>1. rank[k] \in 1..Cardinality(K)
    BY <1>2
  <2>. HIDE DEF rank
  <2>. QED  BY <1>4, <1>6, <2>1
<1>8. ASSUME NEW i \in 1..Cardinality(K), NEW j \in 1..Cardinality(K), i < j
      PROVE  Nth(K, i) < Nth(K, j)
  <2>. HIDE DEF rank
  <2>1. /\ Nth(K, i) \in K /\ Nth(K, j) \in K
        /\ rank[Nth(K, i)] < rank[Nth(K, j)]
    BY <1>1, <1>6, <1>8
  <2>2. Nth(K, i) \in Nat /\ Nth(K, j) \in Nat
    <3>1. \A k \in K : k \in Nat
      OBVIOUS
    <3>. QED  BY <2>1, <3>1
  <2>3. rank[Nth(K, i)] = i /\ rank[Nth(K, j)] = j
    BY <1>6
  <2>4. Nth(K, j) < Nth(K, i) => rank[Nth(K, j)] < rank[Nth(K, i)]
    BY <1>3, <2>1
  <2>5. i \in Nat /\ j \in Nat
    BY <1>1
  <2>. QED  BY <1>8, <2>2, <2>3, <2>4, <2>5
<1>. HIDE DEF rank
<1>. QED  BY <1>1, <1>6, <1>7, <1>8

\* OutOf takes out what is gone, and repeats nothing.
LEMMA OutOfFacts ==
    ASSUME NEW S, NEW s \in Seq(S), NEW gone
    PROVE  /\ OutOf(s, gone) \in Seq(S)
           /\ ToSet(OutOf(s, gone)) = ToSet(s) \ gone
           /\ IsInjective(s) => IsInjective(OutOf(s, gone))
<1> DEFINE kept == {i \in DOMAIN s : s[i] \notin gone}
           n == Cardinality(kept)
<1>1. Len(s) \in Nat /\ DOMAIN s = 1..Len(s) /\ kept \in SUBSET (1..Len(s))
  OBVIOUS
<1>2. OutOf(s, gone) = [i \in 1..n |-> s[Nth(kept, i)]]
  BY DEF OutOf
<1>3. /\ \A i \in kept : i \in DOMAIN s /\ s[i] \notin gone /\ s[i] \in S
      /\ \A i \in DOMAIN s : s[i] \notin gone => i \in kept
  OBVIOUS
<1>. HIDE DEF kept, n
<1>4. /\ n \in Nat
      /\ \A i \in 1..n : Nth(kept, i) \in kept
      /\ \A i, j \in 1..n : Nth(kept, i) = Nth(kept, j) => i = j
      /\ \A k \in kept : \E i \in 1..n : Nth(kept, i) = k
  BY <1>1, NthFinds DEF n
<1>5. OutOf(s, gone) \in Seq(S)
  BY <1>2, <1>3, <1>4
<1>6. ToSet(OutOf(s, gone)) = ToSet(s) \ gone
  <2>1. ASSUME NEW x \in ToSet(OutOf(s, gone)) PROVE x \in ToSet(s) \ gone
    BY <1>2, <1>3, <1>4 DEF ToSet
  <2>2. ASSUME NEW x \in ToSet(s) \ gone PROVE x \in ToSet(OutOf(s, gone))
    <3>1. PICK k \in kept : x = s[k]
      BY <1>3 DEF ToSet
    <3>2. PICK i \in 1..n : Nth(kept, i) = k
      BY <1>4
    <3>3. DOMAIN OutOf(s, gone) = 1..n /\ OutOf(s, gone)[i] = x
      BY <1>2, <3>1, <3>2
    <3>. QED  BY <3>3 DEF ToSet
  <2>. QED  BY <2>1, <2>2
<1>7. IsInjective(s) => IsInjective(OutOf(s, gone))
  BY <1>2, <1>3, <1>4 DEF IsInjective
<1>. QED  BY <1>5, <1>6, <1>7

\* OutOf keeps the order: what comes after a member came after it before.
LEMMA OutOfOrder ==
    ASSUME NEW S, NEW s \in Seq(S), NEW gone, NEW i \in DOMAIN s, s[i] \notin gone
    PROVE  \E m \in DOMAIN OutOf(s, gone) :
              /\ OutOf(s, gone)[m] = s[i]
              /\ \A n \in DOMAIN OutOf(s, gone) :
                    n > m => \E j \in DOMAIN s : j > i /\ OutOf(s, gone)[n] = s[j]
<1> DEFINE kept == {j \in DOMAIN s : s[j] \notin gone}
           n == Cardinality(kept)
<1>1. Len(s) \in Nat /\ DOMAIN s = 1..Len(s) /\ kept \in SUBSET (1..Len(s)) /\ i \in kept
  OBVIOUS
<1>2. OutOf(s, gone) = [j \in 1..n |-> s[Nth(kept, j)]]
  BY DEF OutOf
<1>. HIDE DEF kept, n
<1>3. /\ n \in Nat
      /\ \A j \in 1..n : Nth(kept, j) \in kept
      /\ \A k \in kept : \E j \in 1..n : Nth(kept, j) = k
      /\ \A j, k \in 1..n : j < k => Nth(kept, j) < Nth(kept, k)
  BY <1>1, NthFinds DEF n
<1>4. PICK m \in 1..n : Nth(kept, m) = i
  BY <1>1, <1>3
<1>5. ASSUME NEW k \in 1..n, k > m
      PROVE  Nth(kept, k) \in DOMAIN s /\ Nth(kept, k) > i /\ OutOf(s, gone)[k] = s[Nth(kept, k)]
  <2>1. Nth(kept, k) \in kept /\ Nth(kept, k) \in Nat /\ Nth(kept, m) < Nth(kept, k) /\ i \in Nat
    BY <1>1, <1>3, <1>5
  <2>. QED  BY <1>1, <1>2, <1>4, <2>1
<1>. QED  BY <1>2, <1>4, <1>5

\* What Append adds to a sequence.
LEMMA AppendFacts ==
    ASSUME NEW S, NEW s \in Seq(S), NEW x \in S
    PROVE  /\ Append(s, x) \in Seq(S) /\ ToSet(Append(s, x)) = ToSet(s) \cup {x}
           /\ IsInjective(s) /\ x \notin ToSet(s) => IsInjective(Append(s, x))
<1>1. /\ Append(s, x) \in Seq(S) /\ DOMAIN Append(s, x) = DOMAIN s \cup {Len(s) + 1}
      /\ Len(s) + 1 \notin DOMAIN s /\ Append(s, x)[Len(s) + 1] = x
      /\ \A i \in DOMAIN s : Append(s, x)[i] = s[i]
  OBVIOUS
<1>. QED  BY <1>1 DEF ToSet, IsInjective

\* What Tail takes from a sequence.
LEMMA TailFacts ==
    ASSUME NEW S, NEW s \in Seq(S), s # <<>>
    PROVE  /\ Head(s) \in S /\ Head(s) \in ToSet(s) /\ Tail(s) \in Seq(S)
           /\ ToSet(s) = ToSet(Tail(s)) \cup {Head(s)}
           /\ IsInjective(s) => IsInjective(Tail(s)) /\ Head(s) \notin ToSet(Tail(s))
<1>1. /\ Tail(s) \in Seq(S) /\ Len(Tail(s)) = Len(s) - 1
      /\ \A i \in DOMAIN Tail(s) : i + 1 \in DOMAIN s /\ Tail(s)[i] = s[i + 1]
      /\ Head(s) = s[1] /\ 1 \in DOMAIN s /\ s[1] \in S
  OBVIOUS
<1>2. \A i \in DOMAIN s : i = 1 \/ (i - 1 \in DOMAIN Tail(s) /\ Tail(s)[i - 1] = s[i])
  BY <1>1
<1>3. \A i \in DOMAIN Tail(s) : i # 0
  BY <1>1
<1>4. ToSet(s) = ToSet(Tail(s)) \cup {Head(s)}
  <2>1. ASSUME NEW x \in ToSet(s) PROVE x \in ToSet(Tail(s)) \cup {Head(s)}
    BY <1>1, <1>2 DEF ToSet
  <2>2. ASSUME NEW x \in ToSet(Tail(s)) \cup {Head(s)} PROVE x \in ToSet(s)
    BY <1>1 DEF ToSet
  <2>. QED  BY <2>1, <2>2
<1>5. IsInjective(s) => IsInjective(Tail(s)) /\ Head(s) \notin ToSet(Tail(s))
  BY <1>1, <1>3 DEF IsInjective, ToSet
<1>. QED  BY <1>1, <1>4, <1>5 DEF ToSet

---------------------------------------------------------------------------
(* How often the members of a set occur in a list                          *)

Places(s, T) == {i \in DOMAIN s : s[i] \in T}
Occurs(s, T) == Cardinality(Places(s, T))

LEMMA OccursType ==
    ASSUME NEW S, NEW s \in Seq(S), NEW T
    PROVE  IsFiniteSet(Places(s, T)) /\ Occurs(s, T) \in Nat /\ Occurs(s, T) <= Len(s)
<1>1. Len(s) \in Nat /\ DOMAIN s = 1..Len(s)
  OBVIOUS
<1>2. IsFiniteSet(1..Len(s)) /\ Cardinality(1..Len(s)) = Len(s)
  BY <1>1, FS_Interval
<1>3. Places(s, T) \in SUBSET (1..Len(s))
  BY <1>1 DEF Places
<1>4. IsFiniteSet(Places(s, T)) /\ Cardinality(Places(s, T)) <= Cardinality(1..Len(s))
  BY <1>2, <1>3, FS_Subset
<1>. QED  BY <1>2, <1>4, FS_CardinalityType DEF Occurs

\* What is taken out no longer occurs, and the rest as often as before.
LEMMA OutOfOccurs ==
    ASSUME NEW s, Len(s) \in Nat, DOMAIN s = 1..Len(s), NEW gone, NEW T
    PROVE  Occurs(OutOf(s, gone), T) = Occurs(s, T \ gone)
<1> DEFINE kept == {i \in DOMAIN s : s[i] \notin gone}
           n == Cardinality(kept)
           A == Places(OutOf(s, gone), T)
           B == Places(s, T \ gone)
           f == [i \in A |-> Nth(kept, i)]
<1>1. Len(s) \in Nat /\ kept \in SUBSET (1..Len(s))
  OBVIOUS
<1>2. OutOf(s, gone) = [i \in 1..n |-> s[Nth(kept, i)]]
  BY DEF OutOf
<1>3. /\ \A i \in kept : i \in DOMAIN s /\ s[i] \notin gone
      /\ \A i \in DOMAIN s : s[i] \notin gone => i \in kept
  OBVIOUS
<1>. HIDE DEF kept, n
<1>4. /\ n \in Nat
      /\ \A i \in 1..n : Nth(kept, i) \in kept
      /\ \A i, j \in 1..n : Nth(kept, i) = Nth(kept, j) => i = j
      /\ \A k \in kept : \E i \in 1..n : Nth(kept, i) = k
  BY <1>1, NthFinds DEF n
<1>5. \A i : i \in A <=> i \in 1..n /\ s[Nth(kept, i)] \in T
  BY <1>2 DEF Places
<1>6. \A k : k \in B <=> k \in kept /\ s[k] \in T
  BY <1>3 DEF Places
<1>. HIDE DEF A, B
<1>7. f \in [A -> B] /\ \A i, j \in A : f[i] = f[j] => i = j
  BY <1>4, <1>5, <1>6
<1>8. \A k \in B : \E i \in A : f[i] = k
  BY <1>4, <1>5, <1>6
<1>. HIDE DEF f
<1>9. ExistsBijection(A, B)
  <2>1. f \in Bijection(A, B)
    BY <1>7, <1>8 DEF Bijection, Injection, Surjection, IsInjective
  <2>. QED  BY <2>1 DEF ExistsBijection
<1>10. IsFiniteSet(A)
  <2>1. A \in SUBSET (1..n)
    BY <1>5
  <2>2. IsFiniteSet(1..n)
    BY <1>4, FS_Interval
  <2>. QED  BY <2>1, <2>2, FS_Subset
<1>11. Cardinality(B) = Cardinality(A)
  BY <1>9, <1>10, FS_Bijection
<1>. QED  BY <1>11 DEF A, B, Occurs

LEMMA OutOfLength ==
    ASSUME NEW s, Len(s) \in Nat, DOMAIN s = 1..Len(s), NEW gone
    PROVE  Len(OutOf(s, gone)) = Cardinality({i \in DOMAIN s : s[i] \notin gone})
<1> DEFINE kept == {i \in DOMAIN s : s[i] \notin gone}
<1>1. Len(s) \in Nat /\ kept \in SUBSET (1..Len(s))
  OBVIOUS
<1>. HIDE DEF kept
<1>2. Cardinality(kept) \in Nat
  BY <1>1, NthFinds
<1>3. OutOf(s, gone) = [i \in 1..Cardinality(kept) |-> s[Nth(kept, i)]]
  BY DEF OutOf, kept
<1>. QED  BY <1>2, <1>3 DEF kept

LEMMA AppendOccurs ==
    ASSUME NEW S, NEW s \in Seq(S), NEW x \in S, NEW T
    PROVE  Occurs(Append(s, x), T) = IF x \in T THEN Occurs(s, T) + 1 ELSE Occurs(s, T)
<1>1. /\ DOMAIN Append(s, x) = DOMAIN s \cup {Len(s) + 1}
      /\ Len(s) + 1 \notin DOMAIN s /\ Append(s, x)[Len(s) + 1] = x
      /\ \A i \in DOMAIN s : Append(s, x)[i] = s[i]
  OBVIOUS
<1>2. Places(Append(s, x), T) = IF x \in T THEN Places(s, T) \cup {Len(s) + 1} ELSE Places(s, T)
  BY <1>1 DEF Places
<1>3. Len(s) + 1 \notin Places(s, T)
  BY <1>1 DEF Places
<1>. QED  BY <1>2, <1>3, OccursType, FS_AddElement DEF Occurs
=============================================================================
