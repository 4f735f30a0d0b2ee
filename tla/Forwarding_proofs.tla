---------------------------- MODULE Forwarding_proofs ---------------------
(***************************************************************************)
(* The forwarding engine. Of Mesh, for every mesh, traffic and cache size: *)
(* what a path tells, that a repeater relays a packet once, that the mesh  *)
(* spreads a flood as FloodSpread says and to every repeater in reach, and *)
(* that a doubled ACK survives a loss at every hop. Of Repeater, for every *)
(* traffic, limit and age: what one engine remembers, under which keys it  *)
(* relays, and where it files its records.                                 *)
(***************************************************************************)
EXTENDS Mesh, Repeater, Selection_proofs

---------------------------------------------------------------------------
(* Mesh: the inductive invariant *)

Trails == Seq(Nodes \X {"data", "ack", "multiack"})
FrameSet == [pkt : Packets, trail : Trails]

MeshType ==
    /\ world \in Worlds
    /\ unsent \subseteq world.sends
    /\ seen \in [Repeaters -> Seq(KeysOf(world.sends))]
    /\ queue \in [Repeaters -> SUBSET FrameSet]
    /\ air \subseteq [to : Nodes, frame : FrameSet]
    /\ heard \in [Stations -> SUBSET FrameSet]
    /\ relays \in [Repeaters -> [Keys -> Nat]]

\* t is the packet that f is a copy of.
CopyOf(f, t) ==
    /\ t \in world.sends \ unsent
    /\ f.pkt.id = t.pkt.id /\ f.pkt.size = t.pkt.size /\ f.pkt.dnr = t.pkt.dnr
    /\ IsFlood(f.pkt) <=> IsFlood(t.pkt)
    /\ IsFlood(f.pkt) => f.pkt.route = t.pkt.route /\ f.pkt.scope = t.pkt.scope
    /\ IF IsFlood(f.pkt) \/ t.pkt.type = "data" THEN f.pkt.type = t.pkt.type
       ELSE f.pkt.type \in {"ack", "multiack"}

Copies(f) == \E t \in world.sends : CopyOf(f, t)

\* A frame as it is sent tells where it has been, or where it goes.
Tells(f) ==
    IF IsFlood(f.pkt) THEN f.pkt.path = RelayHashes(f)
    ELSE \E t \in world.sends : t.pkt.id = f.pkt.id /\ RelayHashes(f) \o f.pkt.path = t.pkt.path

\* How often the hash at place i occurs in a path.
Times(path, i) == Cardinality({j \in DOMAIN path : path[j] = path[i]})

\* The limits a path keeps.
Fits(p) ==
    /\ Hops(p) <= MaxHopCount
    /\ MaxFloodHops > 0 => Hops(p) <= MaxFloodHops
    /\ Hops(p) * p.size <= MaxPathBytes
Loops(p) ==
    p.size \in DOMAIN LoopMax => \A i \in DOMAIN p.path : Times(p.path, i) <= LoopMax[p.size]
Keeps(f) == IsFlood(f.pkt) => Fits(f.pkt) /\ Loops(f.pkt)

\* n has sent the packet of key k, its own or another's.
Own(n, k)     == \E t \in world.sends : t.from = n /\ Key(t.pkt) = k
OwnSent(n, k) == \E t \in world.sends \ unsent : t.from = n /\ Key(t.pkt) = k
Carried(n, k) == OwnSent(n, k) \/ (n \in Repeaters /\ relays[n][k] > 0)

Held(r, f) == Tells(Sent(r, f)) /\ (IsFlood(f.pkt) => Carried(r, Key(f.pkt)))
OnAir(x) ==
    /\ x.frame.trail # <<>> /\ Tells(x.frame)
    /\ \E n \in Nodes : /\ x.to \in Neighbours[n]
                        /\ IsFlood(x.frame.pkt) => Carried(n, Key(x.frame.pkt))

FrameInv ==
    /\ \A f \in Frames : Copies(f) /\ Keeps(f)
    /\ \A r \in Repeaters : \A f \in queue[r] : Held(r, f)
    /\ \A x \in air : OnAir(x)

\* Nothing a roomy cache has taken in is forgotten.
Roomy == CacheSize >= Cardinality(KeysOf(world.sends))
SeenInv ==
    Roomy =>
        \A r \in Repeaters :
            /\ IsInjective(seen[r])
            /\ \A k \in Keys :
                  /\ OwnSent(r, k) \/ relays[r][k] > 0 => k \in SeenKeys(r)
                  /\ relays[r][k] <= (IF Own(r, k) THEN 0 ELSE 1)

IInv == MeshType /\ FrameInv /\ SeenInv

---------------------------------------------------------------------------
(* Keys and the cache *)

\* The values of a function on a finite set are finite.
LEMMA Image ==
    ASSUME NEW S, IsFiniteSet(S), NEW f, DOMAIN f = S
    PROVE  IsFiniteSet({f[x] : x \in S})
<1> DEFINE T == {f[x] : x \in S}
           g == [x \in S |-> f[x]]
<1>1. g \in Surjection(S, T)
  BY DEF Surjection
<1>. QED  BY <1>1, FS_Surjection

\* What a world is.
LEMMA WorldFacts ==
    ASSUME world \in Worlds
    PROVE  /\ world.sends \subseteq Traffic /\ CacheSize \in Nat \ {0}
           /\ world.neighbours \in [Nodes -> SUBSET Nodes]
           /\ KeysOf(world.sends) \subseteq Keys
           /\ IsFiniteSet(KeysOf(world.sends)) /\ Cardinality(KeysOf(world.sends)) \in Nat
<1>1. /\ world.sends \subseteq Traffic /\ CacheSize \in Nat \ {0}
      /\ world.neighbours \in [Nodes -> SUBSET Nodes]
  BY MeshAssumption DEF CacheSize
<1>2. KeysOf(world.sends) \subseteq Keys
  BY <1>1 DEF KeysOf, Keys
<1>3. IsFiniteSet(KeysOf(world.sends))
  <2>. DEFINE S == world.sends
              U == {u \in S : u.pkt.type = "ack"}
              V == {u \in S : u.pkt.type = "multiack"}
              K == [t \in S |-> Key(t.pkt)]
              M == [t \in U |-> <<"multiack", t.pkt.id>>]
              A == [t \in V |-> <<"ack", t.pkt.id>>]
  <2>1. IsFiniteSet(S)
    BY <1>1, MeshAssumption, FS_Subset
  <2>2. IsFiniteSet(U) /\ IsFiniteSet(V)
    BY <2>1, FS_Subset
  <2>3. DOMAIN K = S /\ DOMAIN M = U /\ DOMAIN A = V
    OBVIOUS
  <2>4. KeysOf(S) = {K[t] : t \in S} \cup {M[t] : t \in U} \cup {A[t] : t \in V}
    BY DEF KeysOf
  <2>. HIDE DEF S, U, V, K, M, A
  <2>5. IsFiniteSet({K[t] : t \in S}) /\ IsFiniteSet({M[t] : t \in U}) /\ IsFiniteSet({A[t] : t \in V})
    BY <2>1, <2>2, <2>3, Image
  <2>6. IsFiniteSet({K[t] : t \in S} \cup {M[t] : t \in U} \cup {A[t] : t \in V})
    BY <2>5, FS_Union
  <2>. QED  BY <2>4, <2>6 DEF S
<1>. QED  BY <1>1, <1>2, <1>3, FS_CardinalityType

\* A list without repetitions is no longer than the set of its members' values.
LEMMA ListInSet ==
    ASSUME NEW K, IsFiniteSet(K), NEW s \in Seq(K), IsInjective(s)
    PROVE  Len(s) <= Cardinality(K)
<1>1. Len(s) \in Nat /\ DOMAIN s = 1..Len(s) /\ s \in [1..Len(s) -> K]
  OBVIOUS
<1>2. s \in Injection(1..Len(s), K)
  BY <1>1 DEF Injection, IsInjective
<1>3. Cardinality(1..Len(s)) <= Cardinality(K)
  BY <1>2, FS_Injection
<1>4. Cardinality(1..Len(s)) = Len(s)
  BY <1>1, FS_Interval
<1>. QED  BY <1>3, <1>4

\* What Append puts where.
LEMMA AppendPlaces ==
    ASSUME NEW S, NEW s \in Seq(S), NEW x \in S
    PROVE  /\ Append(s, x) \in Seq(S) /\ Append(s, x) # <<>>
           /\ Len(Append(s, x)) = Len(s) + 1 /\ Len(s) \in Nat
           /\ \A i \in 1..Len(s) : Append(s, x)[i] = s[i]
           /\ Append(s, x)[Len(s) + 1] = x
<1>1. Len(Append(s, x)) = Len(s) + 1 /\ Len(s) \in Nat /\ Len(<<>>) = 0
  OBVIOUS
<1>2. Append(s, x) # <<>>
  BY <1>1
<1>. QED  BY <1>1, <1>2

LEMMA ListIsFunction ==
    ASSUME NEW S, NEW s \in Seq(S)
    PROVE  s = [i \in 1..Len(s) |-> s[i]]
OBVIOUS

\* mark_seen keeps keys; a roomy cache takes one in and loses none.
LEMMA MarkSeenFacts ==
    ASSUME MeshType, NEW r \in Repeaters, NEW key \in KeysOf(world.sends)
    PROVE  /\ MarkSeen(r, key) \in [Repeaters -> Seq(KeysOf(world.sends))]
           /\ \A q \in Repeaters \ {r} : MarkSeen(r, key)[q] = seen[q]
           /\ ToSet(MarkSeen(r, key)[r]) \subseteq SeenKeys(r) \cup {key}
           /\ Roomy /\ IsInjective(seen[r]) =>
                /\ IsInjective(MarkSeen(r, key)[r])
                /\ ToSet(MarkSeen(r, key)[r]) = SeenKeys(r) \cup {key}
<1> DEFINE K == KeysOf(world.sends)
           grown == Append(seen[r], key)
           new == IF Len(grown) > CacheSize THEN Tail(grown) ELSE grown
<1>1. /\ seen \in [Repeaters -> Seq(K)] /\ seen[r] \in Seq(K) /\ world \in Worlds
      /\ SeenKeys(r) = ToSet(seen[r])
  BY DEF MeshType, SeenKeys, ToSet
<1>2. MarkSeen(r, key) = IF key \in SeenKeys(r) THEN seen ELSE [seen EXCEPT ![r] = new]
  BY DEF MarkSeen
<1>3. /\ grown \in Seq(K) /\ ToSet(grown) = ToSet(seen[r]) \cup {key} /\ grown # <<>>
      /\ IsInjective(seen[r]) /\ key \notin ToSet(seen[r]) => IsInjective(grown)
  <2>1. key \in K
    OBVIOUS
  <2>. HIDE DEF K
  <2>2. /\ Append(seen[r], key) \in Seq(K) /\ ToSet(Append(seen[r], key)) = ToSet(seen[r]) \cup {key}
        /\ IsInjective(seen[r]) /\ key \notin ToSet(seen[r]) => IsInjective(Append(seen[r], key))
    BY <1>1, <2>1, AppendFacts
  <2>3. Append(seen[r], key) # <<>>
    BY <1>1, <2>1, AppendPlaces
  <2>. QED  BY <2>2, <2>3
<1>. HIDE DEF K, grown
<1>4. new \in Seq(K) /\ ToSet(new) \subseteq ToSet(grown)
  BY <1>3, TailFacts
<1>. HIDE DEF new
<1>5. MarkSeen(r, key) \in [Repeaters -> Seq(K)] /\ \A q \in Repeaters \ {r} : MarkSeen(r, key)[q] = seen[q]
  BY <1>1, <1>2, <1>4
<1>6. ASSUME Roomy, IsInjective(seen[r])
      PROVE  IsInjective(MarkSeen(r, key)[r]) /\ ToSet(MarkSeen(r, key)[r]) = SeenKeys(r) \cup {key}
  <2>1. CASE key \in SeenKeys(r)
    BY <1>1, <1>2, <1>6, <2>1
  <2>2. CASE key \notin SeenKeys(r)
    <3>1. IsInjective(grown)
      BY <1>1, <1>3, <1>6, <2>2
    <3>2. Len(grown) <= Cardinality(K) /\ Cardinality(K) \in Nat /\ CacheSize \in Nat
      BY <1>1, <1>3, <3>1, ListInSet, WorldFacts DEF K
    <3>3. new = grown
      <4>1. CacheSize >= Cardinality(K) /\ Len(grown) \in Nat
        BY <1>3, <1>6 DEF Roomy, K
      <4>. QED  BY <3>2, <4>1 DEF new
    <3>4. MarkSeen(r, key)[r] = grown
      BY <1>1, <1>2, <2>2, <3>3
    <3>. QED  BY <1>1, <1>3, <3>1, <3>4
  <2>. QED  BY <2>1, <2>2
<1>7. ToSet(MarkSeen(r, key)[r]) \subseteq SeenKeys(r) \cup {key}
  BY <1>1, <1>2, <1>3, <1>4
<1>. QED  BY <1>5, <1>6, <1>7 DEF K

\* The key of a copy is one of the keys in circulation.
LEMMA CopyKey ==
    ASSUME world \in Worlds, NEW f \in FrameSet, NEW t \in world.sends, CopyOf(f, t)
    PROVE  /\ Key(f.pkt) \in KeysOf(world.sends)
           /\ IsFlood(f.pkt) => IsFlood(t.pkt) /\ Key(f.pkt) = Key(t.pkt)
<1>1. t \in Traffic /\ t.pkt.type \in {"data", "ack", "multiack"} /\ f.pkt.id = t.pkt.id
  BY WorldFacts, MeshAssumption DEF CopyOf, Packets
<1>2. IsFlood(f.pkt) => IsFlood(t.pkt) /\ Key(f.pkt) = Key(t.pkt)
  BY <1>1 DEF CopyOf, Key
<1>3. Key(f.pkt) = Key(t.pkt) \/ (t.pkt.type = "ack" /\ Key(f.pkt) = <<"multiack", t.pkt.id>>)
         \/ (t.pkt.type = "multiack" /\ Key(f.pkt) = <<"ack", t.pkt.id>>)
  BY <1>1 DEF CopyOf, Key
<1>. QED  BY <1>2, <1>3 DEF KeysOf

---------------------------------------------------------------------------
(* Frames *)

LEMMA PacketFacts ==
    ASSUME NEW p \in Packets
    PROVE  /\ p = [id |-> p.id, type |-> p.type, route |-> p.route, scope |-> p.scope,
                   size |-> p.size, path |-> p.path, dnr |-> p.dnr]
           /\ p.path \in Seq(PathHashes) /\ Hops(p) \in Nat /\ DOMAIN p.path = 1..Hops(p)
           /\ p.size \in 1..4 /\ p.type \in {"data", "ack", "multiack"}
BY DEF Packets, Hops

\* Sending a frame adds to its trail and leaves its packet alone.
LEMMA SentFacts ==
    ASSUME NEW f \in FrameSet, NEW n \in Nodes
    PROVE  /\ Sent(n, f) \in FrameSet /\ Sent(n, f).pkt = f.pkt
           /\ Sent(n, f).trail = Append(f.trail, <<n, f.pkt.type>>)
           /\ Sent(n, f).trail # <<>>
<1>1. f.trail \in Trails /\ f.pkt \in Packets /\ f = [pkt |-> f.pkt, trail |-> f.trail]
  BY DEF FrameSet
<1>2. <<n, f.pkt.type>> \in Nodes \X {"data", "ack", "multiack"}
  BY <1>1, PacketFacts
<1>3. Append(f.trail, <<n, f.pkt.type>>) \in Trails /\ Append(f.trail, <<n, f.pkt.type>>) # <<>>
  BY <1>1, <1>2, AppendPlaces DEF Trails
<1>4. Sent(n, f) = [f EXCEPT !.trail = Append(f.trail, <<n, f.pkt.type>>)]
  BY DEF Sent
<1>. QED  BY <1>1, <1>3, <1>4 DEF FrameSet

\* The way of a frame grows by the hash of the node that relays it.
LEMMA WayGrows ==
    ASSUME NEW f \in FrameSet, f.trail # <<>>, NEW n \in Nodes, NEW q \in Packets,
           q.size = f.pkt.size
    PROVE  RelayHashes(Sent(n, [f EXCEPT !.pkt = q])) = Append(RelayHashes(f), HashOf[n][q.size])
<1> DEFINE g == [f EXCEPT !.pkt = q]
           m == Len(f.trail)
<1>1. f.trail \in Seq(Nodes \X {"data", "ack", "multiack"}) /\ m \in Nat \ {0}
  BY DEF FrameSet, Trails
<1>2. g \in FrameSet /\ g.pkt = q /\ g.trail = f.trail
  BY DEF FrameSet
<1>. HIDE DEF g
<1>3. Sent(n, g).pkt = q /\ Sent(n, g).trail = Append(f.trail, <<n, q.type>>)
  BY <1>2, SentFacts
<1>4. <<n, q.type>> \in Nodes \X {"data", "ack", "multiack"}
  BY PacketFacts
<1>5. /\ Len(Append(f.trail, <<n, q.type>>)) = m + 1
      /\ \A i \in 1..m : Append(f.trail, <<n, q.type>>)[i] = f.trail[i]
      /\ Append(f.trail, <<n, q.type>>)[m + 1] = <<n, q.type>>
  BY <1>1, <1>4
<1>. HIDE DEF m
<1>6. RelayHashes(Sent(n, g)) = [i \in 1..m |-> HashOf[Append(f.trail, <<n, q.type>>)[i + 1][1]][q.size]]
  BY <1>1, <1>3, <1>5 DEF RelayHashes
<1>7. RelayHashes(f) = [i \in 1..(m - 1) |-> HashOf[f.trail[i + 1][1]][q.size]]
  BY DEF RelayHashes, m
<1>8. Len(RelayHashes(f)) = m - 1
  BY <1>1, <1>7
<1>9. Append(RelayHashes(f), HashOf[n][q.size])
        = [i \in 1..m |-> IF i = m THEN HashOf[n][q.size] ELSE RelayHashes(f)[i]]
  <2>. DEFINE R == RelayHashes(f)
              x == HashOf[n][q.size]
              S == {R[i] : i \in 1..(m - 1)} \cup {x}
  <2>1. R \in Seq(S) /\ Len(R) = m - 1 /\ x \in S
    <3>1. R = [i \in 1..(m - 1) |-> R[i]] /\ m - 1 \in Nat
      BY <1>1, <1>7
    <3>2. \A i \in 1..(m - 1) : R[i] \in S
      OBVIOUS
    <3>. HIDE DEF R, S
    <3>3. R \in [1..(m - 1) -> S]
      BY <3>1, <3>2
    <3>4. R \in Seq(S)
      BY <3>1, <3>3
    <3>. QED  BY <1>8, <3>4 DEF R, S
  <2>. HIDE DEF R, x, S
  <2>2. /\ Append(R, x) \in Seq(S) /\ Len(Append(R, x)) = m
        /\ \A i \in 1..(m - 1) : Append(R, x)[i] = R[i]
        /\ Append(R, x)[m] = x
    BY <1>1, <2>1, AppendPlaces
  <2>3. Append(R, x) = [i \in 1..m |-> Append(R, x)[i]]
    <3>1. Append(R, x) = [i \in 1..Len(Append(R, x)) |-> Append(R, x)[i]]
      BY <2>2, ListIsFunction
    <3>. QED  BY <2>2, <3>1
  <2>4. \A i \in 1..m : Append(R, x)[i] = IF i = m THEN x ELSE R[i]
    BY <1>1, <2>2
  <2>5. Append(R, x) = [i \in 1..m |-> IF i = m THEN x ELSE R[i]]
    BY <2>3, <2>4
  <2>. QED  BY <2>5 DEF R, x
<1>10. ASSUME NEW i \in 1..m
       PROVE  HashOf[Append(f.trail, <<n, q.type>>)[i + 1][1]][q.size]
                = IF i = m THEN HashOf[n][q.size] ELSE RelayHashes(f)[i]
  <2>1. CASE i = m
    BY <1>5, <2>1
  <2>2. CASE i # m
    <3>1. i + 1 \in 1..m /\ i \in 1..(m - 1)
      BY <1>1, <2>2
    <3>. QED  BY <1>5, <1>7, <2>2, <3>1
  <2>. QED  BY <2>1, <2>2
<1>. QED  BY <1>6, <1>9, <1>10 DEF g

\* Moving the head of one list to the end of another.
LEMMA Moved ==
    ASSUME NEW S, NEW s \in Seq(S), NEW p \in Seq(S), p # <<>>
    PROVE  Append(s, Head(p)) \o Tail(p) = s \o p
<1>1. Len(p) \in Nat \ {0} /\ Len(s) \in Nat /\ Head(p) = p[1] /\ p[1] \in S
  OBVIOUS
<1>2. Tail(p) \in Seq(S) /\ Len(Tail(p)) = Len(p) - 1 /\ \A i \in 1..(Len(p) - 1) : Tail(p)[i] = p[i + 1]
  BY <1>1
<1>3. Append(s, Head(p)) \in Seq(S) /\ Len(Append(s, Head(p))) = Len(s) + 1
  BY <1>1
<1>4. Append(s, Head(p)) \o Tail(p) \in Seq(S) /\ s \o p \in Seq(S)
  BY <1>2, <1>3
<1>5. Len(Append(s, Head(p)) \o Tail(p)) = Len(s) + Len(p) /\ Len(s \o p) = Len(s) + Len(p)
  BY <1>1, <1>2, <1>3
<1>6. ASSUME NEW i \in 1..(Len(s) + Len(p))
      PROVE  (Append(s, Head(p)) \o Tail(p))[i] = (s \o p)[i]
  <2>1. CASE i <= Len(s)
    BY <1>1, <1>2, <1>3, <2>1
  <2>2. CASE i = Len(s) + 1
    BY <1>1, <1>2, <1>3, <2>2
  <2>3. CASE i > Len(s) + 1
    BY <1>1, <1>2, <1>3, <2>3
  <2>. QED  BY <1>1, <2>1, <2>2, <2>3
<1>. QED  BY <1>4, <1>5, <1>6

---------------------------------------------------------------------------
(* What a relay puts on the air *)

LEMMA PathSize ==
    ASSUME NEW p \in Packets
    PROVE  /\ IsFiniteSet(DOMAIN p.path)
           /\ \A S \in SUBSET DOMAIN p.path : IsFiniteSet(S) /\ Cardinality(S) \in Nat
<1>1. IsFiniteSet(DOMAIN p.path)
  BY PacketFacts, FS_Interval
<1>. QED  BY <1>1, FS_Subset, FS_CardinalityType

\* A flood packet that passes grows by this node's hash and keeps the limits.
LEMMA FloodOutFacts ==
    ASSUME NEW r \in Repeaters, NEW p \in Packets, Valid(p), RoomInPath(p), ~Looped(r, p), Loops(p)
    PROVE  LET q == FloodOut(r, p)
           IN  /\ q \in Packets /\ q.path = Append(p.path, HashOf[r][p.size])
               /\ q.id = p.id /\ q.type = p.type /\ q.route = p.route /\ q.size = p.size
               /\ q.scope = p.scope /\ q.dnr = p.dnr
               /\ Fits(q) /\ Loops(q)
<1> DEFINE q == FloodOut(r, p)
           x == HashOf[r][p.size]
           h == Hops(p)
<1>1. p.size \in 1..3 /\ x \in PathHashes /\ p.path \in Seq(PathHashes) /\ h = Len(p.path)
  <2>1. p.size \in 1..3
    BY PacketFacts DEF Valid
  <2>. QED  BY <2>1, PacketFacts DEF PathHashes, Hops
<1>2. /\ Append(p.path, x) \in Seq(PathHashes) /\ Len(Append(p.path, x)) = h + 1 /\ h \in Nat
      /\ \A i \in 1..h : Append(p.path, x)[i] = p.path[i]
      /\ Append(p.path, x)[h + 1] = x
  BY <1>1, AppendPlaces
<1>3. q = [p EXCEPT !.path = Append(p.path, x)]
  BY DEF FloodOut
<1>4. /\ q \in Packets /\ q.path = Append(p.path, x)
      /\ q.id = p.id /\ q.type = p.type /\ q.route = p.route /\ q.size = p.size
      /\ q.scope = p.scope /\ q.dnr = p.dnr
  BY <1>2, <1>3 DEF Packets
<1>. HIDE DEF q, x, h
<1>5. Hops(q) = h + 1 /\ DOMAIN q.path = 1..(h + 1) /\ DOMAIN p.path = 1..h
  BY <1>1, <1>2, <1>4 DEF Hops
<1>6. Fits(q)
  BY <1>2, <1>4, <1>5, ForwardingAssumption DEF Fits, RoomInPath, h
<1>7. ASSUME q.size \in DOMAIN LoopMax, NEW i \in DOMAIN q.path
      PROVE  Times(q.path, i) <= LoopMax[q.size]
  <2>1. LoopMax[p.size] \in Nat
    BY <1>4, <1>7, ForwardingAssumption
  <2>2. CASE q.path[i] = x
    <3>1. OwnHops(r, p) \subseteq 1..h /\ Cardinality(OwnHops(r, p)) < LoopMax[p.size]
          /\ IsFiniteSet(OwnHops(r, p)) /\ Cardinality(OwnHops(r, p)) \in Nat
      <4>1. OwnHops(r, p) \subseteq DOMAIN p.path
        BY DEF OwnHops
      <4>2. IsFiniteSet(OwnHops(r, p)) /\ Cardinality(OwnHops(r, p)) \in Nat
        BY <4>1, PathSize
      <4>. QED  BY <1>4, <1>5, <1>7, <2>1, <4>1, <4>2 DEF Looped
    <3>2. {j \in DOMAIN q.path : q.path[j] = q.path[i]} = OwnHops(r, p) \cup {h + 1}
      <4>1. \A j \in 1..h : j \in 1..(h + 1) /\ q.path[j] = p.path[j]
        BY <1>2, <1>4
      <4>2. \A j \in 1..(h + 1) : j \in 1..h \/ j = h + 1
        BY <1>2
      <4>3. h + 1 \in 1..(h + 1)
        BY <1>2
      <4>. QED  BY <1>2, <1>4, <1>5, <2>2, <4>1, <4>2, <4>3 DEF OwnHops, x
    <3>3. h + 1 \notin OwnHops(r, p)
      BY <1>2, <3>1
    <3>4. Cardinality(OwnHops(r, p) \cup {h + 1}) = Cardinality(OwnHops(r, p)) + 1
      BY <3>1, <3>3, FS_AddElement
    <3>5. Times(q.path, i) = Cardinality(OwnHops(r, p) \cup {h + 1})
      BY <3>2, Zenon DEF Times
    <3>. QED  BY <1>4, <2>1, <3>1, <3>4, <3>5
  <2>3. CASE q.path[i] # x
    <3>1. i \in 1..h
      BY <1>2, <1>4, <1>5, <1>7, <2>3
    <3>2. {j \in DOMAIN q.path : q.path[j] = q.path[i]} = {j \in DOMAIN p.path : p.path[j] = p.path[i]}
      <4>1. \A j \in 1..h : j \in 1..(h + 1) /\ q.path[j] = p.path[j]
        BY <1>2, <1>4
      <4>2. \A j \in 1..(h + 1) : j \in 1..h \/ q.path[j] = x
        BY <1>2, <1>4
      <4>. QED  BY <1>5, <2>3, <3>1, <4>1, <4>2
    <3>3. Times(q.path, i) = Times(p.path, i)
      BY <3>2, Zenon DEF Times
    <3>. QED  BY <1>4, <1>5, <1>7, <3>1, <3>3 DEF Loops
  <2>. QED  BY <2>2, <2>3
<1>8. Loops(q)
  BY <1>7 DEF Loops
<1>. QED  BY <1>4, <1>6, <1>8 DEF q, x

\* A direct packet for this node loses the head of its path.
LEMMA DirectOutFacts ==
    ASSUME NEW r \in Repeaters, NEW p \in Packets, ~IsFlood(p), ForUs(r, p), NEW q \in Relayed(r, p)
    PROVE  /\ q \in Packets /\ q.path = Tail(p.path) /\ ~IsFlood(q)
           /\ p.path # <<>> /\ Head(p.path) = HashOf[r][p.size]
           /\ q.id = p.id /\ q.size = p.size /\ q.dnr = p.dnr
           /\ IF p.type = "data" THEN q.type = "data" ELSE q.type \in {"ack", "multiack"}
<1>1. p.path # <<>> /\ Head(p.path) = HashOf[r][p.size]
  BY DEF ForUs
<1>2. Tail(p.path) \in Seq(PathHashes)
  BY <1>1, PacketFacts
<1>3. CASE p.type = "data"
  <2>1. q = [p EXCEPT !.path = Tail(p.path)]
    BY <1>3 DEF Relayed, DirectOut
  <2>. QED  BY <1>1, <1>2, <1>3, <2>1 DEF Packets, IsFlood
<1>4. CASE p.type # "data"
  <2>1. \/ q = [p EXCEPT !.type = "ack", !.route = "direct", !.path = Tail(p.path)]
        \/ q = [p EXCEPT !.type = "multiack", !.route = "direct", !.path = Tail(p.path)]
    <3>1. q \in AckCopies(p) \cup {AckOut(p)}
      BY <1>4 DEF Relayed
    <3>2. AckOut(p) = [p EXCEPT !.type = "ack", !.route = "direct", !.path = Tail(p.path)]
      BY DEF AckOut
    <3>3. [AckOut(p) EXCEPT !.type = "multiack"]
            = [p EXCEPT !.type = "multiack", !.route = "direct", !.path = Tail(p.path)]
      BY <3>2, PacketFacts
    <3>. QED  BY <3>1, <3>2, <3>3 DEF AckCopies
  <2>2. CASE q = [p EXCEPT !.type = "ack", !.route = "direct", !.path = Tail(p.path)]
    BY <1>1, <1>2, <1>4, <2>2 DEF Packets, IsFlood
  <2>3. CASE q = [p EXCEPT !.type = "multiack", !.route = "direct", !.path = Tail(p.path)]
    BY <1>1, <1>2, <1>4, <2>3 DEF Packets, IsFlood
  <2>. QED  BY <2>1, <2>2, <2>3
<1>. QED  BY <1>3, <1>4

\* A frame that is relayed is still a copy of what was sent, keeps the limits,
\* and tells its way.
LEMMA RelayFrame ==
    ASSUME MeshType, NEW f \in FrameSet, f.trail # <<>>, Keeps(f), Tells(f),
           NEW r \in Repeaters, NEW seenKeys, Accepts(r, f.pkt, seenKeys, Scopes),
           NEW q \in Relayed(r, f.pkt)
    PROVE  LET g == [f EXCEPT !.pkt = q]
           IN  /\ g \in FrameSet /\ g.pkt = q
               /\ \A t : CopyOf(f, t) => CopyOf(g, t)
               /\ Keeps(g) /\ Tells(Sent(r, g))
               /\ IsFlood(q) => IsFlood(f.pkt) /\ Key(q) = Key(f.pkt)
<1> DEFINE p == f.pkt
           g == [f EXCEPT !.pkt = q]
<1>1. p \in Packets /\ r \in Nodes
  BY DEF FrameSet, Nodes
<1>2. CASE IsFlood(p)
  <2>1. q = FloodOut(r, p) /\ Valid(p) /\ RoomInPath(p) /\ ~Looped(r, p) /\ Loops(p)
    BY <1>2 DEF Relayed, Accepts, CanFlood, Keeps
  <2>2. /\ q \in Packets /\ q.path = Append(p.path, HashOf[r][p.size])
        /\ q.id = p.id /\ q.type = p.type /\ q.route = p.route /\ q.size = p.size
        /\ q.scope = p.scope /\ q.dnr = p.dnr
        /\ Fits(q) /\ Loops(q)
    BY <1>1, <2>1, FloodOutFacts
  <2>3. g \in FrameSet /\ g.pkt = q
    BY <2>2 DEF FrameSet
  <2>4. IsFlood(q) /\ Key(q) = Key(p)
    BY <1>2, <2>2 DEF IsFlood, Key
  <2>5. Sent(r, g).pkt = q
    BY <1>1, <2>3, SentFacts
  <2>6. RelayHashes(Sent(r, g)) = Append(RelayHashes(f), HashOf[r][q.size])
    BY <1>1, <2>2, WayGrows
  <2>7. Tells(Sent(r, g))
    BY <1>2, <2>2, <2>4, <2>5, <2>6 DEF Tells
  <2>8. Keeps(g)
    BY <2>2, <2>3 DEF Keeps
  <2>9. \A t : CopyOf(f, t) => CopyOf(g, t)
    BY <1>2, <2>2, <2>3, <2>4 DEF CopyOf
  <2>. QED  BY <1>2, <2>3, <2>4, <2>7, <2>8, <2>9
<1>3. CASE ~IsFlood(p)
  <2>1. /\ q \in Packets /\ q.path = Tail(p.path) /\ ~IsFlood(q)
        /\ p.path # <<>> /\ Head(p.path) = HashOf[r][p.size]
        /\ q.id = p.id /\ q.size = p.size /\ q.dnr = p.dnr
        /\ IF p.type = "data" THEN q.type = "data" ELSE q.type \in {"ack", "multiack"}
    <3>1. ForUs(r, p)
      BY <1>3 DEF Accepts, CanDirect
    <3>. QED  BY <1>1, <1>3, <3>1, DirectOutFacts
  <2>2. g \in FrameSet /\ g.pkt = q
    BY <2>1 DEF FrameSet
  <2>3. Sent(r, g).pkt = q
    BY <1>1, <2>2, SentFacts
  <2>4. RelayHashes(Sent(r, g)) = Append(RelayHashes(f), Head(p.path))
    BY <1>1, <2>1, WayGrows
  <2>5. Append(RelayHashes(f), Head(p.path)) \o Tail(p.path) = RelayHashes(f) \o p.path
    <3>. DEFINE S == PathHashes \cup {RelayHashes(f)[i] : i \in 1..(Len(f.trail) - 1)}
    <3>1. p.path \in Seq(S)
      BY <1>1, PacketFacts
    <3>2. RelayHashes(f) \in Seq(S)
      <4>1. Len(f.trail) - 1 \in Nat
        BY DEF FrameSet, Trails
      <4>2. RelayHashes(f) = [i \in 1..(Len(f.trail) - 1) |-> RelayHashes(f)[i]]
        BY DEF RelayHashes
      <4>. QED  BY <4>1, <4>2
    <3>. HIDE DEF S
    <3>. QED  BY <2>1, <3>1, <3>2, Moved
  <2>6. Tells(Sent(r, g))
    <3>1. PICK t \in world.sends : t.pkt.id = p.id /\ RelayHashes(f) \o p.path = t.pkt.path
      BY <1>3 DEF Tells
    <3>2. RelayHashes(Sent(r, g)) \o Sent(r, g).pkt.path = t.pkt.path
      BY <2>1, <2>3, <2>4, <2>5, <3>1
    <3>. QED  BY <2>1, <2>3, <3>1, <3>2 DEF Tells
  <2>7. \A t : CopyOf(f, t) => CopyOf(g, t)
    BY <1>3, <2>1, <2>2 DEF CopyOf
  <2>. QED  BY <2>1, <2>2, <2>6, <2>7 DEF Keeps
<1>. QED  BY <1>2, <1>3

---------------------------------------------------------------------------
(* The types *)

LEMMA FramesAre ==
    \A f : f \in Frames <=> \/ \E x \in air : f = x.frame
                            \/ \E r \in Repeaters : f \in queue[r]
                            \/ \E s \in Stations : f \in heard[s]
<1>. TAKE f
<1>1. f \in {x.frame : x \in air} <=> \E x \in air : f = x.frame
  OBVIOUS
<1>2. f \in UNION {queue[r] : r \in Repeaters} <=> \E r \in Repeaters : f \in queue[r]
  OBVIOUS
<1>3. f \in UNION {heard[s] : s \in Stations} <=> \E s \in Stations : f \in heard[s]
  OBVIOUS
<1>. QED  BY <1>1, <1>2, <1>3, Zenon DEF Frames

LEMMA KeysHeld ==
    ASSUME MeshType, FrameInv, NEW f \in Frames
    PROVE  Key(f.pkt) \in KeysOf(world.sends) /\ Key(f.pkt) \in Keys
<1>1. f \in FrameSet
  <2>1. (\E x \in air : f = x.frame) \/ (\E r \in Repeaters : f \in queue[r]) \/ (\E s \in Stations : f \in heard[s])
    BY FramesAre
  <2>2. \A x \in air : x.frame \in FrameSet
    BY DEF MeshType
  <2>3. \A r \in Repeaters : queue[r] \subseteq FrameSet
    BY DEF MeshType
  <2>4. \A s \in Stations : heard[s] \subseteq FrameSet
    BY DEF MeshType
  <2>. QED  BY <2>1, <2>2, <2>3, <2>4
<1>2. PICK t \in world.sends : CopyOf(f, t)
  BY DEF FrameInv, Copies
<1>. QED  BY <1>1, <1>2, CopyKey, WorldFacts DEF MeshType

\* A packet as its sender makes a frame of it.
LEMMA OwnFrame ==
    ASSUME world \in Worlds, NEW t \in world.sends, NEW n \in Nodes
    PROVE  LET f == [pkt |-> t.pkt, trail |-> <<>>]
           IN  /\ f \in FrameSet /\ f.pkt = t.pkt /\ f.trail = <<>>
               /\ Keeps(f) /\ Tells(Sent(n, f))
               /\ t.from \in Nodes /\ Key(t.pkt) \in KeysOf(world.sends)
<1> DEFINE f == [pkt |-> t.pkt, trail |-> <<>>]
<1>1. t \in Traffic /\ t.pkt \in Packets /\ t.from \in Nodes /\ (IsFlood(t.pkt) => t.pkt.path = <<>>)
  BY WorldFacts, MeshAssumption
<1>2. f \in FrameSet /\ f.pkt = t.pkt /\ f.trail = <<>>
  BY <1>1 DEF FrameSet, Trails
<1>3. Keeps(f)
  <2>1. ASSUME IsFlood(t.pkt) PROVE Fits(t.pkt) /\ Loops(t.pkt)
    <3>1. Hops(t.pkt) = 0 /\ DOMAIN t.pkt.path = {} /\ t.pkt.size \in 1..4
      BY <1>1, <2>1, PacketFacts DEF Hops
    <3>2. Hops(t.pkt) * t.pkt.size = 0
      BY <3>1
    <3>3. Fits(t.pkt)
      BY <3>1, <3>2, ForwardingAssumption DEF Fits
    <3>. QED  BY <3>1, <3>3 DEF Loops
  <2>. QED  BY <1>2, <2>1 DEF Keeps
<1>. HIDE DEF f
<1>4. Sent(n, f).pkt = t.pkt /\ Sent(n, f).trail = Append(f.trail, <<n, t.pkt.type>>)
  BY <1>2, SentFacts
<1>5. RelayHashes(Sent(n, f)) = <<>>
  <2>1. Len(Sent(n, f).trail) = 1
    BY <1>2, <1>4
  <2>2. RelayHashes(Sent(n, f)) = [i \in 1..0 |-> HashOf[Sent(n, f).trail[i + 1][1]][Sent(n, f).pkt.size]]
    BY <2>1 DEF RelayHashes
  <2>. QED  BY <2>2
<1>6. Tells(Sent(n, f))
  <2>1. <<>> \o t.pkt.path = t.pkt.path
    BY <1>1, PacketFacts
  <2>. QED  BY <1>1, <1>4, <1>5, <2>1 DEF Tells
<1>. QED  BY <1>1, <1>2, <1>3, <1>6 DEF KeysOf, f

LEMMA Typed ==
    Init => MeshType
<1>. SUFFICES ASSUME Init PROVE MeshType
  OBVIOUS
<1>. QED  BY DEF Init, MeshType

\* What each transmission puts on the air.
LEMMA BroadcastFacts ==
    ASSUME world \in Worlds, NEW f \in FrameSet, NEW n \in Nodes
    PROVE  /\ Broadcast(n, f) \subseteq [to : Nodes, frame : FrameSet]
           /\ \A x \in Broadcast(n, f) : x.to \in Neighbours[n] /\ x.frame = Sent(n, f)
<1>1. Neighbours[n] \subseteq Nodes
  BY WorldFacts DEF Neighbours
<1>. QED  BY <1>1, SentFacts DEF Broadcast

LEMMA TypeStep ==
    ASSUME MeshType, FrameInv, [Next]_vars
    PROVE  MeshType'
<1>. USE DEF MeshType
<1>1. ASSUME NEW t \in unsent, StationSends(t) PROVE MeshType'
  <2>1. Broadcast(t.from, [pkt |-> t.pkt, trail |-> <<>>]) \subseteq [to : Nodes, frame : FrameSet]
    <3>1. t \in world.sends /\ t.from \in Nodes
      BY WorldFacts, MeshAssumption
    <3>2. [pkt |-> t.pkt, trail |-> <<>>] \in FrameSet
      BY <3>1, OwnFrame
    <3>. QED  BY <3>1, <3>2, BroadcastFacts
  <2>. QED  BY <1>1, <2>1 DEF StationSends, ghosts
<1>2. ASSUME NEW t \in unsent, RepeaterSends(t) PROVE MeshType'
  <2>1. [pkt |-> t.pkt, trail |-> <<>>] \in FrameSet /\ Key(t.pkt) \in KeysOf(world.sends)
    BY OwnFrame, WorldFacts, MeshAssumption
  <2>2. MarkSeen(t.from, Key(t.pkt)) \in [Repeaters -> Seq(KeysOf(world.sends))]
    BY <1>2, <2>1, MarkSeenFacts DEF RepeaterSends
  <2>. QED  BY <1>2, <2>1, <2>2 DEF RepeaterSends, ghosts
<1>3. ASSUME NEW x \in air, Relay(x) PROVE MeshType'
  <2>. DEFINE r == x.to
              p == x.frame.pkt
              new == {[x.frame EXCEPT !.pkt = q] : q \in Relayed(r, p)}
  <2>1. r \in Repeaters /\ Accepts(r, p, SeenKeys(r), Scopes) /\ x.frame \in FrameSet /\ x.frame \in Frames
    BY <1>3 DEF Relay, Frames
  <2>2. Key(p) \in KeysOf(world.sends) /\ Key(p) \in Keys
    BY <2>1, KeysHeld
  <2>3. MarkSeen(r, Key(p)) \in [Repeaters -> Seq(KeysOf(world.sends))]
    BY <2>1, <2>2, MarkSeenFacts
  <2>4. new \subseteq FrameSet
    <3>1. x.frame.trail # <<>> /\ Keeps(x.frame) /\ Tells(x.frame)
      BY <2>1 DEF FrameInv, OnAir
    <3>. SUFFICES ASSUME NEW q \in Relayed(r, p) PROVE [x.frame EXCEPT !.pkt = q] \in FrameSet
      OBVIOUS
    <3>. QED  BY <2>1, <3>1, RelayFrame
  <2>5. /\ world' = world /\ unsent' = unsent /\ heard' = heard
        /\ air' \subseteq air /\ seen' = MarkSeen(r, Key(p))
        /\ queue' = [queue EXCEPT ![r] = @ \cup new]
        /\ relays' = [relays EXCEPT ![r][Key(p)] = @ + 1]
    BY <1>3 DEF Relay
  <2>. HIDE DEF new, p, r
  <2>6. relays' \in [Repeaters -> [Keys -> Nat]]
    BY <2>1, <2>2, <2>5
  <2>7. queue' \in [Repeaters -> SUBSET FrameSet]
    BY <2>1, <2>4, <2>5
  <2>. QED  BY <2>3, <2>5, <2>6, <2>7
<1>4. ASSUME NEW x \in air, Ignore(x) PROVE MeshType'
  BY <1>4 DEF Ignore, ghosts
<1>5. ASSUME NEW x \in air, StationHears(x) PROVE MeshType'
  BY <1>5 DEF StationHears, ghosts
<1>6. ASSUME NEW x \in air, Lose(x) PROVE MeshType'
  BY <1>6 DEF Lose
<1>7. ASSUME NEW r \in Repeaters, NEW f \in queue[r], Transmit(r, f) PROVE MeshType'
  <2>1. Broadcast(r, f) \subseteq [to : Nodes, frame : FrameSet]
    <3>1. r \in Nodes /\ f \in FrameSet
      BY DEF Nodes
    <3>. QED  BY <3>1, BroadcastFacts
  <2>. QED  BY <1>7, <2>1 DEF Transmit, ghosts
<1>8. ASSUME NEW r \in Repeaters, NEW f \in queue[r], GiveUp(r, f) PROVE MeshType'
  BY <1>8 DEF GiveUp
<1>9. CASE UNCHANGED vars
  BY <1>9 DEF vars, ghosts
<1>. QED  BY <1>1, <1>2, <1>3, <1>4, <1>5, <1>6, <1>7, <1>8, <1>9 DEF Next, Originate, Receive, Schedule

---------------------------------------------------------------------------
(* What frames tell *)

\* Nothing a node has done is undone, and the mesh stays as it is.
Onward ==
    /\ world' = world /\ unsent' \subseteq unsent
    /\ \A n \in Repeaters, k \in Keys : relays[n][k] > 0 => relays'[n][k] > 0

LEMMA StaysTold ==
    ASSUME Onward, MeshType
    PROVE  /\ \A f : (Copies(f) => Copies(f)') /\ (Tells(f) <=> Tells(f)')
           /\ \A r \in Repeaters : \A f : Key(f.pkt) \in Keys /\ Held(r, f) => Held(r, f)'
           /\ \A x : Key(x.frame.pkt) \in Keys /\ OnAir(x) => OnAir(x)'
<1>1. world' = world /\ unsent' \subseteq unsent
  BY DEF Onward
<1>2. ASSUME NEW f PROVE (Copies(f) => Copies(f)') /\ (Tells(f) <=> Tells(f)')
  BY <1>1 DEF Copies, CopyOf, Tells
<1>3. ASSUME NEW n, NEW k \in Keys, Carried(n, k) PROVE Carried(n, k)'
  BY <1>1, <1>3 DEF Carried, OwnSent, Onward
<1>4. ASSUME NEW r \in Repeaters, NEW f, Key(f.pkt) \in Keys, Held(r, f) PROVE Held(r, f)'
  <2>1. Tells(Sent(r, f)) /\ (IsFlood(f.pkt) => Carried(r, Key(f.pkt)))
    BY <1>4 DEF Held
  <2>2. Tells(Sent(r, f))'
    BY <1>2, <2>1
  <2>. QED  BY <1>3, <1>4, <2>1, <2>2 DEF Held
<1>5. ASSUME NEW x, Key(x.frame.pkt) \in Keys, OnAir(x) PROVE OnAir(x)'
  <2>1. PICK n \in Nodes : x.to \in Neighbours[n] /\ (IsFlood(x.frame.pkt) => Carried(n, Key(x.frame.pkt)))
    BY <1>5 DEF OnAir
  <2>2. x.frame.trail # <<>> /\ Tells(x.frame)'
    BY <1>2, <1>5 DEF OnAir
  <2>3. x.to \in Neighbours'[n] /\ (IsFlood(x.frame.pkt) => Carried(n, Key(x.frame.pkt))')
    BY <1>1, <1>3, <1>5, <2>1 DEF Neighbours
  <2>. QED  BY <2>2, <2>3 DEF OnAir
<1>. QED  BY <1>2, <1>4, <1>5

\* A step that brings only frames that tell the truth keeps the invariant.
LEMMA NewFrames ==
    ASSUME MeshType, FrameInv, Onward,
           \A f \in Frames' \ Frames : Copies(f)' /\ Keeps(f),
           \A r \in Repeaters : \A f \in queue'[r] \ queue[r] : Held(r, f)',
           \A x \in air' \ air : OnAir(x)'
    PROVE  FrameInv'
<1>1. ASSUME NEW f \in Frames' PROVE Copies(f)' /\ Keeps(f)'
  <2>1. Keeps(f) <=> Keeps(f)'
    BY DEF Keeps
  <2>. QED  BY <2>1, StaysTold DEF FrameInv
<1>2. ASSUME NEW r \in Repeaters, NEW f \in queue'[r] PROVE Held(r, f)'
  <2>1. CASE f \in queue[r]
    <3>1. Key(f.pkt) \in Keys
      BY <2>1, FramesAre, KeysHeld
    <3>. QED  BY <2>1, <3>1, StaysTold DEF FrameInv
  <2>. QED  BY <2>1
<1>3. ASSUME NEW x \in air' PROVE OnAir(x)'
  <2>1. CASE x \in air
    <3>1. Key(x.frame.pkt) \in Keys
      BY <2>1, FramesAre, KeysHeld
    <3>. QED  BY <2>1, <3>1, StaysTold DEF FrameInv
  <2>. QED  BY <2>1
<1>. QED  BY <1>1, <1>2, <1>3 DEF FrameInv

LEMMA FrameStart ==
    Init => FrameInv
<1>. SUFFICES ASSUME Init PROVE FrameInv
  OBVIOUS
<1>1. air = {} /\ (\A r \in Repeaters : queue[r] = {}) /\ (\A s \in Stations : heard[s] = {})
  BY DEF Init
<1>2. \A f : f \notin Frames
  BY <1>1, FramesAre
<1>. QED  BY <1>1, <1>2 DEF FrameInv

LEMMA FrameStep ==
    ASSUME MeshType, FrameInv, MeshType', [Next]_vars
    PROVE  FrameInv'
<1>0. /\ \A f : f \in Frames' <=> \/ \E x \in air' : f = x.frame
                                  \/ \E r \in Repeaters : f \in queue'[r]
                                  \/ \E s \in Stations : f \in heard'[s]
      /\ \A x \in air : x.frame \in Frames /\ x.frame \in FrameSet
      /\ \A r \in Repeaters : \A f \in queue[r] : f \in Frames /\ f \in FrameSet
      /\ \A s \in Stations : \A f \in heard[s] : f \in Frames
  <2>1. \A f : f \in Frames' <=> \/ \E x \in air' : f = x.frame
                                 \/ \E r \in Repeaters : f \in queue'[r]
                                 \/ \E s \in Stations : f \in heard'[s]
    <3>1. (\A f : f \in Frames <=> \/ \E x \in air : f = x.frame
                                   \/ \E r \in Repeaters : f \in queue[r]
                                   \/ \E s \in Stations : f \in heard[s])'
      BY FramesAre, PTL
    <3>. QED  BY <3>1
  <2>. QED  BY <2>1, FramesAre DEF MeshType
<1>1. ASSUME NEW t \in unsent, StationSends(t) PROVE FrameInv'
  <2>. DEFINE f == [pkt |-> t.pkt, trail |-> <<>>]
              n == t.from
  <2>1. /\ t \in world.sends /\ f \in FrameSet /\ f.pkt = t.pkt /\ Keeps(f) /\ Tells(Sent(n, f))
        /\ n \in Nodes /\ world \in Worlds
    <3>1. t \in world.sends /\ world \in Worlds
      BY DEF MeshType
    <3>2. t.from \in Nodes
      BY <3>1, WorldFacts, MeshAssumption
    <3>. QED  BY <3>1, <3>2, OwnFrame
  <2>2. /\ world' = world /\ unsent' = unsent \ {t} /\ air' = air \cup Broadcast(n, f)
        /\ queue' = queue /\ heard' = heard /\ relays' = relays
    BY <1>1 DEF StationSends, ghosts
  <2>3. Onward
    BY <2>2 DEF Onward
  <2>. HIDE DEF f, n
  <2>4. ASSUME NEW x \in Broadcast(n, f)
        PROVE  OnAir(x)' /\ Copies(x.frame)' /\ Keeps(x.frame)
    <3>1. x.to \in Neighbours[n] /\ x.frame = Sent(n, f)
      BY <2>1, BroadcastFacts
    <3>2. x.frame.pkt = t.pkt /\ x.frame.trail # <<>>
      BY <2>1, <3>1, SentFacts
    <3>3. t \in world'.sends \ unsent'
      BY <2>1, <2>2
    <3>4. OwnSent(n, Key(t.pkt))'
      BY <3>3 DEF OwnSent, n
    <3>5. OnAir(x)'
      BY <2>1, <2>2, <2>3, <3>1, <3>2, <3>4, StaysTold DEF OnAir, Carried, Neighbours
    <3>6. t.pkt.type \in {"data", "ack", "multiack"}
      BY <2>1, PacketFacts DEF FrameSet
    <3>7. CopyOf(x.frame, t)'
      BY <3>2, <3>3, <3>6 DEF CopyOf
    <3>8. Keeps(x.frame)
      BY <2>1, <3>2 DEF Keeps
    <3>. QED  BY <3>3, <3>5, <3>7, <3>8 DEF Copies
  <2>. QED  BY <1>0, <2>2, <2>3, <2>4, NewFrames
<1>2. ASSUME NEW t \in unsent, RepeaterSends(t) PROVE FrameInv'
  <2>. DEFINE f == [pkt |-> t.pkt, trail |-> <<>>]
              n == t.from
  <2>1. /\ t \in world.sends /\ f \in FrameSet /\ f.pkt = t.pkt /\ Keeps(f) /\ Tells(Sent(n, f))
        /\ n \in Repeaters /\ n \in Nodes
    <3>1. t \in world.sends /\ world \in Worlds
      BY DEF MeshType
    <3>2. t.from \in Repeaters /\ t.from \in Nodes
      BY <1>2 DEF RepeaterSends, Nodes
    <3>. QED  BY <3>1, <3>2, OwnFrame
  <2>2. /\ world' = world /\ unsent' = unsent \ {t} /\ queue' = [queue EXCEPT ![n] = @ \cup {f}]
        /\ air' = air /\ heard' = heard /\ relays' = relays
    BY <1>2 DEF RepeaterSends, ghosts
  <2>3. Onward
    BY <2>2 DEF Onward
  <2>. HIDE DEF f, n
  <2>4. t \in world'.sends \ unsent'
    BY <2>1, <2>2
  <2>5. OwnSent(n, Key(t.pkt))'
    BY <2>4 DEF OwnSent, n
  <2>6. Held(n, f)'
    BY <2>1, <2>3, <2>5, StaysTold DEF Held, Carried
  <2>7. t.pkt.type \in {"data", "ack", "multiack"}
    BY <2>1, PacketFacts DEF FrameSet
  <2>8. Copies(f)'
    BY <2>1, <2>4, <2>7 DEF Copies, CopyOf
  <2>9. \A r \in Repeaters : \A g \in queue'[r] : g \in queue[r] \/ (r = n /\ g = f)
    BY <2>2 DEF MeshType
  <2>. QED  BY <1>0, <2>1, <2>2, <2>3, <2>6, <2>8, <2>9, NewFrames
<1>3. ASSUME NEW x \in air, Relay(x) PROVE FrameInv'
  <2>. DEFINE r == x.to
              p == x.frame.pkt
              new == {[x.frame EXCEPT !.pkt = q] : q \in Relayed(r, p)}
  <2>1. /\ r \in Repeaters /\ Accepts(r, p, SeenKeys(r), Scopes) /\ x.frame \in FrameSet /\ x.frame \in Frames
        /\ world' = world /\ unsent' = unsent /\ heard' = heard
        /\ air' \subseteq air
        /\ queue' = [queue EXCEPT ![r] = @ \cup new]
        /\ relays' = [relays EXCEPT ![r][Key(p)] = @ + 1]
    BY <1>0, <1>3 DEF Relay
  <2>2. Key(p) \in Keys
    BY <2>1, KeysHeld
  <2>3. /\ relays'[r][Key(p)] > 0
        /\ \A n \in Repeaters, k \in Keys : relays[n][k] > 0 => relays'[n][k] > 0
    <3>1. relays \in [Repeaters -> [Keys -> Nat]]
      BY DEF MeshType
    <3>. HIDE DEF r, p
    <3>. QED  BY <2>1, <2>2, <3>1
  <2>4. Onward
    BY <2>1, <2>3 DEF Onward
  <2>5. ASSUME NEW g \in new PROVE Held(r, g)' /\ Copies(g)' /\ Keeps(g)
    <3>1. PICK q \in Relayed(r, p) : g = [x.frame EXCEPT !.pkt = q]
      OBVIOUS
    <3>2. x.frame.trail # <<>> /\ Keeps(x.frame) /\ Tells(x.frame) /\ Copies(x.frame)
      BY <2>1 DEF FrameInv, OnAir
    <3>3. /\ g.pkt = q /\ (\A t : CopyOf(x.frame, t) => CopyOf(g, t))
          /\ Keeps(g) /\ Tells(Sent(r, g))
          /\ IsFlood(q) => IsFlood(p) /\ Key(q) = Key(p)
      BY <2>1, <3>1, <3>2, RelayFrame
    <3>4. Copies(g)'
      BY <2>4, <3>2, <3>3, StaysTold DEF Copies
    <3>5. Tells(Sent(r, g))'
      BY <2>4, <3>3, StaysTold
    <3>6. IsFlood(g.pkt) => Carried(r, Key(g.pkt))'
      BY <2>1, <2>3, <3>3 DEF Carried
    <3>. QED  BY <3>3, <3>4, <3>5, <3>6 DEF Held
  <2>. HIDE DEF r, p, new
  <2>6. \A n \in Repeaters : \A g \in queue'[n] : g \in queue[n] \/ (n = r /\ g \in new)
    BY <2>1 DEF MeshType
  <2>. QED  BY <1>0, <2>1, <2>4, <2>5, <2>6, NewFrames
<1>4. ASSUME NEW x \in air, Ignore(x) PROVE FrameInv'
  <2>1. /\ world' = world /\ unsent' = unsent /\ queue' = queue /\ heard' = heard
        /\ relays' = relays /\ air' \subseteq air
    BY <1>4 DEF Ignore, ghosts
  <2>2. Onward
    BY <2>1 DEF Onward
  <2>. QED  BY <1>0, <2>1, <2>2, NewFrames
<1>5. ASSUME NEW x \in air, StationHears(x) PROVE FrameInv'
  <2>1. /\ world' = world /\ unsent' = unsent /\ queue' = queue
        /\ heard' = [heard EXCEPT ![x.to] = @ \cup {x.frame}]
        /\ relays' = relays /\ air' \subseteq air
    BY <1>5 DEF StationHears, ghosts
  <2>2. Onward
    BY <2>1 DEF Onward
  <2>3. \A s \in Stations : \A f \in heard'[s] : f \in heard[s] \/ f = x.frame
    BY <2>1 DEF MeshType
  <2>. QED  BY <1>0, <2>1, <2>2, <2>3, NewFrames
<1>6. ASSUME NEW x \in air, Lose(x) PROVE FrameInv'
  <2>1. /\ world' = world /\ unsent' = unsent /\ queue' = queue /\ heard' = heard
        /\ relays' = relays /\ air' \subseteq air
    BY <1>6 DEF Lose
  <2>2. Onward
    BY <2>1 DEF Onward
  <2>. QED  BY <1>0, <2>1, <2>2, NewFrames
<1>7. ASSUME NEW r \in Repeaters, NEW f \in queue[r], Transmit(r, f) PROVE FrameInv'
  <2>1. /\ world' = world /\ unsent' = unsent /\ heard' = heard /\ relays' = relays
        /\ air' = air \cup Broadcast(r, f) /\ \A n \in Repeaters : queue'[n] \subseteq queue[n]
    BY <1>7 DEF Transmit, ghosts, MeshType
  <2>2. Onward
    BY <2>1 DEF Onward
  <2>3. r \in Nodes /\ f \in FrameSet /\ f \in Frames /\ world \in Worlds
    BY <1>0 DEF Nodes, MeshType
  <2>4. Held(r, f) /\ Copies(f) /\ Keeps(f)
    BY <2>3 DEF FrameInv
  <2>5. ASSUME NEW x \in Broadcast(r, f)
        PROVE  OnAir(x)' /\ Copies(x.frame)' /\ Keeps(x.frame)
    <3>1. x.to \in Neighbours[r] /\ x.frame = Sent(r, f)
      BY <2>3, BroadcastFacts
    <3>2. x.frame.pkt = f.pkt /\ x.frame.trail # <<>>
      BY <2>3, <3>1, SentFacts
    <3>3. OnAir(x)
      BY <2>3, <2>4, <3>1, <3>2 DEF OnAir, Held
    <3>4. Copies(x.frame) /\ Keeps(x.frame)
      BY <2>4, <3>2 DEF Copies, CopyOf, Keeps
    <3>5. Key(x.frame.pkt) \in Keys
      BY <2>3, <3>2, KeysHeld
    <3>. QED  BY <2>2, <3>3, <3>4, <3>5, StaysTold
  <2>. QED  BY <1>0, <2>1, <2>2, <2>5, NewFrames
<1>8. ASSUME NEW r \in Repeaters, NEW f \in queue[r], GiveUp(r, f) PROVE FrameInv'
  <2>1. /\ world' = world /\ unsent' = unsent /\ heard' = heard /\ relays' = relays
        /\ air' = air /\ \A n \in Repeaters : queue'[n] \subseteq queue[n]
    BY <1>8 DEF GiveUp, MeshType
  <2>2. Onward
    BY <2>1 DEF Onward
  <2>. QED  BY <1>0, <2>1, <2>2, NewFrames
<1>9. CASE UNCHANGED vars
  <2>1. /\ world' = world /\ unsent' = unsent /\ heard' = heard /\ relays' = relays
        /\ air' = air /\ queue' = queue
    BY <1>9 DEF vars, ghosts
  <2>2. Onward
    BY <2>1 DEF Onward
  <2>. QED  BY <1>0, <2>1, <2>2, NewFrames
<1>. QED  BY <1>1, <1>2, <1>3, <1>4, <1>5, <1>6, <1>7, <1>8, <1>9 DEF Next, Originate, Receive, Schedule

---------------------------------------------------------------------------
(* A packet is relayed once *)

LEMMA SeenStart ==
    Init => SeenInv
<1>. SUFFICES ASSUME Init, NEW r \in Repeaters
              PROVE  /\ IsInjective(seen[r])
                     /\ \A k \in Keys : /\ ~OwnSent(r, k) /\ relays[r][k] = 0
                                        /\ relays[r][k] <= (IF Own(r, k) THEN 0 ELSE 1)
  BY DEF SeenInv
<1>1. seen[r] = <<>> /\ unsent = world.sends /\ \A k \in Keys : relays[r][k] = 0
  BY DEF Init
<1>2. IsInjective(seen[r])
  BY <1>1 DEF IsInjective
<1>. QED  BY <1>1, <1>2 DEF OwnSent

\* What a repeater relays is neither its own nor relayed before, if its cache
\* forgets nothing.
LEMMA RelaysNews ==
    ASSUME MeshType, FrameInv, SeenInv, Roomy, NEW x \in air, Relay(x)
    PROVE  relays[x.to][Key(x.frame.pkt)] = 0 /\ ~Own(x.to, Key(x.frame.pkt))
<1> DEFINE r == x.to
           k == Key(x.frame.pkt)
<1>1. r \in Repeaters /\ k \notin SeenKeys(r) /\ x.frame \in Frames
  BY FramesAre DEF Relay, Accepts, CanFlood, CanDirect
<1>2. k \in Keys
  BY <1>1, KeysHeld
<1>3. ~OwnSent(r, k) /\ ~(relays[r][k] > 0)
  BY <1>1, <1>2 DEF SeenInv
<1>4. relays[r][k] = 0
  <2>1. relays[r][k] \in Nat
    BY <1>1, <1>2 DEF MeshType
  <2>. QED  BY <1>3, <2>1
<1>5. ASSUME NEW u \in world.sends, u.from = r, Key(u.pkt) = k PROVE FALSE
  <2>1. PICK t \in world.sends \ unsent : x.frame.pkt.id = t.pkt.id
    BY <1>1 DEF FrameInv, Copies, CopyOf
  <2>2. u.pkt.id = t.pkt.id
    BY <1>5, <2>1 DEF Key
  <2>3. u = t
    BY <2>1, <2>2, WorldFacts, MeshAssumption DEF MeshType
  <2>. QED  BY <1>3, <1>5, <2>1, <2>3 DEF OwnSent
<1>. QED  BY <1>4, <1>5 DEF Own

LEMMA SeenStep ==
    ASSUME MeshType, FrameInv, SeenInv, [Next]_vars
    PROVE  SeenInv'
<1>. SUFFICES ASSUME Roomy', NEW r \in Repeaters
              PROVE  (/\ IsInjective(seen[r])
                      /\ \A k \in Keys :
                            /\ OwnSent(r, k) \/ relays[r][k] > 0 => k \in SeenKeys(r)
                            /\ relays[r][k] <= (IF Own(r, k) THEN 0 ELSE 1))'
  BY DEF SeenInv
<1>0. world' = world
  BY DEF Next, Originate, Receive, Schedule, StationSends, RepeaterSends, Relay, Ignore,
         StationHears, Lose, Transmit, GiveUp, vars
<1>1. Roomy /\ \A n, k : Own(n, k)' <=> Own(n, k)
  BY <1>0 DEF Roomy, CacheSize, Own
<1>2. /\ IsInjective(seen[r])
      /\ \A k \in Keys : /\ OwnSent(r, k) \/ relays[r][k] > 0 => k \in SeenKeys(r)
                         /\ relays[r][k] <= (IF Own(r, k) THEN 0 ELSE 1)
                         /\ relays[r][k] \in Nat
  BY <1>1 DEF SeenInv, MeshType
<1>3. ASSUME seen' = seen, relays' = relays, \A k : OwnSent(r, k)' => OwnSent(r, k)
      PROVE  (/\ IsInjective(seen[r])
              /\ \A k \in Keys :
                    /\ OwnSent(r, k) \/ relays[r][k] > 0 => k \in SeenKeys(r)
                    /\ relays[r][k] <= (IF Own(r, k) THEN 0 ELSE 1))'
  <2>1. SeenKeys(r)' = SeenKeys(r)
    BY <1>3 DEF SeenKeys
  <2>. QED  BY <1>1, <1>2, <1>3, <2>1
<1>4. ASSUME unsent' = unsent, seen' = seen, relays' = relays
      PROVE  (/\ IsInjective(seen[r])
              /\ \A k \in Keys :
                    /\ OwnSent(r, k) \/ relays[r][k] > 0 => k \in SeenKeys(r)
                    /\ relays[r][k] <= (IF Own(r, k) THEN 0 ELSE 1))'
  <2>1. \A k : OwnSent(r, k)' => OwnSent(r, k)
    BY <1>0, <1>4 DEF OwnSent
  <2>. QED  BY <1>3, <1>4, <2>1
<1>5. ASSUME NEW t \in unsent, StationSends(t)
      PROVE  (/\ IsInjective(seen[r])
              /\ \A k \in Keys :
                    /\ OwnSent(r, k) \/ relays[r][k] > 0 => k \in SeenKeys(r)
                    /\ relays[r][k] <= (IF Own(r, k) THEN 0 ELSE 1))'
  <2>1. t.from # r /\ unsent' = unsent \ {t} /\ seen' = seen /\ relays' = relays
    BY <1>5, MeshAssumption DEF StationSends, ghosts
  <2>2. \A k : OwnSent(r, k)' => OwnSent(r, k)
    BY <1>0, <2>1 DEF OwnSent
  <2>. QED  BY <1>3, <2>1, <2>2
<1>6. ASSUME NEW t \in unsent, RepeaterSends(t)
      PROVE  (/\ IsInjective(seen[r])
              /\ \A k \in Keys :
                    /\ OwnSent(r, k) \/ relays[r][k] > 0 => k \in SeenKeys(r)
                    /\ relays[r][k] <= (IF Own(r, k) THEN 0 ELSE 1))'
  <2>1. /\ t.from \in Repeaters /\ unsent' = unsent \ {t} /\ relays' = relays
        /\ seen' = MarkSeen(t.from, Key(t.pkt))
    BY <1>6 DEF RepeaterSends, ghosts
  <2>2. Key(t.pkt) \in KeysOf(world.sends)
    BY DEF MeshType, KeysOf
  <2>3. CASE t.from = r
    <3>1. IsInjective(seen'[r]) /\ ToSet(seen'[r]) = SeenKeys(r) \cup {Key(t.pkt)}
      BY <1>1, <1>2, <2>1, <2>2, <2>3, MarkSeenFacts
    <3>2. SeenKeys(r)' = SeenKeys(r) \cup {Key(t.pkt)}
      BY <3>1 DEF SeenKeys, ToSet
    <3>3. \A k : OwnSent(r, k)' => OwnSent(r, k) \/ k = Key(t.pkt)
      BY <1>0, <2>1 DEF OwnSent
    <3>. QED  BY <1>1, <1>2, <2>1, <3>1, <3>2, <3>3
  <2>4. CASE t.from # r
    <3>1. seen'[r] = seen[r]
      BY <2>1, <2>2, <2>4, MarkSeenFacts
    <3>2. SeenKeys(r)' = SeenKeys(r)
      BY <3>1 DEF SeenKeys
    <3>3. \A k : OwnSent(r, k)' => OwnSent(r, k)
      BY <1>0, <2>1, <2>4 DEF OwnSent
    <3>. QED  BY <1>1, <1>2, <2>1, <3>1, <3>2, <3>3
  <2>. QED  BY <2>3, <2>4
<1>7. ASSUME NEW x \in air, Relay(x)
      PROVE  (/\ IsInjective(seen[r])
              /\ \A k \in Keys :
                    /\ OwnSent(r, k) \/ relays[r][k] > 0 => k \in SeenKeys(r)
                    /\ relays[r][k] <= (IF Own(r, k) THEN 0 ELSE 1))'
  <2>. DEFINE key == Key(x.frame.pkt)
  <2>1. /\ x.to \in Repeaters /\ unsent' = unsent /\ seen' = MarkSeen(x.to, key)
        /\ relays' = [relays EXCEPT ![x.to][key] = @ + 1] /\ x.frame \in Frames
    BY <1>7, FramesAre DEF Relay
  <2>2. key \in KeysOf(world.sends) /\ key \in Keys
    BY <2>1, KeysHeld
  <2>3. \A k : OwnSent(r, k)' => OwnSent(r, k)
    BY <1>0, <2>1 DEF OwnSent
  <2>4. relays[x.to][key] = 0 /\ ~Own(x.to, key)
    BY <1>1, <1>7, RelaysNews
  <2>5. relays \in [Repeaters -> [Keys -> Nat]]
    BY DEF MeshType
  <2>. HIDE DEF key
  <2>6. CASE x.to = r
    <3>1. IsInjective(seen'[r]) /\ ToSet(seen'[r]) = SeenKeys(r) \cup {key}
      BY <1>1, <1>2, <2>1, <2>2, <2>6, MarkSeenFacts
    <3>2. SeenKeys(r)' = SeenKeys(r) \cup {key}
      BY <3>1 DEF SeenKeys, ToSet
    <3>3. \A k \in Keys : relays'[r][k] = IF k = key THEN 1 ELSE relays[r][k]
      BY <2>1, <2>4, <2>5, <2>6
    <3>. QED  BY <1>1, <1>2, <2>3, <2>4, <2>6, <3>1, <3>2, <3>3
  <2>7. CASE x.to # r
    <3>1. seen'[r] = seen[r] /\ relays'[r] = relays[r]
      BY <2>1, <2>2, <2>5, <2>7, MarkSeenFacts
    <3>2. SeenKeys(r)' = SeenKeys(r)
      BY <3>1 DEF SeenKeys
    <3>. QED  BY <1>1, <1>2, <2>3, <3>1, <3>2
  <2>. QED  BY <2>6, <2>7
<1>8. CASE \E x \in air : Ignore(x) \/ StationHears(x) \/ Lose(x)
  BY <1>4, <1>8 DEF Ignore, StationHears, Lose, ghosts
<1>9. CASE Schedule \/ UNCHANGED vars
  BY <1>4, <1>9 DEF Schedule, Transmit, GiveUp, vars, ghosts
<1>. QED  BY <1>5, <1>6, <1>7, <1>8, <1>9 DEF Next, Originate, Receive

---------------------------------------------------------------------------
(* Mesh: the theorems *)

\* The invariant holds in every reachable state.
THEOREM MeshInvariance == Spec => []IInv
<1>1. Init => IInv
  BY Typed, FrameStart, SeenStart DEF IInv
<1>2. IInv /\ [Next]_vars => IInv'
  BY TypeStep, FrameStep, SeenStep DEF IInv
<1>. QED  BY <1>1, <1>2, PTL DEF Spec

\* The path of a flood names the repeaters it came through, that of a direct
\* packet those it goes through, and no flood outgrows its limits or goes round
\* in a loop (RepeaterHandler.flood_forward, direct_forward).
THEOREM PathsTell == Spec => []PathTells
<1>1. IInv => PathTells
  <2>. SUFFICES ASSUME IInv PROVE PathTells
    OBVIOUS
  <2>1. PathIsRoute
    BY DEF IInv, FrameInv, OnAir, Tells, PathIsRoute
  <2>2. OnRoute
    <3>. SUFFICES ASSUME NEW x \in air, ~IsFlood(x.frame.pkt)
                  PROVE  \E t \in world.sends :
                            /\ t.pkt.id = x.frame.pkt.id
                            /\ RelayHashes(x.frame) \o x.frame.pkt.path = t.pkt.path
      BY DEF OnRoute
    <3>. QED  BY DEF IInv, FrameInv, OnAir, Tells
  <2>3. PathFits
    BY DEF IInv, FrameInv, Keeps, Fits, PathFits
  <2>4. LoopBound
    BY DEF IInv, FrameInv, Keeps, Loops, Times, LoopBound
  <2>. QED  BY <2>1, <2>2, <2>3, <2>4 DEF PathTells
<1>. QED  BY <1>1, MeshInvariance, PTL

\* A repeater whose cache holds every packet in circulation relays each packet
\* at most once, and none of its own (mark_seen, is_duplicate).
THEOREM RelayedOnce == Spec => []RelayOnce
<1>1. IInv => RelayOnce
  BY DEF IInv, SeenInv, Roomy, RelayOnce, Own
<1>. QED  BY <1>1, MeshInvariance, PTL

\* The repeaters that have relayed each flood, as FloodSpread sees them.
Relayers(k) == {r \in Repeaters : relays[r][k] > 0}

LEMMA FloodOrigin ==
    ASSUME NEW t \in Traffic, IsFlood(t.pkt)
    PROVE  /\ Key(t.pkt) \in FloodPackets
           /\ [k \in FloodPackets |-> (CHOOSE u \in Traffic : Key(u.pkt) = k).from][Key(t.pkt)] = t.from
<1>1. Key(t.pkt) \in FloodPackets
  BY DEF FloodPackets
<1>2. \A u \in Traffic : Key(u.pkt) = Key(t.pkt) => u = t
  BY MeshAssumption DEF Key
<1>3. (CHOOSE u \in Traffic : Key(u.pkt) = Key(t.pkt)) = t
  BY <1>2
<1>. QED  BY <1>1, <1>3

\* The mesh spreads each flood outwards, from neighbour to neighbour, through
\* repeaters that each relay it once: it implements FloodSpread. Only a repeater
\* that originates a flood needs a cache that holds what is in circulation, or
\* it would relay its own packet when it has forgotten it.
THEOREM FloodsSpread ==
    ASSUME \A w \in Worlds : (\E t \in w.sends : IsFlood(t.pkt) /\ t.from \in Repeaters)
                                => w.cache >= Cardinality(KeysOf(w.sends))
    PROVE  Spec => ImplementsSpread
<1>1. Init => Spread!Init
  <2>. SUFFICES ASSUME Init PROVE Spread!Init
    OBVIOUS
  <2>1. FloodPackets \subseteq Keys
    BY DEF FloodPackets, Keys, KeysOf
  <2>2. \A k \in FloodPackets : {r \in Repeaters : relays[r][k] > 0} = {}
    BY <2>1 DEF Init
  <2>. QED  BY <2>2 DEF Spread!Init
<1>2. IInv /\ [Next]_vars => [Spread!Next]_(Spread!vars)
  <2>. SUFFICES ASSUME IInv, [Next]_vars PROVE Spread!Next \/ UNCHANGED Spread!vars
    OBVIOUS
  <2>. USE DEF IInv
  <2>1. world' = world
    BY DEF Next, Originate, Receive, Schedule, StationSends, RepeaterSends, Relay, Ignore,
           StationHears, Lose, Transmit, GiveUp, vars
  <2>2. ASSUME \A k \in FloodPackets : Relayers(k)' = Relayers(k) PROVE UNCHANGED Spread!vars
    BY <2>1, <2>2 DEF Spread!vars, Relayers
  <2>3. CASE \E x \in air : Relay(x)
    <3>1. PICK x \in air : Relay(x)
      BY <2>3
    <3>. DEFINE r == x.to
                k == Key(x.frame.pkt)
    <3>2. /\ r \in Repeaters /\ k \notin SeenKeys(r) /\ x.frame \in Frames
          /\ relays' = [relays EXCEPT ![r][k] = @ + 1]
      BY <3>1, FramesAre DEF Relay, Accepts, CanFlood, CanDirect
    <3>3. k \in Keys /\ relays \in [Repeaters -> [Keys -> Nat]] /\ FloodPackets \subseteq Keys
      BY <3>2, KeysHeld DEF MeshType, FloodPackets, Keys, KeysOf
    <3>4. PICK t \in world.sends \ unsent : CopyOf(x.frame, t)
      BY <3>2 DEF FrameInv, Copies, CopyOf
    <3>. HIDE DEF r, k
    <3>5. \A j \in FloodPackets : Relayers(j)' = IF j = k THEN Relayers(j) \cup {r} ELSE Relayers(j)
      BY <3>2, <3>3 DEF Relayers
    <3>6. CASE k \notin FloodPackets \/ r \in Relayers(k)
      <4>1. \A j \in FloodPackets : Relayers(j)' = Relayers(j)
        BY <3>5, <3>6
      <4>. QED  BY <2>2, <4>1
    <3>7. CASE k \in FloodPackets /\ r \notin Relayers(k)
      <4>1. t \in Traffic /\ IsFlood(t.pkt) /\ IsFlood(x.frame.pkt) /\ Key(t.pkt) = k
        <5>1. PICK u \in Traffic : IsFlood(u.pkt) /\ Key(u.pkt) = k
          BY <3>7 DEF FloodPackets
        <5>2. t \in Traffic /\ u = t
          BY <3>4, <5>1, WorldFacts, MeshAssumption DEF MeshType, CopyOf, Key, k
        <5>. QED  BY <3>4, <5>1, <5>2 DEF CopyOf
      <4>. DEFINE Origin == [j \in FloodPackets |-> (CHOOSE u \in Traffic : Key(u.pkt) = j).from]
      <4>2. Origin[k] = t.from
        BY <4>1, FloodOrigin
      <4>3. PICK n \in Nodes : r \in Neighbours[n] /\ Carried(n, k)
        BY <3>1, <4>1 DEF FrameInv, OnAir, r, k
      <4>4. n \in Relayers(k) \cup {t.from}
        <5>1. CASE OwnSent(n, k)
          <6>1. PICK u \in world.sends : u.from = n /\ Key(u.pkt) = k
            BY <5>1 DEF OwnSent
          <6>2. u = t
            BY <4>1, <6>1, WorldFacts, MeshAssumption DEF MeshType, Key
          <6>. QED  BY <6>1, <6>2
        <5>. QED  BY <4>3, <5>1 DEF Carried, Relayers
      <4>5. r # t.from
        <5>. SUFFICES ASSUME r = t.from PROVE FALSE
          OBVIOUS
        <5>1. Roomy
          BY <3>2, <3>4, <4>1 DEF MeshType, Roomy, CacheSize
        <5>2. OwnSent(r, k)
          BY <3>4, <4>1 DEF OwnSent
        <5>. QED  BY <3>2, <3>3, <5>1, <5>2 DEF SeenInv
      <4>. HIDE DEF Origin
      <4>. DEFINE relayed == [j \in FloodPackets |-> {m \in Repeaters : relays[m][j] > 0}]
      <4>6. relayed' = [relayed EXCEPT ![k] = @ \cup {r}]
        <5>1. relayed = [j \in FloodPackets |-> Relayers(j)]
          BY DEF Relayers
        <5>2. relayed' = [j \in FloodPackets |-> Relayers(j)']
          BY DEF Relayers
        <5>. HIDE DEF relayed
        <5>. QED  BY <3>5, <3>7, <5>1, <5>2
      <4>7. relayed[k] = Relayers(k)
        BY <3>7 DEF Relayers
      <4>. HIDE DEF relayed
      <4>8. \E m \in relayed[k] \cup {Origin[k]} : r \in world.neighbours[m]
        BY <4>2, <4>3, <4>4, <4>7 DEF Neighbours
      <4>9. r \notin relayed[k] \cup {Origin[k]}
        BY <3>7, <4>2, <4>5, <4>7
      <4>10. Spread!Relay(k, r)
        BY <2>1, <4>6, <4>8, <4>9 DEF Spread!Relay, Spread!Reached, relayed, Origin
      <4>. QED  BY <3>2, <3>7, <4>10 DEF Spread!Next
    <3>. QED  BY <3>6, <3>7
  <2>4. CASE ~\E x \in air : Relay(x)
    <3>1. relays' = relays
      BY <2>4 DEF Next, Originate, Receive, Schedule, StationSends, RepeaterSends, Ignore,
                  StationHears, Lose, Transmit, GiveUp, vars, ghosts
    <3>. QED  BY <2>2, <3>1 DEF Relayers
  <2>. QED  BY <2>3, <2>4
<1>. QED  BY <1>1, <1>2, MeshInvariance, PTL DEF Spec, ImplementsSpread, Spread!Spec

---------------------------------------------------------------------------
(* Coverage: where a frame has been *)

\* r has relayed the packet of f; of an ACK either half of the pair.
Handled(r, f) == \E k \in Keys : /\ k[2] = f.pkt.id /\ relays[r][k] > 0
                                 /\ IsFlood(f.pkt) => k = Key(f.pkt)

\* A frame as it is sent comes from the sender of its packet, through repeaters
\* that have relayed it, and while the caches forget nothing never twice through
\* one.
Came(f) == /\ \E t \in world.sends : CopyOf(f, t) /\ f.trail[1][1] = t.from
           /\ \A i \in 2..Len(f.trail) : f.trail[i][1] \in Repeaters /\ Handled(f.trail[i][1], f)
Apart(f) == Roomy /\ IsFlood(f.pkt) =>
                \A i, j \in 2..Len(f.trail) : f.trail[i][1] = f.trail[j][1] => i = j
WayInv ==
    /\ \A x \in air : Came(x.frame) /\ Apart(x.frame)
    /\ \A r \in Repeaters : \A f \in queue[r] : Came(Sent(r, f)) /\ Apart(Sent(r, f))

LEMMA GoesOn ==
    ASSUME IInv, [Next]_vars
    PROVE  Onward
<1>. USE DEF IInv
<1>1. world' = world
  BY DEF Next, Originate, Receive, Schedule, StationSends, RepeaterSends, Relay, Ignore,
         StationHears, Lose, Transmit, GiveUp, vars
<1>2. unsent' \subseteq unsent
  BY DEF Next, Originate, Receive, Schedule, StationSends, RepeaterSends, Relay, Ignore,
         StationHears, Lose, Transmit, GiveUp, vars
<1>3. CASE \E x \in air : Relay(x)
  <2>1. PICK x \in air : Relay(x)
    BY <1>3
  <2>2. /\ x.to \in Repeaters /\ relays' = [relays EXCEPT ![x.to][Key(x.frame.pkt)] = @ + 1]
        /\ relays \in [Repeaters -> [Keys -> Nat]]
    BY <2>1 DEF Relay, MeshType
  <2>3. \A n \in Repeaters, k \in Keys : relays'[n][k] = relays[n][k] \/ relays'[n][k] = relays[n][k] + 1
    BY <2>2
  <2>4. \A n \in Repeaters, k \in Keys : relays[n][k] \in Nat
    BY <2>2
  <2>. QED  BY <1>1, <1>2, <2>3, <2>4 DEF Onward
<1>4. CASE ~\E x \in air : Relay(x)
  <2>1. relays' = relays
    BY <1>4 DEF Next, Originate, Receive, Schedule, StationSends, RepeaterSends, Ignore,
                StationHears, Lose, Transmit, GiveUp, vars, ghosts
  <2>. QED  BY <1>1, <1>2, <2>1 DEF Onward
<1>. QED  BY <1>3, <1>4

LEMMA WayStays ==
    ASSUME Onward, NEW f, Came(f), Apart(f)
    PROVE  Came(f)' /\ Apart(f)'
<1>1. world' = world /\ unsent' \subseteq unsent
  BY DEF Onward
<1>2. \A t : CopyOf(f, t) => CopyOf(f, t)'
  BY <1>1 DEF CopyOf
<1>3. \A r \in Repeaters : Handled(r, f) => Handled(r, f)'
  BY DEF Handled, Onward
<1>4. Roomy' <=> Roomy
  BY <1>1 DEF Roomy, CacheSize
<1>. QED  BY <1>1, <1>2, <1>3, <1>4 DEF Came, Apart

\* A packet on its first way.
LEMMA OwnWay ==
    ASSUME world \in Worlds, NEW t \in world.sends, NEW f, f = [pkt |-> t.pkt, trail |-> <<>>],
           world' = world, t \notin unsent'
    PROVE  Came(Sent(t.from, f))' /\ Apart(Sent(t.from, f))'
<1>1. /\ f \in FrameSet /\ f.pkt = t.pkt /\ f.trail = <<>> /\ t.from \in Nodes
      /\ t.pkt.type \in {"data", "ack", "multiack"}
  BY OwnFrame, WorldFacts, MeshAssumption, PacketFacts
<1>2. Sent(t.from, f).pkt = t.pkt /\ Sent(t.from, f).trail = Append(<<>>, <<t.from, t.pkt.type>>)
  BY <1>1, SentFacts
<1>3. Len(Sent(t.from, f).trail) = 1 /\ Sent(t.from, f).trail[1][1] = t.from
  <2>1. <<t.from, t.pkt.type>> \in Nodes \X {"data", "ack", "multiack"}
    BY <1>1
  <2>2. <<>> \in Seq(Nodes \X {"data", "ack", "multiack"}) /\ Len(<<>>) = 0
    OBVIOUS
  <2>3. /\ Len(Append(<<>>, <<t.from, t.pkt.type>>)) = 1
        /\ Append(<<>>, <<t.from, t.pkt.type>>)[1] = <<t.from, t.pkt.type>>
    BY <2>1, <2>2, AppendPlaces
  <2>4. <<t.from, t.pkt.type>>[1] = t.from
    OBVIOUS
  <2>. QED  BY <1>2, <2>3, <2>4
<1>4. CopyOf(Sent(t.from, f), t)'
  BY <1>1, <1>2 DEF CopyOf
<1>5. \A i : i \notin 2..Len(Sent(t.from, f).trail)
  <2>1. \A i : i \notin 2..1
    OBVIOUS
  <2>. QED  BY <1>3, <2>1
<1>. QED  BY <1>3, <1>4, <1>5 DEF Came, Apart

\* A relay adds itself to the way, on which it was not before.
LEMMA RelayWay ==
    ASSUME IInv, WayInv, Onward, NEW x \in air, Relay(x), NEW q \in Relayed(x.to, x.frame.pkt),
           NEW g, g = [x.frame EXCEPT !.pkt = q]
    PROVE  Came(Sent(x.to, g))' /\ Apart(Sent(x.to, g))'
<1> DEFINE f == x.frame
           r == x.to
           k == Key(f.pkt)
           m == Len(f.trail)
           e == <<r, q.type>>
           w == Sent(r, g)
<1>. USE DEF IInv
<1>1. /\ r \in Repeaters /\ r \in Nodes /\ Accepts(r, f.pkt, SeenKeys(r), Scopes) /\ f \in Frames
      /\ f \in FrameSet /\ world' = world /\ unsent' = unsent
      /\ relays' = [relays EXCEPT ![r][k] = @ + 1] /\ relays \in [Repeaters -> [Keys -> Nat]]
  BY FramesAre DEF Relay, MeshType, Nodes
<1>2. f.trail # <<>> /\ Keeps(f) /\ Tells(f) /\ k \in Keys /\ Came(f) /\ Apart(f)
  BY <1>1, KeysHeld DEF FrameInv, OnAir, WayInv
<1>3. /\ g \in FrameSet /\ g.pkt = q /\ \A t : CopyOf(f, t) => CopyOf(g, t)
      /\ IsFlood(q) => IsFlood(f.pkt) /\ Key(q) = k
  BY <1>1, <1>2, RelayFrame
<1>4. g.trail = f.trail
  BY <1>1 DEF FrameSet
<1>5. w.pkt = q /\ w.trail = Append(f.trail, e) /\ e \in Nodes \X {"data", "ack", "multiack"}
  <2>1. q \in Packets
    BY <1>3 DEF FrameSet
  <2>2. e \in Nodes \X {"data", "ack", "multiack"}
    BY <1>1, <2>1, PacketFacts
  <2>3. Sent(r, g).pkt = g.pkt /\ Sent(r, g).trail = Append(g.trail, <<r, g.pkt.type>>)
    BY <1>1, <1>3, SentFacts
  <2>. QED  BY <1>3, <1>4, <2>2, <2>3
<1>6. /\ m \in Nat \ {0} /\ Len(w.trail) = m + 1 /\ w.trail[m + 1] = e
      /\ \A i \in 1..m : w.trail[i] = f.trail[i]
  <2>1. f.trail \in Seq(Nodes \X {"data", "ack", "multiack"})
    BY <1>1 DEF FrameSet, Trails
  <2>. HIDE DEF e, w
  <2>2. /\ Len(Append(f.trail, e)) = m + 1 /\ m \in Nat /\ Append(f.trail, e)[m + 1] = e
        /\ \A i \in 1..m : Append(f.trail, e)[i] = f.trail[i]
    BY <1>5, <2>1, AppendPlaces
  <2>3. m # 0
    BY <1>2, <2>1
  <2>. QED  BY <1>5, <2>2, <2>3
<1>7. PICK t \in world.sends : CopyOf(f, t) /\ f.trail[1][1] = t.from
  BY <1>2 DEF Came
<1>8. e[1] = r /\ k[2] = f.pkt.id
  BY DEF Key
<1>. HIDE DEF e, m, w
<1>9. CopyOf(w, t)' /\ w.trail[1][1] = t.from
  <2>1. CopyOf(g, t)
    BY <1>3, <1>7
  <2>2. CopyOf(w, t)'
    BY <1>1, <1>3, <1>5, <2>1 DEF CopyOf
  <2>3. 1 \in 1..m
    BY <1>6
  <2>4. w.trail[1] = f.trail[1]
    BY <1>6, <2>3
  <2>. QED  BY <1>7, <2>2, <2>4
<1>10. q.id = f.pkt.id /\ (IsFlood(q) <=> IsFlood(f.pkt))
  BY <1>3, <1>7 DEF CopyOf
<1>11. ASSUME NEW n \in Repeaters, Handled(n, f) PROVE Handled(n, w)'
  <2>1. PICK j \in Keys : j[2] = f.pkt.id /\ relays[n][j] > 0 /\ (IsFlood(f.pkt) => j = k)
    BY <1>11 DEF Handled
  <2>2. relays'[n][j] > 0 /\ j[2] = w.pkt.id /\ (IsFlood(w.pkt) => j = Key(w.pkt))
    BY <1>3, <1>5, <1>10, <2>1 DEF Onward
  <2>. QED  BY <2>2 DEF Handled
<1>12. Handled(r, w)'
  <2>1. relays'[r][k] = relays[r][k] + 1 /\ relays[r][k] \in Nat
    BY <1>1, <1>2
  <2>2. relays'[r][k] > 0 /\ k[2] = w.pkt.id /\ (IsFlood(w.pkt) => k = Key(w.pkt))
    BY <1>3, <1>5, <1>8, <1>10, <2>1
  <2>. QED  BY <1>2, <2>2 DEF Handled
<1>13. ASSUME NEW i \in 2..Len(w.trail)
       PROVE  w.trail[i][1] \in Repeaters /\ Handled(w.trail[i][1], w)'
  <2>1. CASE i = m + 1
    BY <1>1, <1>6, <1>8, <1>12, <2>1
  <2>2. CASE i # m + 1
    <3>1. i \in 2..m /\ i \in 1..m
      BY <1>6, <2>2
    <3>2. f.trail[i][1] \in Repeaters /\ Handled(f.trail[i][1], f)
      BY <1>2, <3>1 DEF Came, m
    <3>. QED  BY <1>6, <1>11, <3>1, <3>2
  <2>. QED  BY <2>1, <2>2
<1>14. Came(w)'
  BY <1>1, <1>9, <1>13 DEF Came
<1>15. Apart(w)'
  <2>. SUFFICES ASSUME Roomy', IsFlood(q), NEW i \in 2..(m + 1), NEW j \in 2..(m + 1),
                       w.trail[i][1] = w.trail[j][1]
                PROVE  i = j
    BY <1>5, <1>6 DEF Apart
  <2>1. Roomy /\ relays[r][k] = 0
    <3>1. Roomy
      BY <1>1 DEF Roomy, CacheSize
    <3>. QED  BY <3>1, RelaysNews
  <2>2. ASSUME NEW n \in 2..m PROVE n \in 1..m /\ w.trail[n] = f.trail[n] /\ f.trail[n][1] # r
    <3>1. n \in 1..m /\ Handled(f.trail[n][1], f)
      BY <1>2, <1>6 DEF Came, m
    <3>2. relays[f.trail[n][1]][k] > 0
      BY <1>10, <3>1 DEF Handled
    <3>. QED  BY <1>6, <2>1, <3>1, <3>2
  <2>3. \A n \in 2..(m + 1) : n \in 2..m \/ n = m + 1
    BY <1>6
  <2>4. CASE i \in 2..m /\ j \in 2..m
    BY <1>2, <1>10, <2>1, <2>2, <2>4 DEF Apart, m
  <2>5. CASE i = m + 1 \/ j = m + 1
    BY <1>6, <1>8, <2>2, <2>3, <2>5
  <2>. QED  BY <2>3, <2>4, <2>5
<1>. QED  BY <1>14, <1>15 DEF w

LEMMA WayStep ==
    ASSUME IInv, WayInv, [Next]_vars
    PROVE  WayInv'
<1>. USE DEF IInv
<1>0. Onward /\ world \in Worlds
  BY GoesOn DEF MeshType
<1>1. ASSUME \A x \in air' \ air : Came(x.frame)' /\ Apart(x.frame)',
             \A r \in Repeaters : \A f \in queue'[r] \ queue[r] : Came(Sent(r, f))' /\ Apart(Sent(r, f))'
      PROVE  WayInv'
  <2>1. ASSUME NEW x \in air' PROVE Came(x.frame)' /\ Apart(x.frame)'
    BY <1>0, <1>1, <2>1, WayStays DEF WayInv
  <2>2. ASSUME NEW r \in Repeaters, NEW f \in queue'[r] PROVE Came(Sent(r, f))' /\ Apart(Sent(r, f))'
    <3>1. CASE f \in queue[r]
      <4>1. Came(Sent(r, f)) /\ Apart(Sent(r, f))
        BY <3>1 DEF WayInv
      <4>. QED  BY <1>0, <4>1, WayStays
    <3>. QED  BY <1>1, <3>1
  <2>. QED  BY <2>1, <2>2 DEF WayInv
<1>2. ASSUME NEW t \in unsent, StationSends(t) PROVE WayInv'
  <2>. DEFINE f == [pkt |-> t.pkt, trail |-> <<>>]
  <2>1. /\ t \in world.sends /\ t.from \in Nodes /\ world' = world /\ t \notin unsent'
        /\ air' = air \cup Broadcast(t.from, f) /\ queue' = queue
    BY <1>0, <1>2, WorldFacts, MeshAssumption DEF StationSends, MeshType
  <2>2. Came(Sent(t.from, f))' /\ Apart(Sent(t.from, f))' /\ f \in FrameSet
    BY <1>0, <2>1, OwnWay, OwnFrame
  <2>. HIDE DEF f
  <2>3. \A x \in Broadcast(t.from, f) : x.frame = Sent(t.from, f)
    BY <1>0, <2>1, <2>2, BroadcastFacts
  <2>. QED  BY <1>1, <2>1, <2>2, <2>3
<1>3. ASSUME NEW t \in unsent, RepeaterSends(t) PROVE WayInv'
  <2>. DEFINE f == [pkt |-> t.pkt, trail |-> <<>>]
  <2>1. /\ t \in world.sends /\ t.from \in Repeaters /\ world' = world /\ t \notin unsent'
        /\ air' = air /\ queue' = [queue EXCEPT ![t.from] = @ \cup {f}]
        /\ queue \in [Repeaters -> SUBSET FrameSet]
    BY <1>3 DEF RepeaterSends, MeshType
  <2>2. Came(Sent(t.from, f))' /\ Apart(Sent(t.from, f))'
    BY <1>0, <2>1, OwnWay
  <2>. HIDE DEF f
  <2>. QED  BY <1>1, <2>1, <2>2
<1>4. ASSUME NEW x \in air, Relay(x) PROVE WayInv'
  <2>. DEFINE G == {[x.frame EXCEPT !.pkt = q] : q \in Relayed(x.to, x.frame.pkt)}
  <2>1. /\ x.to \in Repeaters /\ air' \subseteq air
        /\ queue' = [queue EXCEPT ![x.to] = @ \cup G] /\ queue \in [Repeaters -> SUBSET FrameSet]
    BY <1>4 DEF Relay, MeshType
  <2>2. ASSUME NEW g \in G PROVE Came(Sent(x.to, g))' /\ Apart(Sent(x.to, g))'
    <3>1. PICK q \in Relayed(x.to, x.frame.pkt) : g = [x.frame EXCEPT !.pkt = q]
      OBVIOUS
    <3>. QED  BY <1>0, <1>4, <3>1, RelayWay
  <2>. HIDE DEF G
  <2>. QED  BY <1>1, <2>1, <2>2
<1>5. ASSUME NEW r \in Repeaters, NEW f \in queue[r], Transmit(r, f) PROVE WayInv'
  <2>1. /\ air' = air \cup Broadcast(r, f) /\ queue' = [queue EXCEPT ![r] = @ \ {f}]
        /\ queue \in [Repeaters -> SUBSET FrameSet] /\ r \in Nodes
    BY <1>5 DEF Transmit, MeshType, Nodes
  <2>2. \A y \in Broadcast(r, f) : y.frame = Sent(r, f)
    BY <1>0, <2>1, BroadcastFacts
  <2>3. Came(Sent(r, f)) /\ Apart(Sent(r, f))
    BY DEF WayInv
  <2>4. Came(Sent(r, f))' /\ Apart(Sent(r, f))'
    BY <1>0, <2>3, WayStays
  <2>. QED  BY <1>1, <2>1, <2>2, <2>4
<1>6. CASE \E x \in air : Ignore(x) \/ StationHears(x) \/ Lose(x)
  <2>1. air' \subseteq air /\ queue' = queue
    BY <1>6 DEF Ignore, StationHears, Lose
  <2>. QED  BY <1>1, <2>1
<1>7. ASSUME NEW r \in Repeaters, NEW f \in queue[r], GiveUp(r, f) PROVE WayInv'
  <2>1. air' = air /\ queue' = [queue EXCEPT ![r] = @ \ {f}] /\ queue \in [Repeaters -> SUBSET FrameSet]
    BY <1>7 DEF GiveUp, MeshType
  <2>. QED  BY <1>1, <2>1
<1>8. CASE UNCHANGED vars
  <2>1. air' = air /\ queue' = queue
    BY <1>8 DEF vars
  <2>. QED  BY <1>1, <2>1
<1>. QED  BY <1>2, <1>3, <1>4, <1>5, <1>6, <1>7, <1>8 DEF Next, Originate, Receive, Schedule

LossType == lost \in [Nodes -> 0..2]

\* A key is seen by a repeater that sent the packet or relayed it.
KnownInv == \A r \in Repeaters : \A k \in SeenKeys(r) : Carried(r, k)

\* A flood is relayed where it can come to.
ReachInv ==
    \A t \in world.sends : IsFlood(t.pkt) =>
        \A r \in Repeaters : relays[r][Key(t.pkt)] > 0 => r \in Reachable(t.from) \cup {t.from}

LEMMA CarriedStays ==
    ASSUME Onward, NEW n, NEW k \in Keys, Carried(n, k)
    PROVE  Carried(n, k)'
BY DEF Carried, OwnSent, Onward

\* One more loss.
LEMMA LossFacts ==
    ASSUME LossType, NEW n \in Nodes, NEW m, NEW f, CountLoss(n, m, f)
    PROVE  /\ lost' \in [Nodes -> 0..2]
           /\ \A j \in Nodes : lost[j] <= lost'[j]
           /\ \/ m # n /\ m \in Passed(f)
              \/ lost'[n] = IF lost[n] < 2 THEN lost[n] + 1 ELSE 2
<1>1. CASE m # n /\ m \in Passed(f)
  <2>1. lost' = lost /\ \A j \in Nodes : lost[j] \in 0..2
    BY <1>1 DEF CountLoss, LossType
  <2>. QED  BY <1>1, <2>1 DEF LossType
<1>2. CASE ~(m # n /\ m \in Passed(f))
  <2>1. lost' = [lost EXCEPT ![n] = IF lost[n] < 2 THEN lost[n] + 1 ELSE 2]
    BY <1>2 DEF CountLoss
  <2>2. lost[n] \in 0..2 /\ \A j \in Nodes : lost[j] \in 0..2
    BY DEF LossType
  <2>3. lost'[n] = IF lost[n] < 2 THEN lost[n] + 1 ELSE 2
    BY <2>1 DEF LossType
  <2>. QED  BY <2>1, <2>2, <2>3 DEF LossType
<1>. QED  BY <1>1, <1>2

\* The node a frame on the air was last sent by.
LEMMA Sender ==
    ASSUME IInv, NEW x \in air
    PROVE  /\ Len(x.frame.trail) \in Nat \ {0}
           /\ x.frame.trail[Len(x.frame.trail)][1] \in Nodes
<1>1. x.frame.trail \in Seq(Nodes \X {"data", "ack", "multiack"}) /\ x.frame.trail # <<>>
  BY DEF IInv, MeshType, FrameSet, Trails, FrameInv, OnAir
<1>. QED  BY <1>1

LEMMA LossStep ==
    ASSUME IInv, LossType, [Next]_vars
    PROVE  LossType' /\ \A j \in Nodes : lost[j] <= lost'[j]
<1>1. ASSUME NEW x \in air, Lose(x) PROVE LossType' /\ \A j \in Nodes : lost[j] <= lost'[j]
  BY <1>1, Sender, LossFacts DEF Lose, LossType
<1>2. ASSUME NEW r \in Repeaters, NEW f \in queue[r], GiveUp(r, f)
      PROVE  LossType' /\ \A j \in Nodes : lost[j] <= lost'[j]
  BY <1>2, LossFacts DEF GiveUp, LossType, Nodes
<1>3. ASSUME lost' = lost PROVE LossType' /\ \A j \in Nodes : lost[j] <= lost'[j]
  <2>1. \A j \in Nodes : lost[j] \in 0..2
    BY DEF LossType
  <2>. QED  BY <1>3, <2>1 DEF LossType
<1>4. CASE Originate \/ UNCHANGED vars
  BY <1>3, <1>4 DEF Originate, StationSends, RepeaterSends, vars, ghosts
<1>5. CASE \E x \in air : Relay(x) \/ Ignore(x) \/ StationHears(x)
  BY <1>3, <1>5 DEF Relay, Ignore, StationHears, ghosts
<1>6. CASE \E r \in Repeaters : \E f \in queue[r] : Transmit(r, f)
  BY <1>3, <1>6 DEF Transmit, ghosts
<1>. QED  BY <1>1, <1>2, <1>4, <1>5, <1>6 DEF Next, Receive, Schedule

LEMMA KnownStep ==
    ASSUME IInv, KnownInv, [Next]_vars
    PROVE  KnownInv'
<1>. USE DEF IInv
<1>. SUFFICES ASSUME NEW r \in Repeaters, NEW k \in SeenKeys(r)'
              PROVE  Carried(r, k)'
  BY DEF KnownInv
<1>0. Onward /\ world' = world /\ SeenKeys(r) \subseteq Keys
  <2>1. Onward /\ world' = world
    BY GoesOn DEF Onward
  <2>2. seen[r] \in Seq(KeysOf(world.sends)) /\ KeysOf(world.sends) \subseteq Keys
    BY WorldFacts DEF MeshType
  <2>. QED  BY <2>1, <2>2 DEF SeenKeys
<1>1. CASE k \in SeenKeys(r)
  BY <1>0, <1>1, CarriedStays DEF KnownInv
<1>2. ASSUME NEW t \in unsent, RepeaterSends(t), k \notin SeenKeys(r) PROVE Carried(r, k)'
  <2>1. /\ t \in world.sends /\ t.from \in Repeaters /\ unsent' = unsent \ {t}
        /\ seen' = MarkSeen(t.from, Key(t.pkt)) /\ Key(t.pkt) \in KeysOf(world.sends)
    BY <1>2 DEF RepeaterSends, MeshType, KeysOf
  <2>2. t.from = r
    <3>. SUFFICES ASSUME t.from # r PROVE FALSE
      OBVIOUS
    <3>1. seen'[r] = seen[r]
      BY <2>1, MarkSeenFacts
    <3>. QED  BY <1>2, <3>1 DEF SeenKeys
  <2>3. ToSet(seen'[r]) \subseteq SeenKeys(r) \cup {Key(t.pkt)}
    BY <1>0, <2>1, <2>2, MarkSeenFacts
  <2>4. k = Key(t.pkt)
    BY <1>2, <2>3 DEF SeenKeys, ToSet
  <2>. QED  BY <1>0, <2>1, <2>2, <2>4 DEF Carried, OwnSent
<1>3. ASSUME NEW x \in air, Relay(x), k \notin SeenKeys(r) PROVE Carried(r, k)'
  <2>. DEFINE j == Key(x.frame.pkt)
  <2>1. /\ x.to \in Repeaters /\ seen' = MarkSeen(x.to, j) /\ relays \in [Repeaters -> [Keys -> Nat]]
        /\ relays' = [relays EXCEPT ![x.to][j] = @ + 1] /\ x.frame \in Frames
    BY <1>3, FramesAre DEF Relay, MeshType
  <2>2. j \in KeysOf(world.sends) /\ j \in Keys
    BY <2>1, KeysHeld
  <2>. HIDE DEF j
  <2>3. x.to = r
    <3>. SUFFICES ASSUME x.to # r PROVE FALSE
      OBVIOUS
    <3>1. seen'[r] = seen[r]
      BY <2>1, <2>2, MarkSeenFacts
    <3>. QED  BY <1>3, <3>1 DEF SeenKeys
  <2>4. ToSet(seen'[r]) \subseteq SeenKeys(r) \cup {j}
    BY <1>0, <2>1, <2>2, <2>3, MarkSeenFacts
  <2>5. k = j
    BY <1>3, <2>4 DEF SeenKeys, ToSet
  <2>6. relays[r][k] \in Nat /\ relays'[r][k] = relays[r][k] + 1
    BY <2>1, <2>2, <2>3, <2>5
  <2>. QED  BY <2>6 DEF Carried
<1>4. ASSUME seen' = seen PROVE k \in SeenKeys(r)
  BY <1>4 DEF SeenKeys
<1>5. CASE \E x \in air : Ignore(x) \/ StationHears(x) \/ Lose(x)
  BY <1>1, <1>4, <1>5 DEF Ignore, StationHears, Lose
<1>6. CASE Schedule \/ UNCHANGED vars \/ \E t \in unsent : StationSends(t)
  BY <1>1, <1>4, <1>6 DEF Schedule, Transmit, GiveUp, vars, StationSends
<1>. QED  BY <1>1, <1>2, <1>3, <1>5, <1>6 DEF Next, Originate, Receive

LEMMA ReachGrows ==
    ASSUME world \in Worlds, NEW o \in Nodes, NEW n \in Reachable(o) \cup {o},
           NEW r \in Repeaters, r \in Neighbours[n]
    PROVE  r \in Reachable(o) \cup {o}
<1>. SUFFICES ASSUME NEW C \in SUBSET Nodes, o \in C,
                     \A j \in C : Neighbours[j] \cap Repeaters \subseteq C
              PROVE  r \in C
  BY DEF Reachable
<1>1. n \in C
  BY DEF Reachable
<1>. QED  BY <1>1

LEMMA ReachStep ==
    ASSUME IInv, ReachInv, [Next]_vars
    PROVE  ReachInv'
<1>. USE DEF IInv
<1>. SUFFICES ASSUME NEW t \in world.sends, IsFlood(t.pkt), NEW r \in Repeaters,
                     relays'[r][Key(t.pkt)] > 0
              PROVE  r \in Reachable(t.from) \cup {t.from}
  <2>1. world' = world
    BY GoesOn DEF Onward
  <2>2. \A o : Reachable(o)' = Reachable(o)
    BY <2>1 DEF Reachable, Neighbours
  <2>. QED  BY <2>1, <2>2 DEF ReachInv
<1>1. CASE relays[r][Key(t.pkt)] > 0
  BY <1>1 DEF ReachInv
<1>2. ASSUME NEW x \in air, Relay(x), ~(relays[r][Key(t.pkt)] > 0)
      PROVE  r \in Reachable(t.from) \cup {t.from}
  <2>. DEFINE k == Key(x.frame.pkt)
  <2>1. /\ x.to \in Repeaters /\ relays \in [Repeaters -> [Keys -> Nat]]
        /\ relays' = [relays EXCEPT ![x.to][k] = @ + 1] /\ x.frame \in Frames
        /\ Key(t.pkt) \in Keys /\ world \in Worlds /\ t \in Traffic /\ t.from \in Nodes
    BY <1>2, FramesAre, WorldFacts, MeshAssumption DEF Relay, MeshType, KeysOf
  <2>2. x.to = r /\ k = Key(t.pkt)
    BY <1>2, <2>1
  <2>3. PICK u \in world.sends \ unsent : CopyOf(x.frame, u)
    BY <2>1 DEF FrameInv, Copies, CopyOf
  <2>4. u = t
    <3>1. u.pkt.id = t.pkt.id
      BY <2>2, <2>3 DEF Key, CopyOf
    <3>. QED  BY <2>1, <2>3, <3>1, WorldFacts, MeshAssumption
  <2>5. PICK n \in Nodes : r \in Neighbours[n] /\ Carried(n, k)
    BY <2>2, <2>3, <2>4 DEF FrameInv, OnAir, CopyOf
  <2>6. n \in Reachable(t.from) \cup {t.from}
    <3>1. CASE OwnSent(n, k)
      <4>1. PICK v \in world.sends : v.from = n /\ Key(v.pkt) = k
        BY <3>1 DEF OwnSent
      <4>2. v = t
        BY <2>1, <2>2, <4>1, WorldFacts, MeshAssumption DEF Key
      <4>. QED  BY <4>1, <4>2
    <3>2. CASE n \in Repeaters /\ relays[n][k] > 0
      BY <2>2, <3>2 DEF ReachInv
    <3>. QED  BY <2>5, <3>1, <3>2 DEF Carried
  <2>. QED  BY <2>1, <2>5, <2>6, ReachGrows
<1>3. CASE ~\E x \in air : Relay(x)
  <2>1. relays' = relays
    BY <1>3 DEF Next, Originate, Receive, Schedule, StationSends, RepeaterSends, Ignore,
                StationHears, Lose, Transmit, GiveUp, vars, ghosts
  <2>. QED  BY <1>1, <2>1
<1>. QED  BY <1>1, <1>2, <1>3

NoLoss == lost = [n \in Nodes |-> 0]
Floods == {u \in world.sends : IsFlood(u.pkt) /\ u.pkt.type # "multiack"}

\* What a flood needs to get round: caches that hold what is in circulation, a
\* scope that is let through, limits that its longest route keeps, and no two
\* repeaters in reach with one hash while loops are looked for.
Unhindered ==
    /\ Roomy
    /\ \A t \in Floods :
          LET R == Reachable(t.from)
          IN  /\ t.pkt.size <= 3 /\ ~t.pkt.dnr /\ ScopeAllows(t.pkt, Scopes)
              /\ MaxFloodHops > 0 => Cardinality(R) <= MaxFloodHops
              /\ Cardinality(R) <= MaxHopCount
              /\ Cardinality(R) * t.pkt.size <= MaxPathBytes
              /\ t.pkt.size \in DOMAIN LoopMax =>
                    \A r, q \in R : HashOf[r][t.pkt.size] = HashOf[q][t.pkt.size] => r = q

\* With nothing lost, a node that has sent a flood still holds it, or each
\* repeater that hears the node has it or is about to.
Waits(n, k) == n \in Repeaters /\ \E f \in queue[n] : Key(f.pkt) = k
Comes(m, k) == \E x \in air : x.to = m /\ Key(x.frame.pkt) = k
Served(n, k) == \/ Waits(n, k)
                \/ \A m \in Neighbours[n] \cap Repeaters : Carried(m, k) \/ Comes(m, k)
PendingInv ==
    Unhindered /\ NoLoss =>
        \A t \in Floods : \A n \in Nodes : Carried(n, Key(t.pkt)) => Served(n, Key(t.pkt))

\* What holds of what has been: losses, ways, keys, how far floods came.
PastInv == LossType /\ WayInv /\ KnownInv /\ ReachInv

\* A frame with the key of a flood is a copy of it.
LEMMA FloodCopy ==
    ASSUME IInv, WayInv, NEW t \in Floods, NEW x \in air, Key(x.frame.pkt) = Key(t.pkt)
    PROVE  /\ CopyOf(x.frame, t) /\ x.frame.trail[1][1] = t.from
           /\ IsFlood(x.frame.pkt) /\ OwnSent(t.from, Key(t.pkt))
           /\ \A i \in 2..Len(x.frame.trail) : /\ x.frame.trail[i][1] \in Repeaters
                                               /\ relays[x.frame.trail[i][1]][Key(t.pkt)] > 0
<1>1. PICK u \in world.sends : CopyOf(x.frame, u) /\ x.frame.trail[1][1] = u.from
  BY DEF WayInv, Came
<1>2. u = t
  <2>1. u.pkt.id = t.pkt.id
    BY <1>1 DEF CopyOf, Key
  <2>. QED  BY <2>1, WorldFacts, MeshAssumption DEF IInv, MeshType, Floods
<1>3. IsFlood(x.frame.pkt) /\ OwnSent(t.from, Key(t.pkt))
  BY <1>1, <1>2 DEF CopyOf, Floods, OwnSent
<1>4. ASSUME NEW i \in 2..Len(x.frame.trail)
      PROVE  x.frame.trail[i][1] \in Repeaters /\ relays[x.frame.trail[i][1]][Key(t.pkt)] > 0
  BY <1>3 DEF WayInv, Came, Handled
<1>. QED  BY <1>1, <1>2, <1>3, <1>4

\* Who has sent a flood is where it can come to.
LEMMA CarrierInReach ==
    ASSUME IInv, ReachInv, NEW t \in Floods, NEW n \in Nodes, Carried(n, Key(t.pkt))
    PROVE  n \in Reachable(t.from) \cup {t.from}
<1>1. CASE OwnSent(n, Key(t.pkt))
  <2>1. PICK v \in world.sends : v.from = n /\ Key(v.pkt) = Key(t.pkt)
    BY <1>1 DEF OwnSent
  <2>2. v = t
    BY <2>1, WorldFacts, MeshAssumption DEF Key, Floods, IInv, MeshType
  <2>. QED  BY <2>1, <2>2
<1>2. CASE n \in Repeaters /\ relays[n][Key(t.pkt)] > 0
  BY <1>2 DEF ReachInv, Floods
<1>. QED  BY <1>1, <1>2 DEF Carried

\* A repeater refuses an unhindered flood only if it has sent it before.
LEMMA TakesIt ==
    ASSUME IsFiniteSet(Repeaters), IInv, WayInv, KnownInv, ReachInv, Unhindered,
           NEW t \in Floods, NEW x \in air, x.to \in Repeaters, Key(x.frame.pkt) = Key(t.pkt),
           ~Carried(x.to, Key(t.pkt))
    PROVE  Accepts(x.to, x.frame.pkt, SeenKeys(x.to), Scopes)
<1> DEFINE f == x.frame
           p == f.pkt
           r == x.to
           k == Key(t.pkt)
           R == Reachable(t.from)
           m == Len(f.trail)
           way == [i \in 1..(m - 1) |-> f.trail[i + 1][1]]
<1>. USE DEF IInv
<1>1. /\ CopyOf(f, t) /\ IsFlood(p) /\ OwnSent(t.from, k) /\ Roomy /\ Apart(f)
      /\ f \in FrameSet /\ f \in Frames /\ Tells(f) /\ Keeps(f) /\ r \in Repeaters
      /\ t \in Traffic /\ t.from \in Nodes /\ k \in Keys
  <2>1. t \in Traffic /\ t.from \in Nodes /\ k \in Keys
    BY WorldFacts, MeshAssumption DEF MeshType, Floods, Keys, KeysOf
  <2>. QED  BY <2>1, FloodCopy, FramesAre DEF MeshType, FrameInv, OnAir, WayInv, Unhindered
<1>2. /\ p.size = t.pkt.size /\ p.dnr = t.pkt.dnr /\ p.route = t.pkt.route /\ p.scope = t.pkt.scope
      /\ p.type = t.pkt.type /\ p.type # "multiack" /\ p \in Packets
  BY <1>1 DEF CopyOf, Floods, FrameSet
<1>3. /\ p.size <= 3 /\ p.size \in 1..3 /\ ~p.dnr /\ ScopeAllows(p, Scopes)
      /\ MaxFloodHops > 0 => Cardinality(R) <= MaxFloodHops
      /\ Cardinality(R) <= MaxHopCount /\ Cardinality(R) * p.size <= MaxPathBytes
      /\ p.size \in DOMAIN LoopMax =>
            \A n, q \in R : HashOf[n][p.size] = HashOf[q][p.size] => n = q
  BY <1>2, PacketFacts DEF Unhindered, ScopeAllows
<1>4. Key(p) \notin SeenKeys(r)
  BY <1>1 DEF KnownInv
<1>5. r \in R /\ R \subseteq Repeaters /\ ~(relays[r][k] > 0)
  <2>1. PICK n \in Nodes : r \in Neighbours[n] /\ Carried(n, k)
    BY <1>1 DEF FrameInv, OnAir
  <2>2. r \in R \cup {t.from}
    BY <1>1, <2>1, CarrierInReach, ReachGrows DEF MeshType
  <2>. QED  BY <1>1, <2>2 DEF Carried, Reachable
<1>6. IsFiniteSet(R) /\ Cardinality(R \ {r}) = Cardinality(R) - 1 /\ Cardinality(R) \in Nat
      /\ IsFiniteSet(R \ {r})
  BY <1>5, FS_Subset, FS_RemoveElement, FS_CardinalityType
<1>7. m \in Nat \ {0} /\ f.trail \in Trails
  BY Sender, <1>1 DEF FrameSet
<1>. HIDE DEF R, k
<1>8. ASSUME NEW i \in 1..(m - 1) PROVE f.trail[i + 1][1] \in R \ {r}
  <2>1. i + 1 \in 2..m
    BY <1>7
  <2>2. f.trail[i + 1][1] \in Repeaters /\ relays[f.trail[i + 1][1]][k] > 0
    BY <2>1, FloodCopy DEF k
  <2>3. f.trail[i + 1][1] \in R \cup {t.from}
    BY <2>2, CarrierInReach DEF Carried, Nodes, k, R
  <2>4. f.trail[i + 1][1] # t.from
    <3>. SUFFICES ASSUME f.trail[i + 1][1] = t.from PROVE FALSE
      OBVIOUS
    <3>1. Own(t.from, k)
      BY DEF Own, Floods, k
    <3>2. relays[t.from][k] <= 0 /\ relays[t.from][k] \in Nat
      BY <1>1, <2>2, <3>1 DEF SeenInv, MeshType
    <3>. QED  BY <2>2, <3>2
  <2>. QED  BY <1>5, <2>2, <2>3, <2>4
<1>9. way \in Seq(R \ {r}) /\ Len(way) = m - 1 /\ IsInjective(way)
  <2>1. way \in [1..(m - 1) -> R \ {r}] /\ m - 1 \in Nat
    BY <1>7, <1>8
  <2>2. \A i, j \in 1..(m - 1) : way[i] = way[j] => i = j
    <3>1. \A i \in 1..(m - 1) : i + 1 \in 2..m /\ way[i] = f.trail[i + 1][1]
      BY <1>7
    <3>2. \A i, j \in 2..m : f.trail[i][1] = f.trail[j][1] => i = j
      BY <1>1 DEF Apart
    <3>. HIDE DEF way, m
    <3>3. \A i, j \in 1..(m - 1) : way[i] = way[j] => i + 1 = j + 1
      BY <3>1, <3>2
    <3>. QED  BY <1>7, <3>3
  <2>. HIDE DEF way
  <2>3. DOMAIN way = 1..(m - 1) /\ way \in Seq(R \ {r}) /\ Len(way) = m - 1
    BY <2>1
  <2>4. IsInjective(way)
    BY <2>2, <2>3 DEF IsInjective
  <2>. QED  BY <2>3, <2>4
<1>10. m - 1 <= Cardinality(R) - 1
  BY <1>6, <1>9, ListInSet
<1>11. /\ Hops(p) = m - 1
       /\ \A i \in DOMAIN p.path :
             i \in 1..(m - 1) /\ p.path[i] = HashOf[f.trail[i + 1][1]][p.size]
  <2>1. p.path = [i \in 1..(m - 1) |-> HashOf[f.trail[i + 1][1]][p.size]]
    BY <1>1 DEF Tells, RelayHashes
  <2>2. DOMAIN p.path = 1..(m - 1) /\ p.path \in Seq(PathHashes)
    BY <1>2, <2>1, PacketFacts
  <2>3. Len(p.path) = m - 1
    BY <1>7, <2>2
  <2>. QED  BY <2>1, <2>2, <2>3 DEF Hops
<1>12. ~Looped(r, p)
  <2>. SUFFICES ASSUME p.size \in DOMAIN LoopMax
                PROVE  ~(Cardinality(OwnHops(r, p)) >= LoopMax[p.size])
    BY DEF Looped
  <2>1. \A i \in DOMAIN p.path : p.path[i] # HashOf[r][p.size]
    <3>. SUFFICES ASSUME NEW i \in DOMAIN p.path, p.path[i] = HashOf[r][p.size] PROVE FALSE
      OBVIOUS
    <3>1. f.trail[i + 1][1] \in R \ {r} /\ HashOf[f.trail[i + 1][1]][p.size] = HashOf[r][p.size]
      BY <1>8, <1>11
    <3>. QED  BY <1>3, <1>5, <3>1
  <2>2. OwnHops(r, p) = {}
    BY <2>1 DEF OwnHops
  <2>. QED  BY <2>2, FS_EmptySet, ForwardingAssumption
<1>. HIDE DEF m, p, r, f
<1>13. RoomInPath(p)
  <2>1. Hops(p) \in Nat /\ Hops(p) + 1 <= Cardinality(R)
    BY <1>6, <1>7, <1>10, <1>11
  <2>2. (Hops(p) + 1) * p.size <= Cardinality(R) * p.size
    <3>1. p.size = 1 \/ p.size = 2 \/ p.size = 3
      BY <1>3
    <3>. QED  BY <1>6, <2>1, <3>1
  <2>3. (Hops(p) + 1) * p.size \in Nat /\ Cardinality(R) * p.size \in Nat
    <3>1. p.size \in Nat
      BY <1>3
    <3>. QED  BY <1>6, <2>1, <3>1
  <2>4. (Hops(p) + 1) * p.size <= MaxPathBytes
    BY <1>3, <2>2, <2>3, ForwardingAssumption
  <2>. QED  BY <1>3, <1>6, <2>1, <2>4, ForwardingAssumption DEF RoomInPath
<1>14. Valid(p)
  BY <1>1, <1>3 DEF Valid, Keeps, Fits, p
<1>. QED  BY <1>1, <1>2, <1>3, <1>4, <1>12, <1>13, <1>14 DEF Accepts, CanFlood, p, r, f

\* A frame that is sent comes to every neighbour.
LEMMA AllHear ==
    ASSUME world \in Worlds, NEW n \in Nodes, NEW f \in FrameSet, NEW A, Broadcast(n, f) \subseteq A
    PROVE  \A m \in Neighbours[n] : \E x \in A : x.to = m /\ Key(x.frame.pkt) = Key(f.pkt)
<1>. SUFFICES ASSUME NEW m \in Neighbours[n]
              PROVE  \E x \in A : x.to = m /\ Key(x.frame.pkt) = Key(f.pkt)
  OBVIOUS
<1>. DEFINE x == [to |-> m, frame |-> Sent(n, f)]
<1>1. x \in A
  BY DEF Broadcast
<1>2. x.to = m /\ Key(x.frame.pkt) = Key(f.pkt)
  BY SentFacts DEF Key
<1>. HIDE DEF x
<1>. QED  BY <1>1, <1>2

LEMMA StaysServed ==
    ASSUME IInv, Onward, NEW k \in Keys, NEW n \in Nodes, Served(n, k),
           \A m \in Repeaters : Comes(m, k) => Comes(m, k)' \/ Carried(m, k)',
           Waits(n, k) => Waits(n, k)' \/ \A m \in Neighbours[n] : Comes(m, k)'
    PROVE  Served(n, k)'
<1>1. Neighbours' = Neighbours
  BY DEF Onward, Neighbours
<1>2. \A m : Carried(m, k) => Carried(m, k)'
  BY CarriedStays
<1>. QED  BY <1>1, <1>2 DEF Served

LEMMA PendingStep ==
    ASSUME IsFiniteSet(Repeaters), IInv, PastInv, PendingInv, [Next]_vars
    PROVE  PendingInv'
<1>. USE DEF IInv
<1>0. Onward /\ world' = world /\ world \in Worlds /\ LossType' /\ \A j \in Nodes : lost[j] <= lost'[j]
  BY GoesOn, LossStep DEF Onward, MeshType, PastInv
<1>1. (Unhindered' => Unhindered) /\ Floods' = Floods
  <2>1. Floods' = Floods /\ \A o : Reachable(o)' = Reachable(o)
    BY <1>0 DEF Floods, Reachable, Neighbours
  <2>2. Roomy' <=> Roomy
    BY <1>0 DEF Roomy, CacheSize
  <2>. QED  BY <2>1, <2>2 DEF Unhindered
<1>2. NoLoss' => NoLoss /\ \A j \in Nodes : lost'[j] = 0
  <2>. SUFFICES ASSUME NoLoss' PROVE NoLoss /\ \A j \in Nodes : lost'[j] = 0
    OBVIOUS
  <2>1. \A j \in Nodes : lost'[j] = 0 /\ lost[j] \in 0..2
    BY DEF NoLoss, PastInv, LossType
  <2>2. \A j \in Nodes : lost[j] = 0
    BY <1>0, <2>1
  <2>. QED  BY <2>1, <2>2 DEF NoLoss, PastInv, LossType
<1>. SUFFICES ASSUME Unhindered', NoLoss', NEW t \in Floods, NEW n \in Nodes,
                     Carried(n, Key(t.pkt))'
              PROVE  Served(n, Key(t.pkt))'
  BY <1>1 DEF PendingInv
<1> DEFINE k == Key(t.pkt)
           Goes(j) == \A m \in Neighbours[j] : Comes(m, k)'
<1>3. /\ k \in Keys /\ Unhindered /\ NoLoss /\ WayInv /\ KnownInv /\ ReachInv
      /\ IsFlood(t.pkt) /\ t.pkt.type # "multiack" /\ t \in world.sends
      /\ Neighbours' = Neighbours
      /\ Carried(n, k) => Served(n, k)
  BY <1>0, <1>1, <1>2, WorldFacts DEF PastInv, PendingInv, Floods, KeysOf, Keys, Neighbours
<1>4. Waits(n, k)' \/ Goes(n) => Served(n, k)'
  BY <1>3 DEF Served
<1>5. ASSUME Carried(n, k),
             \A m \in Repeaters : Comes(m, k) => Comes(m, k)' \/ Carried(m, k)',
             Waits(n, k) => Waits(n, k)' \/ Goes(n)
      PROVE  Served(n, k)'
  BY <1>0, <1>3, <1>5, StaysServed
<1>6. ASSUME unsent' = unsent, relays' = relays PROVE Carried(n, k)
  BY <1>0, <1>6 DEF Carried, OwnSent
<1>. HIDE DEF k, Goes
<1>7. ASSUME NEW u \in unsent, StationSends(u) PROVE Served(n, k)'
  <2>. DEFINE f == [pkt |-> u.pkt, trail |-> <<>>]
  <2>1. /\ u \in world.sends /\ u.from \in Nodes /\ unsent' = unsent \ {u} /\ relays' = relays
        /\ air' = air \cup Broadcast(u.from, f) /\ queue' = queue
    BY <1>0, <1>7, WorldFacts, MeshAssumption DEF StationSends, MeshType, ghosts
  <2>2. CASE Carried(n, k)
    <3>1. \A m : Comes(m, k) => Comes(m, k)'
      BY <2>1 DEF Comes
    <3>2. Waits(n, k) => Waits(n, k)'
      BY <2>1 DEF Waits
    <3>. QED  BY <1>5, <2>2, <3>1, <3>2
  <2>3. CASE ~Carried(n, k)
    <3>1. u.from = n /\ Key(u.pkt) = k
      BY <1>0, <2>1, <2>3 DEF Carried, OwnSent, k
    <3>2. f \in FrameSet /\ f.pkt = u.pkt
      BY <1>0, <2>1, OwnFrame
    <3>. HIDE DEF f
    <3>3. Goes(n)
      BY <1>0, <2>1, <3>1, <3>2, AllHear DEF Goes, Comes
    <3>. QED  BY <1>4, <3>3
  <2>. QED  BY <2>2, <2>3
<1>8. ASSUME NEW u \in unsent, RepeaterSends(u) PROVE Served(n, k)'
  <2>. DEFINE f == [pkt |-> u.pkt, trail |-> <<>>]
  <2>1. /\ u.from \in Repeaters /\ unsent' = unsent \ {u} /\ relays' = relays /\ air' = air
        /\ queue' = [queue EXCEPT ![u.from] = @ \cup {f}] /\ queue \in [Repeaters -> SUBSET FrameSet]
        /\ f.pkt = u.pkt
    BY <1>8 DEF RepeaterSends, MeshType, ghosts
  <2>. HIDE DEF f
  <2>2. CASE Carried(n, k)
    <3>1. \A m : Comes(m, k) => Comes(m, k)'
      BY <2>1 DEF Comes
    <3>2. Waits(n, k) => Waits(n, k)'
      BY <2>1 DEF Waits
    <3>. QED  BY <1>5, <2>2, <3>1, <3>2
  <2>3. CASE ~Carried(n, k)
    <3>1. u.from = n /\ Key(u.pkt) = k
      BY <1>0, <2>1, <2>3 DEF Carried, OwnSent, k
    <3>2. Waits(n, k)'
      BY <2>1, <3>1 DEF Waits
    <3>. QED  BY <1>4, <3>2
  <2>. QED  BY <2>2, <2>3
<1>9. ASSUME NEW x \in air, Relay(x) PROVE Served(n, k)'
  <2>. DEFINE r == x.to
              p == x.frame.pkt
              g == [x.frame EXCEPT !.pkt = FloodOut(r, p)]
              G == {[x.frame EXCEPT !.pkt = q] : q \in Relayed(r, p)}
  <2>1. /\ r \in Repeaters /\ unsent' = unsent /\ air' = air \ {x} /\ x.frame \in Frames
        /\ queue' = [queue EXCEPT ![r] = @ \cup G] /\ queue \in [Repeaters -> SUBSET FrameSet]
        /\ relays' = [relays EXCEPT ![r][Key(p)] = @ + 1] /\ relays \in [Repeaters -> [Keys -> Nat]]
    BY <1>9, FramesAre DEF Relay, MeshType
  <2>2. ASSUME Key(p) = k PROVE Carried(r, k)' /\ Waits(r, k)'
    <3>1. IsFlood(p) /\ x.frame \in FrameSet
      BY <1>3, <2>2, FloodCopy DEF k, MeshType
    <3>2. relays'[r][k] = relays[r][k] + 1 /\ relays[r][k] \in Nat
      BY <1>3, <2>1, <2>2
    <3>3. g \in G
      BY <3>1 DEF Relayed
    <3>4. Key(g.pkt) = k
      <4>1. g.pkt = FloodOut(r, p) /\ p \in Packets
        BY <3>1 DEF FrameSet
      <4>2. FloodOut(r, p).type = p.type /\ FloodOut(r, p).id = p.id
        BY <4>1 DEF FloodOut, Packets
      <4>. QED  BY <2>2, <4>1, <4>2 DEF Key
    <3>. HIDE DEF g, G, p, r
    <3>. QED  BY <2>1, <3>2, <3>3, <3>4 DEF Carried, Waits
  <2>. HIDE DEF g, G
  <2>3. CASE Carried(n, k)
    <3>1. ASSUME NEW m \in Repeaters, Comes(m, k) PROVE Comes(m, k)' \/ Carried(m, k)'
      BY <2>1, <2>2, <3>1 DEF Comes
    <3>2. Waits(n, k) => Waits(n, k)'
      BY <2>1 DEF Waits
    <3>. QED  BY <1>5, <2>3, <3>1, <3>2
  <2>4. CASE ~Carried(n, k)
    <3>1. n = r /\ Key(p) = k
      <4>1. n \in Repeaters /\ relays'[n][k] > 0 /\ ~(relays[n][k] > 0)
        BY <1>0, <2>1, <2>4 DEF Carried, OwnSent, k
      <4>. HIDE DEF p, r
      <4>. QED  BY <1>3, <2>1, <4>1
    <3>. QED  BY <1>4, <2>2, <3>1
  <2>. QED  BY <2>3, <2>4
<1>10. ASSUME NEW x \in air, Ignore(x) PROVE Served(n, k)'
  <2>1. /\ x.to \in Repeaters /\ unsent' = unsent /\ relays' = relays /\ queue' = queue
        /\ air' = air \ {x} /\ ~Accepts(x.to, x.frame.pkt, SeenKeys(x.to), Scopes)
    BY <1>10 DEF Ignore, ghosts
  <2>2. Key(x.frame.pkt) = k => Carried(x.to, k)'
    <3>. SUFFICES ASSUME Key(x.frame.pkt) = k PROVE Carried(x.to, k)'
      OBVIOUS
    <3>1. Carried(x.to, k)
      BY <1>3, <2>1, TakesIt DEF k
    <3>. QED  BY <1>0, <1>3, <3>1, CarriedStays
  <2>3. ASSUME NEW m \in Repeaters, Comes(m, k) PROVE Comes(m, k)' \/ Carried(m, k)'
    BY <2>1, <2>2, <2>3 DEF Comes
  <2>4. Waits(n, k) => Waits(n, k)'
    BY <2>1 DEF Waits
  <2>. QED  BY <1>5, <1>6, <2>1, <2>3, <2>4 DEF k
<1>11. ASSUME NEW x \in air, StationHears(x) PROVE Served(n, k)'
  <2>1. /\ x.to \notin Repeaters /\ unsent' = unsent /\ relays' = relays /\ queue' = queue
        /\ air' = air \ {x}
    BY <1>11, MeshAssumption DEF StationHears, ghosts
  <2>2. \A m \in Repeaters : Comes(m, k) => Comes(m, k)'
    BY <2>1 DEF Comes
  <2>3. Waits(n, k) => Waits(n, k)'
    BY <2>1 DEF Waits
  <2>. QED  BY <1>5, <1>6, <2>1, <2>2, <2>3 DEF k
<1>12. ASSUME NEW x \in air, Lose(x) PROVE Served(n, k)'
  <2>. DEFINE s == x.frame.trail[Len(x.frame.trail)][1]
  <2>1. /\ unsent' = unsent /\ relays' = relays /\ queue' = queue
        /\ air' = air \ {x} /\ CountLoss(s, x.to, x.frame) /\ s \in Nodes
    BY <1>12, Sender DEF Lose
  <2>. HIDE DEF s
  <2>2. x.to \in Passed(x.frame)
    <3>1. s \in Nodes /\ lost[s] = 0 /\ lost'[s] = 0
      BY <1>2, <1>3, <2>1 DEF NoLoss
    <3>2. lost'[s] # IF lost[s] < 2 THEN lost[s] + 1 ELSE 2
      BY <3>1
    <3>. QED  BY <2>1, <3>2, LossFacts DEF PastInv
  <2>3. Key(x.frame.pkt) = k => Carried(x.to, k)'
    <3>. SUFFICES ASSUME Key(x.frame.pkt) = k PROVE Carried(x.to, k)'
      OBVIOUS
    <3>1. PICK i \in DOMAIN x.frame.trail : x.to = x.frame.trail[i][1]
      BY <2>2 DEF Passed
    <3>2. i = 1 \/ i \in 2..Len(x.frame.trail)
      <4>1. DOMAIN x.frame.trail = 1..Len(x.frame.trail)
        BY DEF MeshType, FrameSet, Trails
      <4>. QED  BY <3>1, <4>1, Sender
    <3>3. Carried(x.to, k)
      BY <1>3, <3>1, <3>2, FloodCopy DEF k, Carried
    <3>. QED  BY <1>0, <1>3, <3>3, CarriedStays
  <2>4. ASSUME NEW m \in Repeaters, Comes(m, k) PROVE Comes(m, k)' \/ Carried(m, k)'
    BY <2>1, <2>3, <2>4 DEF Comes
  <2>5. Waits(n, k) => Waits(n, k)'
    BY <2>1 DEF Waits
  <2>. QED  BY <1>5, <1>6, <2>1, <2>4, <2>5 DEF k
<1>13. ASSUME NEW r \in Repeaters, NEW f \in queue[r], Transmit(r, f) PROVE Served(n, k)'
  <2>1. /\ air' = air \cup Broadcast(r, f) /\ queue' = [queue EXCEPT ![r] = @ \ {f}]
        /\ queue \in [Repeaters -> SUBSET FrameSet] /\ r \in Nodes /\ f \in FrameSet
        /\ unsent' = unsent /\ relays' = relays
    BY <1>13 DEF Transmit, MeshType, Nodes, ghosts
  <2>2. \A m : Comes(m, k) => Comes(m, k)'
    BY <2>1 DEF Comes
  <2>3. ASSUME Waits(n, k) PROVE Waits(n, k)' \/ Goes(n)
    <3>1. PICK h \in queue[n] : n \in Repeaters /\ Key(h.pkt) = k
      BY <2>3 DEF Waits
    <3>2. CASE n = r /\ h = f
      BY <1>0, <2>1, <3>1, <3>2, AllHear DEF Goes, Comes
    <3>3. CASE ~(n = r /\ h = f)
      BY <2>1, <3>1, <3>3 DEF Waits
    <3>. QED  BY <3>2, <3>3
  <2>. QED  BY <1>5, <1>6, <2>1, <2>2, <2>3 DEF k
<1>14. ASSUME NEW r \in Repeaters, NEW f \in queue[r], GiveUp(r, f) PROVE FALSE
  <2>1. CountLoss(r, r, f) /\ r \in Nodes /\ lost[r] = 0 /\ lost'[r] = 0
    BY <1>2, <1>3, <1>14 DEF GiveUp, Nodes, NoLoss
  <2>2. lost'[r] # IF lost[r] < 2 THEN lost[r] + 1 ELSE 2
    BY <2>1
  <2>. QED  BY <2>1, <2>2, LossFacts DEF PastInv
<1>15. CASE UNCHANGED vars
  <2>1. air' = air /\ queue' = queue /\ unsent' = unsent /\ relays' = relays
    BY <1>15 DEF vars, ghosts
  <2>2. \A m : Comes(m, k) => Comes(m, k)'
    BY <2>1 DEF Comes
  <2>3. Waits(n, k) => Waits(n, k)'
    BY <2>1 DEF Waits
  <2>. QED  BY <1>5, <1>6, <2>1, <2>2, <2>3 DEF k
<1>. QED  BY <1>7, <1>8, <1>9, <1>10, <1>11, <1>12, <1>13, <1>14, <1>15
          DEF Next, Originate, Receive, Schedule, k

LEMMA PastStart ==
    Init => PastInv /\ PendingInv
<1>. SUFFICES ASSUME Init PROVE PastInv /\ PendingInv
  OBVIOUS
<1>1. /\ air = {} /\ unsent = world.sends /\ lost = [n \in Nodes |-> 0]
      /\ \A r \in Repeaters : queue[r] = {} /\ seen[r] = <<>>
      /\ relays = [r \in Repeaters |-> [k \in Keys |-> 0]] /\ world \in Worlds
  BY DEF Init
<1>2. \A t \in world.sends : Key(t.pkt) \in Keys
  BY <1>1, WorldFacts DEF Keys, KeysOf
<1>3. \A n : \A t \in world.sends : ~Carried(n, Key(t.pkt))
  BY <1>1, <1>2 DEF Carried, OwnSent
<1>4. LossType /\ WayInv
  BY <1>1 DEF LossType, WayInv
<1>5. \A r \in Repeaters : SeenKeys(r) = {}
  BY <1>1 DEF SeenKeys
<1>6. ReachInv
  BY <1>1, <1>2 DEF ReachInv
<1>. QED  BY <1>3, <1>4, <1>5, <1>6 DEF PastInv, KnownInv, PendingInv, Floods

LEMMA PastInvariance == Spec => []PastInv
<1>1. Init => PastInv
  BY PastStart
<1>2. IInv /\ PastInv /\ [Next]_vars => PastInv'
  BY WayStep, KnownStep, ReachStep, LossStep DEF PastInv
<1>. QED  BY <1>1, <1>2, MeshInvariance, PTL DEF Spec

\* In any mesh, once the air is quiet and nothing was lost, every flood that is
\* unhindered has been relayed by each repeater in reach, in whatever order its
\* copies came (RepeaterHandler.flood_forward, is_duplicate, schedule_retransmit).
THEOREM FloodsCover ==
    ASSUME IsFiniteSet(Repeaters)
    PROVE  Spec => [](Unhindered => Coverage)
<1>1. Init => PendingInv
  BY PastStart
<1>2. IInv /\ PastInv /\ PendingInv /\ [Next]_vars => PendingInv'
  BY PendingStep
<1>3. IInv /\ PendingInv => (Unhindered => Coverage)
  <2>. SUFFICES ASSUME IInv, PendingInv, Unhindered, Quiet, NoLoss, NEW t \in Floods,
                       NEW r \in Reachable(t.from)
                PROVE  relays[r][Key(t.pkt)] >= 1
    BY DEF Coverage, NoLoss, Floods
  <2>. DEFINE k == Key(t.pkt)
              C == {n \in Nodes : Carried(n, k)}
  <2>1. t \in world.sends /\ t \in Traffic /\ t.from \in Nodes /\ k \in Keys /\ unsent = {}
    BY WorldFacts, MeshAssumption DEF IInv, MeshType, Floods, KeysOf, Keys, Quiet
  <2>2. t.from \in C
    BY <2>1 DEF Carried, OwnSent
  <2>3. ASSUME NEW n \in C, NEW m \in Neighbours[n] \cap Repeaters PROVE m \in C
    <3>1. Served(n, k)
      BY DEF PendingInv
    <3>2. Carried(m, k)
      BY <3>1 DEF Served, Waits, Comes, Quiet
    <3>. QED  BY <3>2 DEF Nodes
  <2>4. r \in C /\ r \in Repeaters /\ r # t.from
    BY <2>2, <2>3 DEF Reachable
  <2>5. ~OwnSent(r, k)
    BY <2>1, <2>4, WorldFacts, MeshAssumption DEF OwnSent, Key, IInv, MeshType
  <2>6. relays[r][k] > 0 /\ relays[r][k] \in Nat
    BY <2>1, <2>4, <2>5 DEF Carried, IInv, MeshType
  <2>. QED  BY <2>6
<1>. QED  BY <1>1, <1>2, <1>3, MeshInvariance, PastInvariance, PTL DEF Spec

---------------------------------------------------------------------------
(* A pair of ACK frames along a route *)

\* w is the way of the routed ACK t: from its sender through the repeaters its
\* path names, each heard by the next, to a station beside the last.
Route(t, w) ==
    LET n == Hops(t.pkt)
    IN  /\ t.pkt.type = "ack" /\ ~IsFlood(t.pkt) /\ ~t.pkt.dnr /\ Valid(t.pkt)
        /\ w \in [0..(n + 1) -> Nodes]
        /\ t.from = w[0] /\ w[0] \in Stations /\ w[n + 1] \in Stations \ {w[0]}
        /\ \A i \in 1..n : w[i] \in Repeaters /\ t.pkt.path[i] = HashOf[w[i]][t.pkt.size]
        /\ \A i, j \in 1..n : t.pkt.path[i] = t.pkt.path[j] => i = j
        /\ \A i \in 0..n : w[i + 1] \in Neighbours[w[i]]

\* Stop i of the way is past: its node sent the ACK, relayed one of the pair, or
\* received it.
Past(t, w, i) ==
    IF i = 0 THEN t \notin unsent
    ELSE IF w[i] \in Repeaters THEN \E k \in Keys : k[2] = t.pkt.id /\ relays[w[i]][k] > 0
    ELSE \E f \in heard[w[i]] : f.pkt.id = t.pkt.id

\* f is the y of the pair, with the path it has beyond stop i.
Half(f, t, i, y) == f.pkt.id = t.pkt.id /\ f.pkt.type = y /\ Hops(f.pkt) = Hops(t.pkt) - i
LastSender(f) == f.trail[Len(f.trail)][1]
InQueue(t, w, i, y) == w[i] \in Repeaters /\ \E f \in queue[w[i]] : Half(f, t, i, y)
Flies(t, w, i, y) == \E x \in air : /\ x.to = w[i + 1] /\ LastSender(x.frame) = w[i]
                                    /\ Half(x.frame, t, i, y)
Lives(t, w, i, y) == InQueue(t, w, i, y) \/ Flies(t, w, i, y)

\* What is gone of the pair between a stop and the next was lost by the stop. A
\* station sends the ACK alone.
Spared(t, w, i) ==
    \/ lost[w[i]] >= 2
    \/ Lives(t, w, i, "ack") /\ (i = 0 \/ Lives(t, w, i, "multiack"))
    \/ lost[w[i]] >= 1 /\ (i = 0 \/ Lives(t, w, i, "ack") \/ Lives(t, w, i, "multiack"))

AckInv ==
    MultiAcks = 1 =>
        \A t \in world.sends : \A w : Route(t, w) =>
            \A i \in 0..Hops(t.pkt) : Past(t, w, i) => Past(t, w, i + 1) \/ Spared(t, w, i)

\* The stops of a way.
LEMMA Stops ==
    ASSUME world \in Worlds, NEW t \in world.sends, NEW w, Route(t, w)
    PROVE  /\ t \in Traffic /\ t.pkt \in Packets /\ Hops(t.pkt) \in Nat
           /\ w[0] \in Stations /\ w[0] = t.from /\ w[Hops(t.pkt) + 1] \in Stations \ {w[0]}
           /\ \A i \in 1..Hops(t.pkt) : w[i] \in Repeaters /\ w[i] \notin Stations
           /\ \A i \in 0..(Hops(t.pkt) + 1) : w[i] \in Nodes
           /\ \A i \in 0..Hops(t.pkt) : w[i + 1] # w[0] /\ w[i + 1] \in Neighbours[w[i]]
           /\ \A i, j \in 1..Hops(t.pkt) : w[i] = w[j] => i = j
<1> DEFINE n == Hops(t.pkt)
<1>1. t \in Traffic /\ t.pkt \in Packets /\ n \in Nat
  BY WorldFacts, MeshAssumption, PacketFacts
<1>2. /\ w[0] \in Stations /\ w[0] = t.from /\ w[n + 1] \in Stations \ {w[0]}
      /\ \A i \in 1..n : w[i] \in Repeaters /\ w[i] \notin Stations
      /\ \A i \in 0..(n + 1) : w[i] \in Nodes
      /\ \A i \in 0..n : w[i + 1] \in Neighbours[w[i]]
      /\ \A i \in 1..n : t.pkt.path[i] = HashOf[w[i]][t.pkt.size]
      /\ \A i, j \in 1..n : t.pkt.path[i] = t.pkt.path[j] => i = j
  BY MeshAssumption DEF Route
<1>. HIDE DEF n
<1>3. ASSUME NEW i \in 0..n PROVE w[i + 1] # w[0]
  <2>1. i = n \/ i + 1 \in 1..n
    BY <1>1
  <2>. QED  BY <1>2, <2>1
<1>. QED  BY <1>1, <1>2, <1>3 DEF n

\* A copy of a routed ACK knows the rest of its way.
LEMMA AckCopy ==
    ASSUME IInv, WayInv, NEW t \in world.sends, NEW w, Route(t, w),
           NEW x \in air, x.frame.pkt.id = t.pkt.id
    PROVE  /\ CopyOf(x.frame, t) /\ x.frame.trail[1][1] = t.from
           /\ ~IsFlood(x.frame.pkt) /\ x.frame.pkt.type \in {"ack", "multiack"}
           /\ x.frame.pkt.size = t.pkt.size /\ ~x.frame.pkt.dnr /\ Valid(x.frame.pkt)
           /\ Hops(x.frame.pkt) \in 0..Hops(t.pkt)
           /\ Hops(x.frame.pkt) > 0 =>
                  Head(x.frame.pkt.path) = t.pkt.path[Hops(t.pkt) - Hops(x.frame.pkt) + 1]
           /\ x.frame \in FrameSet /\ x.frame.pkt \in Packets
<1> DEFINE f == x.frame
           p == f.pkt
           n == Hops(t.pkt)
           R == RelayHashes(f)
           l == Len(f.trail) - 1
<1>. USE DEF IInv
<1>1. PICK u \in world.sends : CopyOf(f, u) /\ f.trail[1][1] = u.from
  BY DEF WayInv, Came
<1>2. u = t
  <2>1. u.pkt.id = t.pkt.id
    BY <1>1 DEF CopyOf
  <2>. QED  BY <2>1, WorldFacts, MeshAssumption DEF MeshType
<1>3. /\ ~IsFlood(p) /\ p.type \in {"ack", "multiack"} /\ p.size = t.pkt.size /\ ~p.dnr
      /\ f \in FrameSet /\ p \in Packets
  BY <1>1, <1>2 DEF CopyOf, Route, MeshType, FrameSet
<1>4. R \o p.path = t.pkt.path
  <2>1. PICK v \in world.sends : v.pkt.id = p.id /\ R \o p.path = v.pkt.path
    BY <1>3 DEF FrameInv, OnAir, Tells
  <2>2. v = t
    BY <2>1, WorldFacts, MeshAssumption DEF MeshType
  <2>. QED  BY <2>1, <2>2
<1>5. l \in Nat /\ n \in Nat /\ t.pkt \in Packets
  BY Sender, Stops DEF MeshType
<1>6. /\ Hops(p) \in Nat /\ n = l + Hops(p)
      /\ Hops(p) > 0 => Head(p.path) = t.pkt.path[l + 1]
  <2>. DEFINE S == PathHashes \cup {R[i] : i \in 1..l}
  <2>1. R = [i \in 1..l |-> R[i]]
    BY DEF RelayHashes
  <2>2. \A i \in 1..l : R[i] \in S
    OBVIOUS
  <2>3. p.path \in Seq(S) /\ Hops(p) = Len(p.path)
    BY <1>3, PacketFacts DEF Hops
  <2>. HIDE DEF S, R, p, l
  <2>4. R \in Seq(S) /\ Len(R) = l
    BY <1>5, <2>1, <2>2
  <2>5. Len(R \o p.path) = l + Len(p.path) /\ Len(p.path) \in Nat
    BY <2>3, <2>4
  <2>6. ASSUME Len(p.path) > 0 PROVE Head(p.path) = (R \o p.path)[l + 1]
    BY <1>5, <2>3, <2>4, <2>6
  <2>. QED  BY <1>4, <2>3, <2>5, <2>6 DEF Hops, n
<1>7. Hops(p) \in 0..n /\ (Hops(p) > 0 => Head(p.path) = t.pkt.path[n - Hops(p) + 1])
  <2>. HIDE DEF n, l, p
  <2>. QED  BY <1>5, <1>6
<1>8. Valid(p)
  <2>1. t.pkt.size \in 1..3 /\ n * t.pkt.size <= MaxPathBytes
    BY <1>5, PacketFacts DEF Route, Valid
  <2>. HIDE DEF n, p
  <2>2. Hops(p) * t.pkt.size <= n * t.pkt.size
    <3>1. t.pkt.size = 1 \/ t.pkt.size = 2 \/ t.pkt.size = 3
      BY <2>1
    <3>. QED  BY <1>5, <1>7, <3>1
  <2>3. Hops(p) * t.pkt.size \in Nat /\ n * t.pkt.size \in Nat
    <3>1. t.pkt.size \in Nat /\ Hops(p) \in Nat
      BY <1>7, <2>1
    <3>. QED  BY <1>5, <3>1
  <2>. QED  BY <1>3, <2>1, <2>2, <2>3, ForwardingAssumption DEF Valid, p
<1>. QED  BY <1>1, <1>2, <1>3, <1>7, <1>8

\* The repeater a half of the pair comes to takes it, unless it is past.
LEMMA AckTaken ==
    ASSUME IInv, WayInv, KnownInv, NEW t \in world.sends, NEW w, Route(t, w),
           NEW i \in 0..Hops(t.pkt), NEW x \in air, x.to = w[i + 1], x.to \in Repeaters,
           x.frame.pkt.id = t.pkt.id, Hops(x.frame.pkt) = Hops(t.pkt) - i,
           ~Past(t, w, i + 1)
    PROVE  Accepts(x.to, x.frame.pkt, SeenKeys(x.to), Scopes)
<1> DEFINE p == x.frame.pkt
           r == x.to
           n == Hops(t.pkt)
<1>. USE DEF IInv
<1>1. /\ ~IsFlood(p) /\ ~p.dnr /\ Valid(p) /\ p.size = t.pkt.size /\ p \in Packets
      /\ Hops(p) > 0 => Head(p.path) = t.pkt.path[n - Hops(p) + 1]
  BY AckCopy
<1>2. n \in Nat /\ w[n + 1] \in Stations /\ t.from \in Stations
      /\ \A j \in 1..n : t.pkt.path[j] = HashOf[w[j]][t.pkt.size]
  BY Stops DEF MeshType, Route
<1>3. i + 1 \in 1..n /\ Hops(p) > 0 /\ n - Hops(p) + 1 = i + 1
  <2>1. i # n
    BY <1>2, MeshAssumption
  <2>. HIDE DEF n
  <2>. QED  BY <1>2, <2>1 DEF n
<1>4. ForUs(r, p)
  <2>1. Head(p.path) = HashOf[r][p.size]
    BY <1>1, <1>2, <1>3
  <2>2. p.path # <<>>
    BY <1>3 DEF Hops
  <2>. QED  BY <2>1, <2>2 DEF ForUs
<1>5. Key(p) \notin SeenKeys(r)
  <2>. SUFFICES ASSUME Key(p) \in SeenKeys(r) PROVE FALSE
    OBVIOUS
  <2>1. Carried(r, Key(p)) /\ Key(p) \in Keys /\ Key(p)[2] = t.pkt.id
    BY FramesAre, KeysHeld DEF KnownInv, Key
  <2>2. ~OwnSent(r, Key(p))
    <3>. SUFFICES ASSUME NEW u \in world.sends, u.from = r, Key(u.pkt) = Key(p) PROVE FALSE
      BY DEF OwnSent
    <3>1. u.pkt.id = t.pkt.id
      BY DEF Key
    <3>2. u = t
      BY <3>1, WorldFacts, MeshAssumption DEF MeshType
    <3>. QED  BY <1>2, <3>2, MeshAssumption
  <2>3. relays[r][Key(p)] > 0
    BY <2>1, <2>2 DEF Carried
  <2>4. i + 1 # 0
    BY <1>3
  <2>. QED  BY <2>1, <2>3, <2>4 DEF Past
<1>. QED  BY <1>1, <1>4, <1>5 DEF Accepts, CanDirect, p, r

\* What a stop of the way takes is what its own place in the path is for.
LEMMA AckPlace ==
    ASSUME IInv, WayInv, NEW t \in world.sends, NEW w, Route(t, w), NEW i \in 1..Hops(t.pkt),
           NEW x \in air, x.to = w[i], x.frame.pkt.id = t.pkt.id,
           Accepts(x.to, x.frame.pkt, SeenKeys(x.to), Scopes)
    PROVE  Hops(x.frame.pkt) = Hops(t.pkt) - i + 1
<1> DEFINE p == x.frame.pkt
           n == Hops(t.pkt)
           j == n - Hops(p) + 1
<1>. USE DEF IInv
<1>1. /\ ~IsFlood(p) /\ p.size = t.pkt.size /\ Hops(p) \in 0..n /\ p \in Packets
      /\ Hops(p) > 0 => Head(p.path) = t.pkt.path[j]
  BY AckCopy
<1>2. n \in Nat /\ t.pkt.path[i] = HashOf[w[i]][t.pkt.size]
      /\ \A l, m \in 1..n : t.pkt.path[l] = t.pkt.path[m] => l = m
  BY Stops DEF MeshType, Route
<1>3. p.path # <<>> /\ Head(p.path) = HashOf[w[i]][p.size]
  BY <1>1 DEF Accepts, CanDirect, ForUs
<1>4. Hops(p) > 0
  <2>1. p.path \in Seq(PathHashes) /\ Hops(p) = Len(p.path)
    BY <1>1, PacketFacts DEF Hops
  <2>. QED  BY <1>3, <2>1
<1>5. j \in 1..n /\ t.pkt.path[j] = t.pkt.path[i]
  <2>1. j \in 1..n
    <3>. HIDE DEF n, p
    <3>. QED  BY <1>1, <1>2, <1>4
  <2>. QED  BY <1>1, <1>2, <1>3, <1>4, <2>1
<1>6. j = i
  BY <1>2, <1>5
<1>. HIDE DEF n, p
<1>. QED  BY <1>1, <1>2, <1>6 DEF n, p

\* Both halves leave a stop that takes either.
LEMMA AckDoubles ==
    ASSUME IInv, WayInv, MultiAcks = 1, NEW t \in world.sends, NEW w, Route(t, w),
           NEW i \in 1..Hops(t.pkt), NEW x \in air, x.to = w[i], x.frame.pkt.id = t.pkt.id, Relay(x),
           NEW y \in {"ack", "multiack"}
    PROVE  \E g \in queue'[w[i]] : Half(g, t, i, y)
<1> DEFINE p == x.frame.pkt
           q == [AckOut(p) EXCEPT !.type = y]
           g == [x.frame EXCEPT !.pkt = q]
           n == Hops(t.pkt)
<1>. USE DEF IInv
<1>1. /\ x.to \in Repeaters /\ Accepts(x.to, p, SeenKeys(x.to), Scopes)
      /\ queue' = [queue EXCEPT ![x.to] = @ \cup {[x.frame EXCEPT !.pkt = z] : z \in Relayed(x.to, p)}]
      /\ queue \in [Repeaters -> SUBSET FrameSet]
  BY DEF Relay, MeshType
<1>2. /\ ~IsFlood(p) /\ p.type \in {"ack", "multiack"} /\ p \in Packets /\ x.frame \in FrameSet
      /\ Hops(p) = n - i + 1 /\ n \in Nat
  BY <1>1, AckCopy, AckPlace, Stops DEF MeshType
<1>3. AckOut(p) = [p EXCEPT !.type = "ack", !.route = "direct", !.path = Tail(p.path)]
  BY DEF AckOut
<1>4. q \in Relayed(x.to, p)
  <2>1. AckOut(p).type = "ack"
    BY <1>2, <1>3 DEF Packets
  <2>2. [AckOut(p) EXCEPT !.type = "ack"] = AckOut(p)
    BY <1>2, <1>3, PacketFacts
  <2>. QED  BY <1>2, <2>2 DEF Relayed, AckCopies
<1>5. q.id = p.id /\ q.type = y /\ q.path = Tail(p.path)
  BY <1>2, <1>3 DEF Packets
<1>6. Hops(q) = n - i
  <2>1. p.path \in Seq(PathHashes) /\ Hops(p) = Len(p.path) /\ Hops(q) = Len(Tail(p.path))
    BY <1>2, <1>5, PacketFacts DEF Hops
  <2>. HIDE DEF n, p, q
  <2>2. Len(p.path) = n - i + 1 /\ n - i + 1 > 0
    BY <1>2, <2>1 DEF n
  <2>3. p.path # <<>>
    BY <2>1, <2>2
  <2>4. Len(Tail(p.path)) = Len(p.path) - 1
    BY <2>1, <2>3
  <2>. QED  BY <1>2, <2>1, <2>2, <2>4 DEF n
<1>7. g.pkt = q
  BY <1>2 DEF FrameSet
<1>8. g \in queue'[w[i]]
  BY <1>1, <1>4
<1>. HIDE DEF q, g
<1>. QED  BY <1>5, <1>6, <1>7, <1>8 DEF Half

LEMMA HeardStays ==
    ASSUME IInv, [Next]_vars
    PROVE  \A s \in Stations : heard[s] \subseteq heard'[s]
<1>1. ASSUME NEW x \in air, StationHears(x) PROVE \A s \in Stations : heard[s] \subseteq heard'[s]
  <2>1. heard' = [heard EXCEPT ![x.to] = @ \cup {x.frame}] /\ heard \in [Stations -> SUBSET FrameSet]
    BY <1>1 DEF StationHears, IInv, MeshType
  <2>. QED  BY <2>1
<1>2. CASE ~\E x \in air : StationHears(x)
  <2>1. heard' = heard
    BY <1>2 DEF Next, Originate, Receive, Schedule, StationSends, RepeaterSends, Relay, Ignore,
                Lose, Transmit, GiveUp, vars, ghosts
  <2>. QED  BY <2>1
<1>. QED  BY <1>1, <1>2

LEMMA PastStays ==
    ASSUME IInv, [Next]_vars, NEW t \in world.sends, NEW w, Route(t, w),
           NEW i \in 0..(Hops(t.pkt) + 1), Past(t, w, i)
    PROVE  Past(t, w, i)'
<1>1. Onward /\ \A s \in Stations : heard[s] \subseteq heard'[s]
  BY GoesOn, HeardStays
<1>2. w[i] \in Nodes
  BY Stops DEF IInv, MeshType
<1>3. CASE i = 0
  BY <1>1, <1>3 DEF Past, Onward
<1>4. CASE i # 0 /\ w[i] \in Repeaters
  BY <1>1, <1>4 DEF Past, Onward
<1>5. CASE i # 0 /\ w[i] \notin Repeaters
  BY <1>1, <1>2, <1>5 DEF Past, Nodes
<1>. QED  BY <1>3, <1>4, <1>5

\* A stop that loses nothing keeps what it spared, and a loss costs one of the pair.
LEMMA StaysSpared ==
    ASSUME LossType, NEW t, NEW w, NEW i, w[i] \in Nodes, Spared(t, w, i), LossType',
           \/ /\ lost[w[i]] <= lost'[w[i]]
              /\ \A y \in {"ack", "multiack"} : Lives(t, w, i, y) => Lives(t, w, i, y)'
           \/ /\ lost'[w[i]] = IF lost[w[i]] < 2 THEN lost[w[i]] + 1 ELSE 2
              /\ \E z : \A y \in {"ack", "multiack"} \ {z} : Lives(t, w, i, y) => Lives(t, w, i, y)'
    PROVE  Spared(t, w, i)'
<1>1. lost[w[i]] \in 0..2 /\ lost'[w[i]] \in 0..2
  BY DEF LossType
<1> DEFINE a == lost[w[i]]
           b == lost'[w[i]]
<1>2. Spared(t, w, i)' <=> \/ b >= 2
                           \/ Lives(t, w, i, "ack")' /\ (i = 0 \/ Lives(t, w, i, "multiack")')
                           \/ b >= 1 /\ (i = 0 \/ Lives(t, w, i, "ack")' \/ Lives(t, w, i, "multiack")')
  BY DEF Spared
<1>3. \/ a >= 2
      \/ Lives(t, w, i, "ack") /\ (i = 0 \/ Lives(t, w, i, "multiack"))
      \/ a >= 1 /\ (i = 0 \/ Lives(t, w, i, "ack") \/ Lives(t, w, i, "multiack"))
  BY DEF Spared
<1>4. CASE /\ a <= b
           /\ \A y \in {"ack", "multiack"} : Lives(t, w, i, y) => Lives(t, w, i, y)'
  <2>1. (a >= 1 => b >= 1) /\ (a >= 2 => b >= 2)
    BY <1>1, <1>4
  <2>. HIDE DEF a, b
  <2>. QED  BY <1>2, <1>3, <1>4, <2>1
<1>5. CASE /\ b = IF a < 2 THEN a + 1 ELSE 2
           /\ \E z : \A y \in {"ack", "multiack"} \ {z} : Lives(t, w, i, y) => Lives(t, w, i, y)'
  <2>1. b >= 1 /\ (a >= 1 => b >= 2)
    BY <1>1, <1>5
  <2>2. \/ Lives(t, w, i, "ack") => Lives(t, w, i, "ack")'
        \/ Lives(t, w, i, "multiack") => Lives(t, w, i, "multiack")'
    <3>1. PICK z : \A y \in {"ack", "multiack"} \ {z} : Lives(t, w, i, y) => Lives(t, w, i, y)'
      BY <1>5
    <3>2. CASE z = "ack"
      BY <3>1, <3>2
    <3>3. CASE z # "ack"
      BY <3>1, <3>3
    <3>. QED  BY <3>2, <3>3
  <2>. HIDE DEF a, b
  <2>3. CASE a >= 1
    BY <1>2, <2>1, <2>3
  <2>4. CASE a >= 2
    BY <1>2, <2>1, <2>4, <1>1 DEF a
  <2>5. CASE Lives(t, w, i, "ack") /\ (i = 0 \/ Lives(t, w, i, "multiack"))
    BY <1>2, <2>1, <2>2, <2>5
  <2>. QED  BY <1>3, <2>3, <2>4, <2>5
<1>. QED  BY <1>4, <1>5

\* A frame that is sent flies to the next stop.
LEMMA SentFlies ==
    ASSUME world \in Worlds, NEW t, NEW w, NEW i, NEW y, NEW f \in FrameSet, Half(f, t, i, y),
           w[i] \in Nodes, w[i + 1] \in Neighbours[w[i]], Broadcast(w[i], f) \subseteq air'
    PROVE  Flies(t, w, i, y)'
<1> DEFINE x == [to |-> w[i + 1], frame |-> Sent(w[i], f)]
<1>1. x \in air'
  BY DEF Broadcast
<1>2. /\ Sent(w[i], f).pkt = f.pkt /\ Sent(w[i], f).trail = Append(f.trail, <<w[i], f.pkt.type>>)
  BY SentFacts
<1>3. LastSender(Sent(w[i], f)) = w[i]
  <2>1. /\ <<w[i], f.pkt.type>> \in Nodes \X {"data", "ack", "multiack"}
        /\ f.trail \in Seq(Nodes \X {"data", "ack", "multiack"})
    BY PacketFacts DEF FrameSet, Trails
  <2>2. /\ Len(Append(f.trail, <<w[i], f.pkt.type>>)) = Len(f.trail) + 1
        /\ Append(f.trail, <<w[i], f.pkt.type>>)[Len(f.trail) + 1] = <<w[i], f.pkt.type>>
    BY <2>1, AppendPlaces
  <2>3. <<w[i], f.pkt.type>>[1] = w[i]
    OBVIOUS
  <2>. QED  BY <1>2, <2>2, <2>3 DEF LastSender
<1>4. Half(Sent(w[i], f), t, i, y)
  BY <1>2 DEF Half
<1>5. x.to = w[i + 1] /\ x.frame = Sent(w[i], f)
  OBVIOUS
<1>. HIDE DEF x
<1>. QED  BY <1>1, <1>3, <1>4, <1>5 DEF Flies

LEMMA AckStep ==
    ASSUME IInv, PastInv, AckInv, [Next]_vars
    PROVE  AckInv'
<1>. USE DEF IInv
<1>0. /\ Onward /\ world' = world /\ world \in Worlds /\ LossType' /\ \A j \in Nodes : lost[j] <= lost'[j]
      /\ LossType /\ WayInv /\ KnownInv
  BY GoesOn, LossStep DEF Onward, MeshType, PastInv
<1>. SUFFICES ASSUME MultiAcks = 1, NEW t \in world.sends, NEW w, Route(t, w)',
                     NEW i \in 0..Hops(t.pkt), Past(t, w, i)', ~Past(t, w, i + 1)'
              PROVE  Spared(t, w, i)'
  BY <1>0 DEF AckInv
<1> DEFINE n == Hops(t.pkt)
           Keep == \A y \in {"ack", "multiack"} : Lives(t, w, i, y) => Lives(t, w, i, y)'
<1>1. Route(t, w)
  BY <1>0 DEF Route, Neighbours
<1>2. /\ n \in Nat /\ t \in Traffic /\ w[0] \in Stations /\ w[0] = t.from /\ i + 1 # 0
      /\ i + 1 \in 0..(n + 1) /\ i \in 0..(n + 1) /\ w[i] \in Nodes /\ w[i + 1] \in Nodes
      /\ w[i + 1] # w[0] /\ w[i + 1] \in Neighbours[w[i]]
      /\ i # 0 => i \in 1..n /\ w[i] \in Repeaters /\ w[i] \notin Stations
      /\ i = 0 => w[i] \notin Repeaters
  <2>1. n \in Nat /\ i + 1 # 0 /\ i + 1 \in 0..(n + 1) /\ i \in 0..(n + 1) /\ (i # 0 => i \in 1..n)
    BY <1>0, <1>1, Stops
  <2>. HIDE DEF n
  <2>. QED  BY <1>0, <1>1, <2>1, Stops, MeshAssumption DEF n
<1>3. ~Past(t, w, i + 1)
  BY <1>1, <1>2, PastStays
<1>4. Past(t, w, i) => Spared(t, w, i)
  BY <1>1, <1>3 DEF AckInv
<1>. HIDE DEF n
<1>5. ASSUME Past(t, w, i), Keep PROVE Spared(t, w, i)'
  BY <1>0, <1>2, <1>4, <1>5, StaysSpared
<1>6. ASSUME Past(t, w, i), lost'[w[i]] = (IF lost[w[i]] < 2 THEN lost[w[i]] + 1 ELSE 2),
             NEW z, \A y \in {"ack", "multiack"} \ {z} : Lives(t, w, i, y) => Lives(t, w, i, y)'
      PROVE  Spared(t, w, i)'
  BY <1>0, <1>2, <1>4, <1>6, StaysSpared
<1>7. ASSUME Lives(t, w, i, "ack")', i = 0 \/ Lives(t, w, i, "multiack")' PROVE Spared(t, w, i)'
  BY <1>7 DEF Spared
<1>. HIDE DEF Keep
<1>8. ASSUME unsent' = unsent \/ i # 0, relays' = relays, heard' = heard \/ w[i] \notin Stations \/ i = 0
      PROVE  Past(t, w, i)
  BY <1>2, <1>8 DEF Past, Nodes
<1>9. ASSUME queue' = queue,
             NEW x \in air, air' = air \ {x},
             NEW y \in {"ack", "multiack"}, Lives(t, w, i, y), ~Lives(t, w, i, y)'
      PROVE  x.to = w[i + 1] /\ LastSender(x.frame) = w[i] /\ Half(x.frame, t, i, y)
  BY <1>9 DEF Lives, InQueue, Flies
<1>10. ASSUME NEW u \in unsent, StationSends(u) PROVE Spared(t, w, i)'
  <2>. DEFINE f == [pkt |-> u.pkt, trail |-> <<>>]
  <2>1. /\ u \in world.sends /\ unsent' = unsent \ {u} /\ relays' = relays /\ heard' = heard
        /\ air' = air \cup Broadcast(u.from, f) /\ queue' = queue
    BY <1>10 DEF StationSends, MeshType, ghosts
  <2>. HIDE DEF f
  <2>2. CASE Past(t, w, i)
    <3>1. Keep
      BY <2>1 DEF Keep, Lives, InQueue, Flies
    <3>. QED  BY <1>5, <2>2, <3>1
  <2>3. CASE ~Past(t, w, i)
    <3>1. i = 0 /\ u = t
      BY <1>8, <2>1, <2>3 DEF Past
    <3>2. f \in FrameSet /\ f.pkt = t.pkt
      BY <1>0, <1>2, <3>1, OwnFrame DEF f
    <3>3. Half(f, t, 0, "ack")
      BY <1>1, <1>2, <3>2 DEF Half, Route, n
    <3>4. Flies(t, w, i, "ack")'
      BY <1>0, <1>2, <2>1, <3>1, <3>2, <3>3, SentFlies
    <3>. QED  BY <1>7, <3>1, <3>4 DEF Lives
  <2>. QED  BY <2>2, <2>3
<1>11. ASSUME NEW u \in unsent, RepeaterSends(u) PROVE Spared(t, w, i)'
  <2>. DEFINE f == [pkt |-> u.pkt, trail |-> <<>>]
  <2>1. /\ u.from \in Repeaters /\ unsent' = unsent \ {u} /\ relays' = relays /\ air' = air /\ heard' = heard
        /\ queue' = [queue EXCEPT ![u.from] = @ \cup {f}] /\ queue \in [Repeaters -> SUBSET FrameSet]
    BY <1>11 DEF RepeaterSends, MeshType, ghosts
  <2>. HIDE DEF f
  <2>2. u # t
    BY <1>2, <2>1, MeshAssumption
  <2>3. Past(t, w, i)
    BY <1>8, <2>1, <2>2 DEF Past
  <2>4. Keep
    BY <2>1 DEF Keep, Lives, InQueue, Flies
  <2>. QED  BY <1>5, <2>3, <2>4
<1>12. ASSUME NEW x \in air, Relay(x) PROVE Spared(t, w, i)'
  <2>. DEFINE r == x.to
              p == x.frame.pkt
              G == {[x.frame EXCEPT !.pkt = q] : q \in Relayed(r, p)}
  <2>1. /\ r \in Repeaters /\ unsent' = unsent /\ heard' = heard /\ air' = air \ {x} /\ x.frame \in Frames
        /\ queue' = [queue EXCEPT ![r] = @ \cup G] /\ queue \in [Repeaters -> SUBSET FrameSet]
        /\ relays' = [relays EXCEPT ![r][Key(p)] = @ + 1] /\ relays \in [Repeaters -> [Keys -> Nat]]
    BY <1>12, FramesAre DEF Relay, MeshType
  <2>2. Key(p) \in Keys /\ Key(p)[2] = p.id
    BY <2>1, KeysHeld DEF Key
  <2>. HIDE DEF G, r, p
  <2>3. CASE Past(t, w, i)
    <3>1. ~(r = w[i + 1] /\ p.id = t.pkt.id)
      <4>. SUFFICES ASSUME r = w[i + 1], p.id = t.pkt.id PROVE FALSE
        OBVIOUS
      <4>1. relays'[r][Key(p)] = relays[r][Key(p)] + 1 /\ relays[r][Key(p)] \in Nat
        BY <2>1, <2>2
      <4>2. relays'[w[i + 1]][Key(p)] > 0
        BY <4>1
      <4>. QED  BY <1>2, <2>1, <2>2, <4>2 DEF Past
    <3>2. ASSUME NEW y \in {"ack", "multiack"}, Flies(t, w, i, y) PROVE Flies(t, w, i, y)'
      BY <2>1, <3>1, <3>2 DEF Flies, Half, r, p
    <3>3. \A y : InQueue(t, w, i, y) => InQueue(t, w, i, y)'
      BY <2>1 DEF InQueue
    <3>4. Keep
      BY <3>2, <3>3 DEF Keep, Lives
    <3>. QED  BY <1>5, <2>3, <3>4
  <2>4. CASE ~Past(t, w, i)
    <3>1. i # 0 /\ i \in 1..n /\ w[i] \in Repeaters
      BY <1>2, <2>1, <2>4 DEF Past
    <3>2. r = w[i] /\ p.id = t.pkt.id
      <4>1. PICK k \in Keys : k[2] = t.pkt.id /\ relays'[w[i]][k] > 0
        BY <3>1 DEF Past
      <4>2. ~(relays[w[i]][k] > 0)
        BY <2>4, <3>1, <4>1 DEF Past
      <4>3. r = w[i] /\ Key(p) = k
        BY <2>1, <3>1, <4>1, <4>2
      <4>. QED  BY <2>2, <4>1, <4>3
    <3>3. \A y \in {"ack", "multiack"} : \E g \in queue'[w[i]] : Half(g, t, i, y)
      BY <1>0, <1>1, <1>12, <3>1, <3>2, AckDoubles DEF n, r, p
    <3>4. \A y \in {"ack", "multiack"} : Lives(t, w, i, y)'
      BY <3>1, <3>3 DEF Lives, InQueue
    <3>. QED  BY <1>7, <3>4
  <2>. QED  BY <2>3, <2>4
<1>13. ASSUME NEW x \in air, Ignore(x) PROVE Spared(t, w, i)'
  <2>1. /\ x.to \in Repeaters /\ unsent' = unsent /\ relays' = relays /\ queue' = queue /\ heard' = heard
        /\ air' = air \ {x} /\ ~Accepts(x.to, x.frame.pkt, SeenKeys(x.to), Scopes)
    BY <1>13 DEF Ignore, ghosts
  <2>2. Keep
    <3>. SUFFICES ASSUME NEW y \in {"ack", "multiack"}, Lives(t, w, i, y), ~Lives(t, w, i, y)' PROVE FALSE
      BY DEF Keep
    <3>1. x.to = w[i + 1] /\ Half(x.frame, t, i, y)
      BY <1>9, <2>1
    <3>. QED  BY <1>0, <1>1, <1>3, <2>1, <3>1, AckTaken DEF Half
  <2>. QED  BY <1>5, <1>8, <2>1, <2>2
<1>14. ASSUME NEW x \in air, StationHears(x) PROVE Spared(t, w, i)'
  <2>1. /\ x.to \in Stations /\ x.to \notin Repeaters
        /\ unsent' = unsent /\ relays' = relays /\ queue' = queue
        /\ air' = air \ {x} /\ heard' = [heard EXCEPT ![x.to] = @ \cup {x.frame}]
        /\ heard \in [Stations -> SUBSET FrameSet]
    BY <1>14, MeshAssumption DEF StationHears, ghosts, MeshType
  <2>2. Keep
    <3>. SUFFICES ASSUME NEW y \in {"ack", "multiack"}, Lives(t, w, i, y), ~Lives(t, w, i, y)' PROVE FALSE
      BY DEF Keep
    <3>1. x.to = w[i + 1] /\ Half(x.frame, t, i, y)
      BY <1>9, <2>1
    <3>2. x.frame \in heard'[w[i + 1]] /\ x.frame.pkt.id = t.pkt.id
      BY <2>1, <3>1 DEF Half
    <3>. QED  BY <1>2, <2>1, <3>1, <3>2 DEF Past
  <2>3. Past(t, w, i)
    BY <1>2, <1>8, <2>1
  <2>. QED  BY <1>5, <2>2, <2>3
<1>15. ASSUME NEW x \in air, Lose(x) PROVE Spared(t, w, i)'
  <2>. DEFINE s == LastSender(x.frame)
  <2>1. /\ unsent' = unsent /\ relays' = relays /\ queue' = queue /\ heard' = heard
        /\ air' = air \ {x} /\ CountLoss(s, x.to, x.frame) /\ s \in Nodes
    BY <1>15, Sender DEF Lose, LastSender
  <2>. HIDE DEF s
  <2>2. Past(t, w, i)
    BY <1>8, <2>1
  <2>3. CASE Keep
    BY <1>5, <2>2, <2>3
  <2>4. CASE ~Keep
    <3>1. PICK v \in {"ack", "multiack"} : Lives(t, w, i, v) /\ ~Lives(t, w, i, v)'
      BY <2>4 DEF Keep
    <3>2. x.to = w[i + 1] /\ s = w[i] /\ Half(x.frame, t, i, v)
      BY <1>9, <2>1, <3>1 DEF s
    <3>3. \A y \in {"ack", "multiack"} \ {v} : Lives(t, w, i, y) => Lives(t, w, i, y)'
      BY <1>9, <2>1, <3>2 DEF Half
    <3>4. x.to \notin Passed(x.frame)
      <4>. SUFFICES ASSUME x.to \in Passed(x.frame) PROVE FALSE
        OBVIOUS
      <4>1. PICK j \in DOMAIN x.frame.trail : x.to = x.frame.trail[j][1]
        BY DEF Passed
      <4>2. j = 1 \/ j \in 2..Len(x.frame.trail)
        <5>1. DOMAIN x.frame.trail = 1..Len(x.frame.trail)
          BY DEF MeshType, FrameSet, Trails
        <5>. QED  BY <4>1, <5>1, Sender
      <4>3. x.frame.trail[1][1] = w[0] /\ x.frame.pkt.id = t.pkt.id
        BY <1>0, <1>1, <1>2, <3>2, AckCopy DEF Half
      <4>4. x.to \in Repeaters /\ Handled(x.to, x.frame)
        BY <1>0, <1>2, <3>2, <4>1, <4>2, <4>3 DEF WayInv, Came
      <4>. QED  BY <1>2, <1>3, <3>2, <4>3, <4>4 DEF Past, Handled
    <3>5. lost'[w[i]] = IF lost[w[i]] < 2 THEN lost[w[i]] + 1 ELSE 2
      BY <1>0, <2>1, <3>2, <3>4, LossFacts
    <3>. QED  BY <1>6, <2>2, <3>3, <3>5
  <2>. QED  BY <2>3, <2>4
<1>16. ASSUME NEW r \in Repeaters, NEW f \in queue[r], Transmit(r, f) PROVE Spared(t, w, i)'
  <2>1. /\ air' = air \cup Broadcast(r, f) /\ queue' = [queue EXCEPT ![r] = @ \ {f}]
        /\ queue \in [Repeaters -> SUBSET FrameSet] /\ f \in FrameSet
        /\ unsent' = unsent /\ relays' = relays /\ heard' = heard
    BY <1>16 DEF Transmit, MeshType, ghosts
  <2>2. \A y : Flies(t, w, i, y) => Flies(t, w, i, y)'
    BY <2>1 DEF Flies
  <2>3. ASSUME NEW y \in {"ack", "multiack"}, InQueue(t, w, i, y) PROVE Lives(t, w, i, y)'
    <3>1. PICK h \in queue[w[i]] : w[i] \in Repeaters /\ Half(h, t, i, y)
      BY <2>3 DEF InQueue
    <3>2. CASE w[i] = r /\ h = f
      BY <1>0, <1>2, <2>1, <3>1, <3>2, SentFlies DEF Lives
    <3>3. CASE ~(w[i] = r /\ h = f)
      BY <2>1, <3>1, <3>3 DEF Lives, InQueue
    <3>. QED  BY <3>2, <3>3
  <2>4. Keep
    BY <2>2, <2>3 DEF Keep, Lives
  <2>. QED  BY <1>5, <1>8, <2>1, <2>4
<1>17. ASSUME NEW r \in Repeaters, NEW f \in queue[r], GiveUp(r, f) PROVE Spared(t, w, i)'
  <2>1. /\ air' = air /\ queue' = [queue EXCEPT ![r] = @ \ {f}] /\ queue \in [Repeaters -> SUBSET FrameSet]
        /\ unsent' = unsent /\ relays' = relays /\ heard' = heard /\ CountLoss(r, r, f) /\ r \in Nodes
    BY <1>17 DEF GiveUp, MeshType, Nodes
  <2>2. Past(t, w, i)
    BY <1>8, <2>1
  <2>3. CASE w[i] = r
    <3>1. lost'[w[i]] = IF lost[w[i]] < 2 THEN lost[w[i]] + 1 ELSE 2
      BY <1>0, <2>1, <2>3, LossFacts
    <3>2. \A y \in {"ack", "multiack"} \ {f.pkt.type} : Lives(t, w, i, y) => Lives(t, w, i, y)'
      BY <2>1, <2>3 DEF Lives, InQueue, Flies, Half
    <3>. QED  BY <1>6, <2>2, <3>1, <3>2
  <2>4. CASE w[i] # r
    <3>1. Keep
      BY <2>1, <2>4 DEF Keep, Lives, InQueue, Flies
    <3>. QED  BY <1>5, <2>2, <3>1
  <2>. QED  BY <2>3, <2>4
<1>18. CASE UNCHANGED vars
  <2>1. air' = air /\ queue' = queue /\ unsent' = unsent /\ relays' = relays /\ heard' = heard
    BY <1>18 DEF vars, ghosts
  <2>2. Keep
    BY <2>1 DEF Keep, Lives, InQueue, Flies
  <2>. QED  BY <1>5, <1>8, <2>1, <2>2
<1>. QED  BY <1>10, <1>11, <1>12, <1>13, <1>14, <1>15, <1>16, <1>17, <1>18
          DEF Next, Originate, Receive, Schedule

\* Every ACK sent has a way to go, and is doubled by the repeaters on it.
Routed ==
    /\ MultiAcks = 1
    /\ \A t \in {u \in world.sends : u.pkt.type = "ack"} :
           \E w \in [0..(Hops(t.pkt) + 1) -> Nodes] : Route(t, w)

LEMMA AckStart == Init => AckInv
<1>. SUFFICES ASSUME Init, NEW t \in world.sends, NEW w, Route(t, w),
                     NEW i \in 0..Hops(t.pkt), Past(t, w, i)
              PROVE  FALSE
  BY DEF AckInv
<1>1. /\ world \in Worlds /\ unsent = world.sends /\ heard = [s \in Stations |-> {}]
      /\ relays = [r \in Repeaters |-> [k \in Keys |-> 0]]
  BY DEF Init
<1>2. w[i] \in Nodes
  <2>1. i \in 0..(Hops(t.pkt) + 1)
    BY <1>1, Stops
  <2>. QED  BY <1>1, <2>1, Stops
<1>. QED  BY <1>1, <1>2 DEF Past, Nodes

LEMMA AckInvariance == Spec => []AckInv
<1>1. IInv /\ PastInv /\ AckInv /\ [Next]_vars => AckInv'
  BY AckStep
<1>. QED  BY <1>1, AckStart, MeshInvariance, PastInvariance, PTL DEF Spec

\* When all is quiet, the pair is past every stop that spared a frame of it.
LEMMA AckArrives ==
    ASSUME IInv, LossType, AckInv, Quiet, MultiAcks = 1,
           \A n \in Nodes : lost[n] <= (IF n \in Repeaters THEN 1 ELSE 0),
           NEW t \in world.sends, NEW w, Route(t, w)
    PROVE  \E s \in Stations \ {t.from} : \E f \in heard[s] : f.pkt.id = t.pkt.id
<1> DEFINE n == Hops(t.pkt)
<1>. USE DEF IInv
<1>1. /\ n \in Nat /\ w[n + 1] \in Stations \ {w[0]} /\ w[0] = t.from /\ w[0] \in Stations
      /\ w[0] \in Nodes /\ w[0] \notin Repeaters /\ w[n + 1] \notin Repeaters
      /\ \A i \in 1..n : w[i] \in Repeaters /\ w[i] \in Nodes
  BY Stops, MeshAssumption DEF MeshType, Nodes
<1>2. air = {} /\ unsent = {} /\ queue \in [Repeaters -> SUBSET FrameSet]
      /\ \A r \in Repeaters : queue[r] = {}
  BY DEF Quiet, MeshType
<1>3. Past(t, w, 0)
  BY <1>2 DEF Past
<1>. HIDE DEF n
<1>4. ASSUME NEW i \in 0..n, Past(t, w, i) PROVE Past(t, w, i + 1)
  <2>1. \A y : ~Lives(t, w, i, y)
    BY <1>2 DEF Lives, InQueue, Flies
  <2>2. i = 0 \/ i \in 1..n
    BY <1>1
  <2>3. lost[w[i]] <= (IF w[i] \in Repeaters THEN 1 ELSE 0) /\ (i = 0 => lost[w[i]] <= 0)
    BY <1>1, <2>2
  <2>4. lost[w[i]] \in 0..2
    BY <1>1, <2>2 DEF LossType
  <2>5. ~(lost[w[i]] >= 2) /\ (i = 0 => ~(lost[w[i]] >= 1))
    BY <2>3, <2>4
  <2>6. ~Spared(t, w, i)
    BY <2>1, <2>5 DEF Spared
  <2>. QED  BY <1>4, <2>6 DEF AckInv, n
<1>5. Past(t, w, n + 1)
  <2>. SUFFICES ASSUME ~Past(t, w, n + 1) PROVE FALSE
    OBVIOUS
  <2>. DEFINE S == {i \in 0..(n + 1) : ~Past(t, w, i)}
  <2>1. S \in SUBSET Nat /\ n + 1 \in S
    BY <1>1
  <2>2. PICK m \in S : \A q \in S : m <= q
    <3>. HIDE DEF S
    <3>. QED  BY <2>1, Least
  <2>3. m # 0 /\ m \in 0..(n + 1)
    BY <1>3, <2>2
  <2>4. m - 1 \in 0..n /\ m - 1 + 1 = m /\ ~(m <= m - 1)
    BY <1>1, <2>3
  <2>5. Past(t, w, m - 1)
    <3>1. m - 1 \in 0..(n + 1)
      BY <1>1, <2>4
    <3>. QED  BY <2>2, <2>4, <3>1
  <2>. QED  BY <1>4, <2>2, <2>4, <2>5
<1>6. n + 1 # 0
  BY <1>1
<1>. QED  BY <1>1, <1>5, <1>6 DEF Past

\* On a route whose nodes hear one another, the pair that multi_acks makes of an
\* ACK (RepeaterHandler._multi_ack_extras) gets it to a station other than its
\* sender, though every repeater on the way lose one frame of the pair: on the
\* air, or when the duty cycle or the radio fails it (schedule_retransmit).
THEOREM AcksSurvive == Spec => [](Routed => AckSurvives)
<1>1. IInv /\ PastInv /\ AckInv => (Routed => AckSurvives)
  BY AckArrives DEF Routed, AckSurvives, PastInv
<1>. QED  BY <1>1, AckInvariance, MeshInvariance, PastInvariance, PTL

---------------------------------------------------------------------------
(* Repeater: the inductive invariant *)

EngineType ==
    /\ load \in Loads
    /\ call \in [Calls -> {"idle", "sending", "done"}]
    /\ seenPackets \in Seq(PacketKeys) /\ Len(seenPackets) <= MaxCacheSize
    /\ age \in [PacketKeys -> 0..MaxAge]
    /\ lowTtl \in Nat /\ ttl \in Nat /\ lowTtl <= ttl /\ ttl < MaxAge
    /\ scopes \subseteq ScopeNames /\ scopeCache \subseteq ScopeNames
    /\ cacheAge \in 0..MaxAge /\ revoked \in [ScopeNames -> 0..MaxAge]
    /\ recent \in Seq(Calls) /\ index \in [PacketKeys -> Calls \cup {NoCall}]
    /\ dups \in [Calls -> SUBSET Calls] /\ flagged \subseteq Calls
    /\ since \in [PacketKeys -> SUBSET Calls]
    /\ \A k \in PacketKeys : IsFiniteSet(since[k])
    /\ \A o \in Calls : IsFiniteSet(dups[o])

\* Key k is in the cache, and each key behind it was inserted by a call since k
\* was last marked.
Kept(k) ==
    \E i \in DOMAIN seenPackets :
        /\ seenPackets[i] = k
        /\ \A j \in DOMAIN seenPackets :
              j > i => \E c \in since[k] : MarkedKey(c) = seenPackets[j]

\* What should still be remembered is, but for the packets sent from here.
CacheInv ==
    /\ IsInjective(seenPackets)
    /\ \A k \in PacketKeys \ OwnKeys : Remembered(k, lowTtl) => Kept(k)

\* A key that was revoked leaves the key cache before the cache is too old.
ScopeInv == \A s \in scopeCache : s \in scopes \/ (s \in ScopeNames /\ revoked[s] <= cacheAge)

\* Only a call that has ended is recorded, and once.
FileInv ==
    /\ IsInjective(recent)
    /\ \A c \in Elems(recent) : call[c] = "done"
    /\ \A o, c \in Calls : c \in dups[o] => call[c] = "done"
    /\ IndexAligned /\ FiledOnce

EngineInv == EngineType /\ CacheInv /\ ScopeInv /\ FileInv

---------------------------------------------------------------------------
(* Repeater: what does not change, and what mark_seen and cleanup_cache do *)

LEMMA SameTraffic ==
    ASSUME load' = load
    PROVE  /\ Calls' = Calls /\ Pkt' = Pkt /\ Local' = Local /\ ScopeNames' = ScopeNames
           /\ PacketKeys' = PacketKeys
           /\ \A c : Hash(c)' = Hash(c) /\ MarkedKey(c)' = MarkedKey(c)
BY DEF Calls, Pkt, Local, ScopeNames, PacketKeys, Hash, MarkedKey

LEMMA KeysMarked ==
    /\ \A c \in Calls : Key(Pkt[c]) \in PacketKeys /\ Hash(c) \in PacketKeys /\ MarkedKey(c) \in PacketKeys
BY DEF PacketKeys, Hash, MarkedKey

LEMMA ElemsToSet == \A s : Elems(s) = ToSet(s)
BY DEF Elems, ToSet

\* mark_seen: a key that comes last, and the cache within its size.
LEMMA MarkFacts ==
    ASSUME EngineType, NEW k \in PacketKeys, MarkSeenPacket(k)
    PROVE  /\ seenPackets' \in Seq(PacketKeys) /\ Len(seenPackets') <= MaxCacheSize
           /\ age' \in [PacketKeys -> 0..MaxAge]
           /\ IsInjective(seenPackets) => IsInjective(seenPackets')
<1>1. /\ seenPackets \in Seq(PacketKeys) /\ Len(seenPackets) <= MaxCacheSize
      /\ age \in [PacketKeys -> 0..MaxAge] /\ MaxCacheSize \in Nat \ {0} /\ MaxAge \in Nat
  BY RepeaterAssumption DEF EngineType
<1>2. age' \in [PacketKeys -> 0..MaxAge]
  BY <1>1 DEF MarkSeenPacket
<1>3. CASE k \in Elems(seenPackets)
  BY <1>1, <1>2, <1>3 DEF MarkSeenPacket
<1>4. CASE k \notin Elems(seenPackets)
  <2>. DEFINE grown == Append(seenPackets, k)
  <2>1. /\ grown \in Seq(PacketKeys) /\ Len(grown) = Len(seenPackets) + 1
        /\ IsInjective(seenPackets) => IsInjective(grown)
    BY <1>1, <1>4, AppendFacts, ElemsToSet
  <2>2. seenPackets' = Evict(grown)
    BY <1>4 DEF MarkSeenPacket
  <2>. HIDE DEF grown
  <2>3. CASE Len(grown) > MaxCacheSize
    <3>1. grown # <<>> /\ Len(Tail(grown)) = Len(grown) - 1
      BY <1>1, <2>1, <2>3
    <3>2. Tail(grown) \in Seq(PacketKeys) /\ (IsInjective(grown) => IsInjective(Tail(grown)))
      BY <2>1, <3>1, TailFacts
    <3>3. seenPackets' = Tail(grown)
      BY <2>2, <2>3 DEF Evict
    <3>4. Len(seenPackets') <= MaxCacheSize
      BY <1>1, <2>1, <3>1, <3>3
    <3>. QED  BY <1>2, <2>1, <3>2, <3>3, <3>4
  <2>4. CASE ~(Len(grown) > MaxCacheSize)
    BY <1>1, <1>2, <2>1, <2>2, <2>4 DEF Evict
  <2>. QED  BY <2>3, <2>4
<1>. QED  BY <1>3, <1>4

LEMMA CleanupFacts ==
    ASSUME EngineType, CleanupCache
    PROVE  /\ seenPackets' \in Seq(PacketKeys) /\ Len(seenPackets') <= MaxCacheSize
           /\ IsInjective(seenPackets) => IsInjective(seenPackets')
<1> DEFINE gone == {k \in PacketKeys : Expired(k)}
<1>1. seenPackets \in Seq(PacketKeys) /\ Len(seenPackets) <= MaxCacheSize /\ MaxCacheSize \in Nat
  BY RepeaterAssumption DEF EngineType
<1>2. seenPackets' = OutOf(seenPackets, gone)
  BY DEF CleanupCache
<1>. HIDE DEF gone
<1>3. /\ OutOf(seenPackets, gone) \in Seq(PacketKeys)
      /\ IsInjective(seenPackets) => IsInjective(OutOf(seenPackets, gone))
  BY <1>1, OutOfFacts
<1>4. Len(OutOf(seenPackets, gone)) <= Len(seenPackets)
  <2>. DEFINE kept == {i \in DOMAIN seenPackets : seenPackets[i] \notin gone}
  <2>1. Len(seenPackets) \in Nat /\ DOMAIN seenPackets = 1..Len(seenPackets)
    BY <1>1
  <2>2. Len(OutOf(seenPackets, gone)) = Cardinality(kept)
    BY <2>1, OutOfLength
  <2>3. IsFiniteSet(1..Len(seenPackets)) /\ Cardinality(1..Len(seenPackets)) = Len(seenPackets)
    <3>1. \A n \in Nat : IsFiniteSet(1..n) /\ Cardinality(1..n) = n
      BY FS_Interval
    <3>. QED  BY <2>1, <3>1
  <2>4. kept \in SUBSET (1..Len(seenPackets))
    BY <2>1
  <2>. HIDE DEF kept
  <2>5. Cardinality(kept) <= Cardinality(1..Len(seenPackets))
    BY <2>3, <2>4, FS_Subset
  <2>. QED  BY <2>2, <2>3, <2>5
<1>5. Len(seenPackets) \in Nat /\ Len(OutOf(seenPackets, gone)) \in Nat
  BY <1>1, <1>3
<1>. QED  BY <1>1, <1>2, <1>3, <1>4, <1>5

\* The record of c is put in one place or the other.
Filed(c) ==
    \/ \E limited \in BOOLEAN : /\ Attach(c, limited) /\ index[Hash(c)] # NoCall
                                /\ c \in flagged' /\ (limited \/ load.dedup)
    \/ AppendRecent(c)

\* What a record leaves of the files' types.
LEMMA RecordType ==
    ASSUME EngineType, NEW c \in Calls, Filed(c)
    PROVE  /\ recent' \in Seq(Calls) /\ index' \in [PacketKeys -> Calls \cup {NoCall}]
           /\ dups' \in [Calls -> SUBSET Calls]
           /\ \A o \in Calls : IsFiniteSet(dups'[o])
<1>1. /\ recent \in Seq(Calls) /\ index \in [PacketKeys -> Calls \cup {NoCall}]
      /\ dups \in [Calls -> SUBSET Calls] /\ flagged \subseteq Calls
      /\ \A o \in Calls : IsFiniteSet(dups[o])
      /\ Hash(c) \in PacketKeys /\ MaxRecent \in Nat \ {0}
  BY KeysMarked, RepeaterAssumption DEF EngineType
<1>3. ASSUME NEW limited \in BOOLEAN, Attach(c, limited) /\ index[Hash(c)] # NoCall
      PROVE  /\ recent' \in Seq(Calls) /\ index' \in [PacketKeys -> Calls \cup {NoCall}]
             /\ dups' \in [Calls -> SUBSET Calls]
             /\ \A o \in Calls : IsFiniteSet(dups'[o])
  <2>1. index[Hash(c)] \in Calls
    BY <1>1, <1>3
  <2>2. dups' \in [Calls -> SUBSET Calls] /\ recent' = recent /\ index' = index
    BY <1>1, <1>3, <2>1 DEF Attach
  <2>3. ASSUME NEW o \in Calls PROVE IsFiniteSet(dups'[o])
    <3>1. dups'[o] = dups[o] \/ dups'[o] = dups[o] \cup {c}
      BY <1>1, <1>3, <2>1 DEF Attach
    <3>2. IsFiniteSet(dups[o]) /\ IsFiniteSet(dups[o] \cup {c})
      BY <1>1, FS_AddElement
    <3>. QED  BY <3>1, <3>2
  <2>. QED  BY <1>1, <2>2, <2>3
<1>4. CASE AppendRecent(c)
  <2>. DEFINE full == Len(recent) >= MaxRecent
              rest == IF full THEN Tail(recent) ELSE recent
              kept == IF full THEN Unindex(index, Head(recent)) ELSE index
  <2>1. recent' = Append(rest, c) /\ index' = [kept EXCEPT ![Hash(c)] = c] /\ dups' = dups
    BY <1>4 DEF AppendRecent
  <2>2. full => recent # <<>>
    BY <1>1
  <2>3. rest \in Seq(Calls)
    BY <1>1, <2>2, TailFacts
  <2>4. kept \in [PacketKeys -> Calls \cup {NoCall}]
    BY <1>1 DEF Unindex
  <2>. HIDE DEF rest, kept
  <2>. QED  BY <1>1, <2>1, <2>3, <2>4
<1>. QED  BY <1>3, <1>4 DEF Filed

\* How a call ends, with a record or without one.
Ends(c) ==
    /\ c \in Calls /\ call[c] # "done" /\ call' = [call EXCEPT ![c] = "done"]
    /\ flagged \subseteq flagged' /\ flagged' \subseteq flagged \cup {c}
    /\ Filed(c) \/ UNCHANGED <<recent, index, dups>>

LEMMA CallsEnd ==
    ASSUME EngineType, NEW c \in Calls
    PROVE  /\ \A allow \in BOOLEAN : Refuse(c, allow) => Ends(c)
           /\ \A sent \in BOOLEAN : Finish(c, sent) => Ends(c)
           /\ Raise(c) \/ LogDuplicate(c) => Ends(c)
           /\ \A stored \in BOOLEAN : RecordOnly(c, stored) => Ends(c)
<1>1. ASSUME NEW sent, NEW known, Record(c, sent, known)
      PROVE  Filed(c) /\ flagged \subseteq flagged' /\ flagged' \subseteq flagged \cup {c}
  BY <1>1 DEF Record, FileDuplicate, Filed
<1>2. LogDuplicate(c) => Filed(c)
  BY DEF LogDuplicate, FileDuplicate, Filed
<1>3. \A stored \in BOOLEAN : RecordOnly(c, stored) => Filed(c) \/ UNCHANGED <<recent, index, dups>>
  BY DEF RecordOnly, Filed
<1>4. \A allow \in BOOLEAN : Refuse(c, allow) => Ends(c)
  BY <1>1 DEF Refuse, Ends
<1>5. \A sent \in BOOLEAN : Finish(c, sent) => Ends(c)
  BY <1>1 DEF Finish, Ends
<1>6. Raise(c) \/ LogDuplicate(c) => Ends(c)
  BY <1>2 DEF Raise, LogDuplicate, Ends, fileVars
<1>7. \A stored \in BOOLEAN : RecordOnly(c, stored) => Ends(c)
  BY <1>3 DEF RecordOnly, Ends
<1>. QED  BY <1>4, <1>5, <1>6, <1>7


LEMMA EngineTypeStep ==
    ASSUME EngineType, EngineNext
    PROVE  EngineType'
<1>. USE RepeaterAssumption
<1>1. load' = load
  BY DEF EngineNext, Handle, Recorded, Operate, Begin, Refuse, Finish, Raise, LogDuplicate,
         RecordOnly, CleanupCache, ReloadConfig, SetMode, EditKey, Tick
<1>2. /\ Calls' = Calls /\ Pkt' = Pkt /\ Local' = Local /\ ScopeNames' = ScopeNames
      /\ PacketKeys' = PacketKeys
  BY <1>1, SameTraffic
<1>3. ASSUME NEW p, ReadScopes(p) PROVE scopeCache' \subseteq ScopeNames /\ cacheAge' \in 0..MaxAge
  BY <1>3 DEF ReadScopes, EngineType
<1>4. ASSUME NEW c, Ends(c)
      PROVE  /\ recent' \in Seq(Calls) /\ index' \in [PacketKeys -> Calls \cup {NoCall}]
             /\ dups' \in [Calls -> SUBSET Calls] /\ flagged' \subseteq Calls
             /\ \A o \in Calls : IsFiniteSet(dups'[o])
             /\ call' \in [Calls -> {"idle", "sending", "done"}]
  BY <1>4, RecordType DEF Ends, EngineType
<1>5. ASSUME NEW c \in Calls, NEW allow \in BOOLEAN, Begin(c, allow) PROVE EngineType'
  <2>1. /\ seenPackets' \in Seq(PacketKeys) /\ Len(seenPackets') <= MaxCacheSize
        /\ age' \in [PacketKeys -> 0..MaxAge]
    BY <1>5, KeysMarked, MarkFacts DEF Begin
  <2>2. scopeCache' \subseteq ScopeNames /\ cacheAge' \in 0..MaxAge
    BY <1>3, <1>5 DEF Begin, EngineType
  <2>3. /\ since' \in [PacketKeys -> SUBSET Calls]
        /\ \A k \in PacketKeys : since'[k] \in {{}, since[k], since[k] \cup {c}}
    BY <1>5 DEF Begin, EngineType
  <2>4. ASSUME NEW k \in PacketKeys PROVE IsFiniteSet(since'[k])
    <3>1. IsFiniteSet({}) /\ IsFiniteSet(since[k])
      BY FS_EmptySet DEF EngineType
    <3>2. IsFiniteSet(since[k] \cup {c})
      BY <3>1, FS_AddElement
    <3>. QED  BY <2>3, <3>1, <3>2
  <2>5. call' \in [Calls -> {"idle", "sending", "done"}]
    BY <1>5 DEF Begin, EngineType
  <2>6. UNCHANGED <<load, mode, ttl, scopes, fileVars, lowTtl, revoked>>
    BY <1>5 DEF Begin
  <2>. QED  BY <1>2, <2>1, <2>2, <2>3, <2>4, <2>5, <2>6 DEF EngineType, fileVars
<1>6. ASSUME NEW c \in Calls, NEW allow \in BOOLEAN, Refuse(c, allow) PROVE EngineType'
  <2>1. scopeCache' \subseteq ScopeNames /\ cacheAge' \in 0..MaxAge
    BY <1>3, <1>6 DEF Refuse, EngineType
  <2>2. /\ recent' \in Seq(Calls) /\ index' \in [PacketKeys -> Calls \cup {NoCall}]
        /\ dups' \in [Calls -> SUBSET Calls] /\ flagged' \subseteq Calls
        /\ \A o \in Calls : IsFiniteSet(dups'[o])
        /\ call' \in [Calls -> {"idle", "sending", "done"}]
    BY <1>6, <1>4, CallsEnd
  <2>4. UNCHANGED <<load, mode, cacheVars, ttl, scopes, since, lowTtl, revoked>>
    BY <1>6 DEF Refuse
  <2>. QED  BY <1>2, <2>1, <2>2, <2>4 DEF EngineType, cacheVars
<1>7. ASSUME NEW c, Ends(c), UNCHANGED <<load, mode, cacheVars, ttl, keyVars, histories>>
      PROVE  EngineType'
  BY <1>2, <1>7, <1>4 DEF EngineType, cacheVars, keyVars, histories
<1>8. ASSUME NEW c \in Calls,
             \/ \E ok \in BOOLEAN : Finish(c, ok)
             \/ Raise(c) \/ LogDuplicate(c)
             \/ \E stored \in BOOLEAN : RecordOnly(c, stored)
      PROVE  EngineType'
  <2>1. UNCHANGED <<load, mode, cacheVars, ttl, keyVars, histories>>
    BY <1>8 DEF Finish, Raise, LogDuplicate, RecordOnly
  <2>. QED  BY <1>7, <1>8, <2>1, CallsEnd
<1>9. CASE CleanupCache
  BY <1>2, <1>9, CleanupFacts DEF CleanupCache, EngineType, keyVars, fileVars, histories
<1>10. ASSUME NEW t \in load.ttls, ReloadConfig(t) PROVE EngineType'
  <2>1. t \in Nat /\ t < MaxAge
    BY <1>10 DEF EngineType
  <2>. QED
    BY <1>2, <1>10, <2>1 DEF ReloadConfig, EngineType, cacheVars, keyVars, fileVars
<1>11. ASSUME NEW m, SetMode(m) PROVE EngineType'
  BY <1>2, <1>11 DEF SetMode, EngineType, cacheVars, keyVars, fileVars, histories
<1>12. ASSUME NEW s \in ScopeNames, EditKey(s) PROVE EngineType'
  BY <1>2, <1>12 DEF EditKey, EngineType, cacheVars, fileVars
<1>13. CASE Tick
  <2>1. \A n \in 0..MaxAge : Older(n) \in 0..MaxAge
    BY DEF Older
  <2>. QED  BY <1>2, <1>13, <2>1 DEF Tick, EngineType, fileVars
<1>. QED
  BY <1>5, <1>6, <1>8, <1>9, <1>10, <1>11, <1>12, <1>13
     DEF EngineNext, Handle, Recorded, Operate

LEMMA EngineTypeInit == EngineInit => EngineType
<1>. SUFFICES ASSUME EngineInit PROVE EngineType
  OBVIOUS
<1>1. \A k \in PacketKeys : IsFiniteSet(since[k])
  BY FS_EmptySet DEF EngineInit
<1>2. \A o \in Calls : IsFiniteSet(dups[o])
  BY FS_EmptySet DEF EngineInit
<1>. QED  BY <1>1, <1>2, RepeaterAssumption DEF EngineInit, EngineType


---------------------------------------------------------------------------
(* Repeater: the cache *)

\* A packet from here stays one.
LEMMA OwnStays ==
    ASSUME EngineType, load' = load, \A c \in Calls : call[c] # "idle" => call'[c] # "idle"
    PROVE  OwnKeys \subseteq OwnKeys'
<1>1. Local \subseteq Calls
  BY RepeaterAssumption DEF EngineType, Local, Calls
<1>. QED  BY <1>1, SameTraffic DEF OwnKeys

\* A step that leaves the order alone, and makes no key younger.
LEMMA CacheStays ==
    ASSUME EngineType, CacheInv, load' = load, OwnKeys \subseteq OwnKeys',
           seenPackets' = seenPackets, since' = since,
           \A k \in PacketKeys : Remembered(k, lowTtl)' => Remembered(k, lowTtl)
    PROVE  CacheInv'
<1>1. \A k : Kept(k) => Kept(k)'
  BY SameTraffic DEF Kept
<1>. QED  BY <1>1, SameTraffic DEF CacheInv

\* A call that marks its key.
LEMMA CacheBegin ==
    ASSUME EngineType, CacheInv, NEW c \in Calls, NEW allow \in BOOLEAN, Begin(c, allow)
    PROVE  CacheInv'
<1> DEFINE key == MarkedKey(c)
           grown == Append(seenPackets, key)
<1>1. /\ load' = load /\ lowTtl' = lowTtl /\ MarkSeenPacket(key) /\ key \in PacketKeys
      /\ age' = [age EXCEPT ![key] = 0] /\ age \in [PacketKeys -> 0..MaxAge]
      /\ seenPackets \in Seq(PacketKeys) /\ Len(seenPackets) <= MaxCacheSize
      /\ MaxCacheSize \in Nat \ {0}
  BY KeysMarked, RepeaterAssumption DEF Begin, MarkSeenPacket, EngineType
<1>2. /\ PacketKeys' = PacketKeys /\ Calls' = Calls /\ Local' = Local
      /\ \A d : Hash(d)' = Hash(d) /\ MarkedKey(d)' = MarkedKey(d)
  BY <1>1, SameTraffic
<1>3. IsInjective(seenPackets')
  BY <1>1, MarkFacts DEF CacheInv
<1>4. OwnKeys \subseteq OwnKeys'
  BY <1>1, OwnStays DEF Begin, EngineType
<1>5. \A k \in PacketKeys : since'[k] = IF k = key THEN {}
                                        ELSE IF key \in Elems(seenPackets) THEN since[k]
                                        ELSE since[k] \cup {c}
  BY DEF Begin
<1>6. key \in Elems(seenPackets) => c \in Local
  <2>1. c \notin Local => key = Key(Pkt[c]) /\ Key(Pkt[c]) \notin Elems(seenPackets)
    BY DEF Begin, MayRelay, MaySend, MarkedKey, Accepts, CanFlood, CanDirect
  <2>. QED  BY <2>1
<1>7. c \in Local => key \in OwnKeys'
  <2>1. c \in Local => key = Hash(c) /\ call'[c] # "idle"
    BY DEF Begin, MarkedKey, EngineType
  <2>. QED  BY <1>2, <2>1 DEF OwnKeys
<1>8. \A k \in PacketKeys : k # key => age'[k] = age[k]
  BY <1>1
<1>. HIDE DEF key
<1>9. CASE key \in Elems(seenPackets)
  <2>1. seenPackets' = seenPackets
    BY <1>1, <1>9 DEF MarkSeenPacket
  <2>2. ASSUME NEW k \in PacketKeys, k \notin OwnKeys', Remembered(k, lowTtl)' PROVE Kept(k)'
    <3>1. k # key /\ k \notin OwnKeys
      BY <1>4, <1>6, <1>7, <1>9, <2>2
    <3>2. since'[k] = since[k] /\ age'[k] = age[k]
      BY <1>5, <1>8, <1>9, <3>1
    <3>3. Remembered(k, lowTtl)
      BY <1>1, <2>2, <3>2 DEF Remembered
    <3>4. Kept(k)
      BY <3>1, <3>3 DEF CacheInv
    <3>. QED  BY <1>2, <2>1, <3>2, <3>4 DEF Kept
  <2>. QED  BY <1>2, <1>3, <2>2 DEF CacheInv
<1>10. CASE key \notin Elems(seenPackets)
  <2>1. /\ grown \in Seq(PacketKeys) /\ Len(grown) = Len(seenPackets) + 1
        /\ DOMAIN grown = 1..(Len(seenPackets) + 1) /\ DOMAIN seenPackets = 1..Len(seenPackets)
        /\ grown[Len(seenPackets) + 1] = key /\ Len(seenPackets) \in Nat
        /\ \A i \in DOMAIN seenPackets : grown[i] = seenPackets[i]
    BY <1>1
  <2>2. seenPackets' = Evict(grown)
    BY <1>1, <1>10 DEF MarkSeenPacket
  <2>3. IsInjective(grown)
    BY <1>1, <1>10, AppendFacts, ElemsToSet DEF CacheInv
  <2>. HIDE DEF grown
  \* In the list before the oldest goes, k is kept.
  <2>4. ASSUME NEW k \in PacketKeys, k \notin OwnKeys', Remembered(k, lowTtl)'
        PROVE  \E i \in DOMAIN grown :
                  /\ grown[i] = k
                  /\ \A j \in DOMAIN grown : j > i => \E d \in since'[k] : MarkedKey(d) = grown[j]
    <3>1. CASE k = key
      BY <2>1, <3>1
    <3>2. CASE k # key
      <4>1. since'[k] = since[k] \cup {c} /\ age'[k] = age[k] /\ k \notin OwnKeys
        BY <1>4, <1>5, <1>8, <1>10, <2>4, <3>2
      <4>2. Cardinality(since[k]) <= Cardinality(since'[k]) /\ Cardinality(since'[k]) \in Nat
            /\ Cardinality(since[k]) \in Nat
        <5>1. IsFiniteSet(since[k]) /\ IsFiniteSet(since[k] \cup {c})
          BY FS_AddElement DEF EngineType
        <5>2. Cardinality(since[k]) <= Cardinality(since[k] \cup {c})
          BY <5>1, FS_Subset
        <5>. QED  BY <4>1, <5>1, <5>2, FS_CardinalityType
      <4>3. Remembered(k, lowTtl)
        BY <1>1, <2>4, <4>1, <4>2 DEF Remembered
      <4>4. PICK i \in DOMAIN seenPackets :
                /\ seenPackets[i] = k
                /\ \A j \in DOMAIN seenPackets :
                      j > i => \E d \in since[k] : MarkedKey(d) = seenPackets[j]
        BY <4>1, <4>3 DEF CacheInv, Kept
      <4>5. i \in DOMAIN grown /\ grown[i] = k
        BY <2>1, <4>4
      <4>6. ASSUME NEW j \in DOMAIN grown, j > i
            PROVE  \E d \in since'[k] : MarkedKey(d) = grown[j]
        <5>1. CASE j \in DOMAIN seenPackets
          BY <2>1, <4>1, <4>4, <4>6, <5>1
        <5>2. CASE j \notin DOMAIN seenPackets
          <6>1. grown[j] = key
            BY <2>1, <5>2
          <6>. QED  BY <4>1, <6>1 DEF key
        <5>. QED  BY <5>1, <5>2
      <4>. QED  BY <4>5, <4>6
    <3>. QED  BY <3>1, <3>2
  <2>5. CASE ~(Len(grown) > MaxCacheSize)
    <3>1. seenPackets' = grown
      BY <2>2, <2>5 DEF Evict
    <3>2. ASSUME NEW k \in PacketKeys, k \notin OwnKeys', Remembered(k, lowTtl)' PROVE Kept(k)'
      <4>1. PICK i \in DOMAIN grown :
                /\ grown[i] = k
                /\ \A j \in DOMAIN grown : j > i => \E d \in since'[k] : MarkedKey(d) = grown[j]
        BY <2>4, <3>2
      <4>. QED  BY <1>2, <3>1, <4>1 DEF Kept
    <3>. QED  BY <1>2, <1>3, <3>2 DEF CacheInv
  <2>6. CASE Len(grown) > MaxCacheSize
    <3>1. /\ seenPackets' = Tail(grown) /\ Len(grown) = MaxCacheSize + 1
          /\ Len(Tail(grown)) = MaxCacheSize /\ DOMAIN Tail(grown) = 1..MaxCacheSize
          /\ DOMAIN grown = 1..(MaxCacheSize + 1)
          /\ \A i \in 1..MaxCacheSize : Tail(grown)[i] = grown[i + 1]
      BY <1>1, <2>1, <2>2, <2>6 DEF Evict
    <3>2. ASSUME NEW k \in PacketKeys, k \notin OwnKeys', Remembered(k, lowTtl)' PROVE Kept(k)'
      <4>1. PICK i \in DOMAIN grown :
                /\ grown[i] = k
                /\ \A j \in DOMAIN grown : j > i => \E d \in since'[k] : MarkedKey(d) = grown[j]
        BY <2>4, <3>2
      \* Were k the oldest, a call would have come for each place behind it.
      <4>2. i # 1
        <5>. SUFFICES ASSUME i = 1 PROVE FALSE
          OBVIOUS
        <5>. DEFINE A == 2..(MaxCacheSize + 1)
                    by == [j \in A |-> CHOOSE d \in since'[k] : MarkedKey(d) = grown[j]]
        <5>1. \A j \in A : by[j] \in since'[k] /\ MarkedKey(by[j]) = grown[j]
          <6>1. \A j \in A : j \in DOMAIN grown /\ j > i
            BY <1>1, <3>1
          <6>2. \A j \in A : \E d \in since'[k] : MarkedKey(d) = grown[j]
            BY <4>1, <6>1
          <6>. QED  BY <6>2
        <5>2. \A j, l \in A : by[j] = by[l] => j = l
          <6>1. \A j \in A : j \in DOMAIN grown
            BY <1>1, <3>1
          <6>. HIDE DEF A, by
          <6>. QED  BY <2>3, <5>1, <6>1 DEF IsInjective
        <5>3. IsFiniteSet(since'[k])
          BY <1>1, <1>2, EngineTypeStep DEF EngineType, EngineNext, Handle
        <5>4. IsFiniteSet(A) /\ Cardinality(A) = MaxCacheSize
          <6>1. \A n \in Nat : IsFiniteSet(2..n) /\ Cardinality(2..n) = IF 2 > n THEN 0 ELSE n - 2 + 1
            BY FS_Interval
          <6>. QED  BY <1>1, <6>1
        <5>5. by \in [A -> since'[k]]
          BY <5>1
        <5>6. Cardinality(since'[k]) < MaxCacheSize
          BY <1>2, <3>2 DEF Remembered
        <5>. HIDE DEF A, by
        <5>7. \E j, l \in A : j # l /\ by[j] = by[l]
          BY <5>3, <5>4, <5>5, <5>6, FS_PigeonHole
        <5>. QED  BY <5>2, <5>7
      <4>3. i - 1 \in 1..MaxCacheSize /\ Tail(grown)[i - 1] = k
        BY <1>1, <3>1, <4>1, <4>2
      <4>4. ASSUME NEW j \in 1..MaxCacheSize, j > i - 1
            PROVE  \E d \in since'[k] : MarkedKey(d) = Tail(grown)[j]
        <5>1. j + 1 \in DOMAIN grown /\ j + 1 > i /\ Tail(grown)[j] = grown[j + 1]
          BY <1>1, <3>1, <4>1, <4>4
        <5>. QED  BY <4>1, <5>1
      <4>. QED  BY <1>2, <3>1, <4>3, <4>4 DEF Kept
    <3>. QED  BY <1>2, <1>3, <3>2 DEF CacheInv
  <2>. QED  BY <2>5, <2>6
<1>. QED  BY <1>9, <1>10

\* What is forgotten had expired.
LEMMA CacheCleanup ==
    ASSUME EngineType, CacheInv, CleanupCache
    PROVE  CacheInv'
<1> DEFINE gone == {k \in PacketKeys : Expired(k)}
<1>1. /\ seenPackets' = OutOf(seenPackets, gone) /\ seenPackets \in Seq(PacketKeys)
      /\ UNCHANGED <<load, call, age, since, lowTtl>>
  BY DEF CleanupCache, EngineType, histories
<1>2. /\ PacketKeys' = PacketKeys /\ Calls' = Calls /\ Local' = Local
      /\ \A d : Hash(d)' = Hash(d) /\ MarkedKey(d)' = MarkedKey(d)
  BY <1>1, SameTraffic
<1>3. OwnKeys' = OwnKeys
  BY <1>1, <1>2 DEF OwnKeys
<1>4. IsInjective(seenPackets')
  BY CleanupFacts DEF CacheInv
<1>5. ASSUME NEW k \in PacketKeys, k \notin OwnKeys, Remembered(k, lowTtl) PROVE Kept(k)'
  <2>1. k \notin gone
    <3>1. age[k] \in 0..MaxAge /\ age[k] <= lowTtl /\ lowTtl <= ttl /\ lowTtl \in Nat /\ ttl \in Nat
          /\ MaxAge \in Nat
      BY <1>5, RepeaterAssumption DEF Remembered, EngineType
    <3>. QED  BY <3>1 DEF Expired
  <2>2. PICK i \in DOMAIN seenPackets :
            /\ seenPackets[i] = k
            /\ \A j \in DOMAIN seenPackets :
                  j > i => \E d \in since[k] : MarkedKey(d) = seenPackets[j]
    BY <1>5 DEF CacheInv, Kept
  <2>. HIDE DEF gone
  <2>3. PICK m \in DOMAIN OutOf(seenPackets, gone) :
            /\ OutOf(seenPackets, gone)[m] = seenPackets[i]
            /\ \A n \in DOMAIN OutOf(seenPackets, gone) :
                  n > m => \E j \in DOMAIN seenPackets :
                              j > i /\ OutOf(seenPackets, gone)[n] = seenPackets[j]
    BY <1>1, <2>1, <2>2, OutOfOrder
  <2>4. \A n \in DOMAIN seenPackets' : n > m => \E d \in since[k] : MarkedKey(d) = seenPackets'[n]
    BY <1>1, <2>2, <2>3
  <2>. QED  BY <1>1, <1>2, <2>2, <2>3, <2>4 DEF Kept
<1>6. \A k \in PacketKeys : Remembered(k, lowTtl)' => Remembered(k, lowTtl)
  BY <1>1 DEF Remembered
<1>. QED  BY <1>2, <1>3, <1>4, <1>5, <1>6 DEF CacheInv


\* The other steps: only a reload and the clock change what is remembered, and
\* both for less.
LEMMA CacheStep ==
    ASSUME EngineType, CacheInv, EngineNext
    PROVE  CacheInv'
<1>. USE RepeaterAssumption
<1>1. ASSUME NEW c \in Calls, UNCHANGED <<load, cacheVars, histories>>,
             call' = [call EXCEPT ![c] = "done"]
      PROVE  CacheInv'
  <2>1. OwnKeys \subseteq OwnKeys'
    BY <1>1, OwnStays DEF EngineType
  <2>2. \A k \in PacketKeys : Remembered(k, lowTtl)' => Remembered(k, lowTtl)
    BY <1>1 DEF Remembered, cacheVars, histories
  <2>. QED  BY <1>1, <2>1, <2>2, CacheStays DEF cacheVars, histories
<1>2. ASSUME NEW c \in Calls, NEW allow \in BOOLEAN, Refuse(c, allow) PROVE CacheInv'
  BY <1>1, <1>2 DEF Refuse, histories
<1>3. ASSUME NEW c \in Calls, NEW ok \in BOOLEAN, Finish(c, ok) \/ Raise(c) PROVE CacheInv'
  BY <1>1, <1>3 DEF Finish, Raise
<1>4. ASSUME NEW c \in Calls, Recorded(c) PROVE CacheInv'
  BY <1>1, <1>4 DEF Recorded, LogDuplicate, RecordOnly
<1>5. ASSUME UNCHANGED <<load, call, seenPackets, since>>,
             \A k \in PacketKeys : Remembered(k, lowTtl)' => Remembered(k, lowTtl)
      PROVE  CacheInv'
  <2>1. OwnKeys \subseteq OwnKeys'
    BY <1>5, OwnStays
  <2>. QED  BY <1>5, <2>1, CacheStays
<1>6. ASSUME NEW t \in load.ttls, ReloadConfig(t) PROVE CacheInv'
  <2>1. lowTtl' <= lowTtl /\ lowTtl' \in Nat /\ lowTtl \in Nat /\ age' = age /\ since' = since
    BY <1>6 DEF ReloadConfig, EngineType, cacheVars
  <2>2. \A k \in PacketKeys : age[k] \in Nat
    BY DEF EngineType
  <2>3. \A k \in PacketKeys : Remembered(k, lowTtl)' => Remembered(k, lowTtl)
    BY <2>1, <2>2 DEF Remembered
  <2>. QED  BY <1>5, <1>6, <2>3 DEF ReloadConfig, cacheVars
<1>7. ASSUME NEW m, SetMode(m) PROVE CacheInv'
  BY <1>5, <1>7 DEF SetMode, cacheVars, histories, Remembered
<1>8. ASSUME NEW s \in ScopeNames, EditKey(s) PROVE CacheInv'
  BY <1>5, <1>8 DEF EditKey, cacheVars, Remembered
<1>9. CASE Tick
  <2>1. ASSUME NEW k \in PacketKeys, Remembered(k, lowTtl)' PROVE Remembered(k, lowTtl)
    <3>1. /\ age'[k] = Older(age[k]) /\ lowTtl' = lowTtl /\ since' = since /\ age[k] \in 0..MaxAge
          /\ lowTtl \in Nat /\ ttl \in Nat /\ MaxAge \in Nat /\ lowTtl < MaxAge
      BY <1>9 DEF Tick, EngineType
    <3>. QED  BY <2>1, <3>1 DEF Remembered, Older
  <2>. QED  BY <1>5, <1>9, <2>1 DEF Tick
<1>. QED
  BY <1>2, <1>3, <1>4, <1>6, <1>7, <1>8, <1>9, CacheBegin, CacheCleanup DEF EngineNext, Handle, Operate

---------------------------------------------------------------------------
(* Repeater: the transport keys *)

LEMMA ScopeStep ==
    ASSUME EngineType, ScopeInv, EngineNext
    PROVE  ScopeInv'
<1>. USE RepeaterAssumption
<1>1. load' = load /\ ScopeNames' = ScopeNames
  BY SameTraffic DEF EngineNext, Handle, Recorded, Operate, Begin, Refuse, Finish, Raise,
         LogDuplicate, RecordOnly, CleanupCache, ReloadConfig, SetMode, EditKey, Tick
<1>2. CASE UNCHANGED <<scopes, scopeCache, cacheAge, revoked>>
  BY <1>1, <1>2 DEF ScopeInv
<1>3. ASSUME NEW p, ReadScopes(p), UNCHANGED <<scopes, revoked>> PROVE ScopeInv'
  BY <1>1, <1>3 DEF ReadScopes, ScopeInv
<1>4. ASSUME NEW c \in Calls, NEW allow \in BOOLEAN, Begin(c, allow) \/ Refuse(c, allow)
      PROVE  ScopeInv'
  BY <1>2, <1>3, <1>4 DEF Begin, Refuse
<1>5. ASSUME NEW s \in ScopeNames, EditKey(s) PROVE ScopeInv'
  <2>1. ASSUME NEW u \in scopeCache PROVE u \in scopes' \/ (u \in ScopeNames /\ revoked'[u] <= cacheAge)
    <3>1. CASE u = s
      BY <1>5, <3>1 DEF EditKey, EngineType
    <3>2. CASE u # s
      BY <1>5, <2>1, <3>2 DEF EditKey, EngineType, ScopeInv
    <3>. QED  BY <3>1, <3>2
  <2>. QED  BY <1>1, <1>5, <2>1 DEF EditKey, ScopeInv
<1>6. CASE Tick
  <2>1. ASSUME NEW u \in scopeCache, u \notin scopes PROVE u \in ScopeNames /\ revoked'[u] <= cacheAge'
    <3>1. /\ u \in ScopeNames /\ revoked[u] \in 0..MaxAge /\ cacheAge \in 0..MaxAge
          /\ revoked[u] <= cacheAge /\ revoked'[u] = Older(revoked[u]) /\ cacheAge' = Older(cacheAge)
      BY <1>6, <2>1 DEF Tick, EngineType, ScopeInv
    <3>. QED  BY <3>1 DEF Older
  <2>. QED  BY <1>1, <1>6, <2>1 DEF Tick, ScopeInv
<1>7. CASE CleanupCache
  BY <1>2, <1>7 DEF CleanupCache, keyVars, histories
<1>8. ASSUME NEW c \in Calls, NEW ok \in BOOLEAN, Finish(c, ok) \/ Raise(c) PROVE ScopeInv'
  BY <1>2, <1>8 DEF Finish, Raise, keyVars, histories
<1>9. ASSUME NEW t, ReloadConfig(t) PROVE ScopeInv'
  BY <1>2, <1>9 DEF ReloadConfig, keyVars
<1>10. ASSUME NEW m, SetMode(m) PROVE ScopeInv'
  BY <1>2, <1>10 DEF SetMode, keyVars, histories
<1>11. ASSUME NEW c \in Calls, Recorded(c) PROVE ScopeInv'
  BY <1>2, <1>11 DEF Recorded, LogDuplicate, RecordOnly, keyVars, histories
<1>. QED
  BY <1>4, <1>5, <1>6, <1>7, <1>8, <1>9, <1>10, <1>11 DEF EngineNext, Handle, Operate


---------------------------------------------------------------------------
(* Repeater: the records *)

\* Record i is the latest of recent with hash k.
Latest(i, k) ==
    /\ i \in DOMAIN recent /\ Hash(recent[i]) = k
    /\ \A j \in DOMAIN recent : Hash(recent[j]) = k => j <= i

\* What IndexAligned says, without the sets.
LEMMA Aligned ==
    IndexAligned <=>
        \A k \in PacketKeys :
            /\ (\A i \in DOMAIN recent : Hash(recent[i]) # k) => index[k] = NoCall
            /\ (\E i \in DOMAIN recent : Hash(recent[i]) = k) =>
                  \E i \in DOMAIN recent : Latest(i, k) /\ index[k] = recent[i]
<1>1. ASSUME NEW k \in PacketKeys
      PROVE  (LET at == {i \in DOMAIN recent : Hash(recent[i]) = k}
              IN IF at = {} THEN index[k] = NoCall
                 ELSE \E i \in at : index[k] = recent[i] /\ \A j \in at : j <= i)
             <=>
             /\ (\A i \in DOMAIN recent : Hash(recent[i]) # k) => index[k] = NoCall
             /\ (\E i \in DOMAIN recent : Hash(recent[i]) = k) =>
                   \E i \in DOMAIN recent : Latest(i, k) /\ index[k] = recent[i]
  <2> DEFINE at == {i \in DOMAIN recent : Hash(recent[i]) = k}
  <2>1. at = {} <=> \A i \in DOMAIN recent : Hash(recent[i]) # k
    OBVIOUS
  <2>2. ASSUME NEW i
        PROVE  i \in at /\ (\A j \in at : j <= i) <=> Latest(i, k)
    BY DEF Latest
  <2>. QED  BY <2>1, <2>2 DEF Latest
<1>. QED  BY <1>1 DEF IndexAligned

\* What the index finds is a record of the recent list with that hash.
LEMMA IndexFinds ==
    ASSUME IndexAligned, NEW k \in PacketKeys, index[k] # NoCall
    PROVE  index[k] \in Elems(recent) /\ Hash(index[k]) = k
BY Aligned DEF Latest, Elems

\* The oldest record goes, with its index entry.
LEMMA OldestGoes ==
    ASSUME EngineType, IsInjective(recent), IndexAligned, recent # <<>>, NEW k \in PacketKeys
    PROVE  LET rest == Tail(recent) kept == Unindex(index, Head(recent)) IN
           /\ (\A i \in DOMAIN rest : Hash(rest[i]) # k) => kept[k] = NoCall
           /\ (\E i \in DOMAIN rest : Hash(rest[i]) = k) =>
                 \E i \in DOMAIN rest :
                     /\ Hash(rest[i]) = k /\ kept[k] = rest[i]
                     /\ \A j \in DOMAIN rest : Hash(rest[j]) = k => j <= i
<1> DEFINE rest == Tail(recent)
           kept == Unindex(index, Head(recent))
<1>1. /\ recent \in Seq(Calls) /\ index \in [PacketKeys -> Calls \cup {NoCall}]
      /\ Len(recent) \in Nat \ {0} /\ DOMAIN recent = 1..Len(recent)
      /\ DOMAIN rest = 1..(Len(recent) - 1) /\ Head(recent) = recent[1]
      /\ \A i \in DOMAIN rest : i + 1 \in DOMAIN recent /\ rest[i] = recent[i + 1]
  BY DEF EngineType
<1>2. \A i \in DOMAIN recent : i # 1 => i - 1 \in DOMAIN rest /\ rest[i - 1] = recent[i]
  BY <1>1
<1>3. recent[1] \in Calls /\ Hash(recent[1]) \in PacketKeys
  BY <1>1, KeysMarked
<1>4. kept[k] = IF index[k] = recent[1] /\ k = Hash(recent[1]) THEN NoCall ELSE index[k]
  BY <1>1, <1>3 DEF Unindex
<1>. HIDE DEF rest, kept
<1>5. CASE \A i \in DOMAIN recent : Hash(recent[i]) # k
  <2>1. kept[k] = NoCall
    BY <1>4, <1>5, Aligned
  <2>2. \A i \in DOMAIN rest : Hash(rest[i]) # k
    BY <1>1, <1>5
  <2>. QED  BY <2>1, <2>2 DEF rest, kept
<1>6. CASE \E i \in DOMAIN recent : Hash(recent[i]) = k
  <2>1. PICK i \in DOMAIN recent : Latest(i, k) /\ index[k] = recent[i]
    BY <1>6, Aligned
  <2>2. CASE i = 1
    <3>1. kept[k] = NoCall
      BY <1>4, <2>1, <2>2 DEF Latest
    <3>2. \A j \in DOMAIN rest : Hash(rest[j]) # k
      BY <1>1, <2>1, <2>2 DEF Latest
    <3>. QED  BY <3>1, <3>2 DEF rest, kept
  <2>3. CASE i # 1
    <3>1. kept[k] = recent[i]
      <4>1. recent[i] # recent[1]
        BY <1>1, <2>3 DEF IsInjective
      <4>. QED  BY <1>4, <2>1, <4>1
    <3>2. i - 1 \in DOMAIN rest /\ rest[i - 1] = recent[i] /\ Hash(rest[i - 1]) = k
      BY <1>2, <2>1, <2>3 DEF Latest
    <3>3. \A j \in DOMAIN rest : Hash(rest[j]) = k => j <= i - 1
      BY <1>1, <2>1 DEF Latest
    <3>. QED  BY <3>1, <3>2, <3>3 DEF rest, kept
  <2>. QED  BY <2>2, <2>3
<1>. QED  BY <1>5, <1>6 DEF rest, kept

\* A call that ends is recorded where the index says.
LEMMA RecordStep ==
    ASSUME EngineType, FileInv, load' = load,
           NEW c \in Calls, Ends(c), Filed(c)
    PROVE  FileInv'
<1>. USE RepeaterAssumption
<1>1. /\ recent \in Seq(Calls) /\ index \in [PacketKeys -> Calls \cup {NoCall}]
      /\ dups \in [Calls -> SUBSET Calls] /\ flagged \subseteq Calls
      /\ \A o \in Calls : IsFiniteSet(dups[o])
      /\ Hash(c) \in PacketKeys /\ MaxRecent \in Nat \ {0} /\ MaxDuplicates \in Nat
      /\ \A d \in Calls : call'[d] = IF d = c THEN "done" ELSE call[d]
      /\ load.dedup' = load.dedup
  BY KeysMarked DEF EngineType, Ends
<1>2. /\ Calls' = Calls /\ PacketKeys' = PacketKeys /\ \A d : Hash(d)' = Hash(d)
  BY SameTraffic
<1>3. c \notin Elems(recent) /\ \A o, d \in Calls : d \in dups[o] => d # c
  BY DEF FileInv, Ends
<1>4. flagged \subseteq flagged'
  BY DEF Ends
<1>5. \A d \in Elems(recent) : d \in Calls
  BY <1>1 DEF Elems
<1>6. ASSUME NEW limited \in BOOLEAN, Attach(c, limited) /\ index[Hash(c)] # NoCall,
             c \in flagged', limited \/ load.dedup
      PROVE  FileInv'
  <2> DEFINE o == index[Hash(c)]
  <2>1. o \in Calls /\ o \in Elems(recent) /\ Hash(o) = Hash(c)
    BY <1>1, <1>6, IndexFinds DEF FileInv
  <2>. HIDE DEF o
  <2>2. /\ recent' = recent /\ index' = index
        /\ dups' = IF limited => RoomFor(o) THEN [dups EXCEPT ![o] = @ \cup {c}] ELSE dups
    BY <1>6 DEF Attach, o
  <2>3. IsInjective(recent') /\ \A d \in Elems(recent') : call'[d] = "done"
    BY <1>1, <1>5, <2>2 DEF FileInv, Elems
  <2>4. IndexAligned'
    BY <1>2, <2>2 DEF FileInv, IndexAligned
  <2>5. \A q, d \in Calls : d \in dups'[q] => d \in dups[q] \/ (q = o /\ d = c)
    BY <1>1, <2>1, <2>2
  <2>6. ASSUME NEW q \in Calls, dups[q] # {}
        PROVE  load.dedup \/ Cardinality(dups[q]) <= MaxDuplicates
    BY <1>1, <2>6 DEF FileInv, FiledOnce
  <2>7. \A q \in Calls : dups'[q] # {} => load.dedup \/ Cardinality(dups'[q]) <= MaxDuplicates
    <3>1. \A q \in Calls : q # o => dups'[q] = dups[q]
      BY <1>1, <2>2
    <3>2. CASE RoomFor(o)
      <4>1. dups'[o] = dups[o] \cup {c}
        BY <1>1, <2>1, <2>2, <3>2
      <4>2. Cardinality(dups[o]) < MaxDuplicates
        BY <3>2 DEF RoomFor
      <4>3. /\ Cardinality(dups[o]) \in Nat
            /\ Cardinality(dups[o] \cup {c}) \in {Cardinality(dups[o]), Cardinality(dups[o]) + 1}
        BY <1>1, <2>1, FS_AddElement, FS_CardinalityType
      <4>4. Cardinality(dups'[o]) <= MaxDuplicates
        BY <1>1, <4>1, <4>2, <4>3
      <4>. QED  BY <2>6, <3>1, <4>4
    <3>3. CASE limited /\ ~RoomFor(o)
      BY <2>2, <2>6, <3>3
    <3>. QED  BY <1>6, <3>2, <3>3
  <2>8. ASSUME NEW q \in Calls, NEW d \in Calls, d \in dups'[q]
        PROVE  /\ call'[d] = "done"
               /\ Hash(d) = Hash(q) /\ d \in flagged' /\ d \notin Elems(recent)
               /\ \A r \in Calls : d \in dups'[r] => r = q
    <3>1. CASE d = c
      BY <1>1, <1>3, <1>6, <2>1, <2>5, <2>8, <3>1
    <3>2. CASE d # c
      <4>1. d \in dups[q] /\ \A r \in Calls : d \in dups'[r] => d \in dups[r]
        BY <2>5, <2>8, <3>2
      <4>2. /\ call[d] = "done" /\ Hash(d) = Hash(q) /\ d \in flagged /\ d \notin Elems(recent)
            /\ \A r \in Calls : d \in dups[r] => r = q
        BY <4>1 DEF FileInv, FiledOnce
      <4>. QED  BY <1>1, <1>4, <3>2, <4>1, <4>2
    <3>. QED  BY <3>1, <3>2
  <2>9. Elems(recent)' = Elems(recent)
    BY <2>2 DEF Elems
  <2>10. FiledOnce'
    BY <1>1, <1>2, <2>7, <2>8, <2>9 DEF FiledOnce
  <2>11. \A q, d \in Calls' : d \in dups'[q] => call'[d] = "done"
    BY <1>2, <2>8
  <2>. QED  BY <2>3, <2>4, <2>9, <2>10, <2>11 DEF FileInv
<1>7. CASE AppendRecent(c)
  <2> DEFINE full == Len(recent) >= MaxRecent
             rest == IF full THEN Tail(recent) ELSE recent
             kept == IF full THEN Unindex(index, Head(recent)) ELSE index
  <2>1. recent' = Append(rest, c) /\ index' = [kept EXCEPT ![Hash(c)] = c] /\ dups' = dups
    BY <1>7 DEF AppendRecent
  <2>2. full => recent # <<>>
    BY <1>1
  <2>3. /\ rest \in Seq(Calls) /\ IsInjective(rest) /\ ToSet(rest) \subseteq ToSet(recent)
    BY <1>1, <2>2, TailFacts DEF FileInv
  <2>4. kept \in [PacketKeys -> Calls \cup {NoCall}]
    BY <1>1 DEF Unindex
  <2>5. ASSUME NEW k \in PacketKeys
        PROVE  /\ (\A i \in DOMAIN rest : Hash(rest[i]) # k) => kept[k] = NoCall
               /\ (\E i \in DOMAIN rest : Hash(rest[i]) = k) =>
                     \E i \in DOMAIN rest :
                         /\ Hash(rest[i]) = k /\ kept[k] = rest[i]
                         /\ \A j \in DOMAIN rest : Hash(rest[j]) = k => j <= i
    <3>1. CASE full
      BY <2>2, <3>1, OldestGoes DEF FileInv
    <3>2. CASE ~full
      BY <3>2, Aligned DEF FileInv, Latest
    <3>. QED  BY <3>1, <3>2
  <2>. HIDE DEF full, rest, kept
  <2>6. /\ IsInjective(recent') /\ ToSet(recent') = ToSet(rest) \cup {c}
    <3>1. c \notin ToSet(rest)
      BY <1>3, <2>3, ElemsToSet
    <3>. QED  BY <2>1, <2>3, <3>1, AppendFacts
  <2>7. /\ DOMAIN rest = 1..Len(rest) /\ DOMAIN recent' = 1..(Len(rest) + 1) /\ Len(rest) \in Nat
        /\ recent'[Len(rest) + 1] = c /\ \A i \in DOMAIN rest : recent'[i] = rest[i]
    BY <2>1, <2>3
  <2>8. ASSUME NEW k \in PacketKeys
        PROVE  /\ (\A i \in DOMAIN recent' : Hash(recent'[i]) # k) => index'[k] = NoCall
               /\ (\E i \in DOMAIN recent' : Hash(recent'[i]) = k) =>
                     \E i \in DOMAIN recent' :
                         /\ Hash(recent'[i]) = k /\ index'[k] = recent'[i]
                         /\ \A j \in DOMAIN recent' : Hash(recent'[j]) = k => j <= i
    <3>1. CASE k = Hash(c)
      <4>1. index'[k] = c /\ Len(rest) + 1 \in DOMAIN recent'
        BY <1>1, <2>1, <2>4, <2>7, <3>1
      <4>2. \A j \in DOMAIN recent' : j <= Len(rest) + 1
        BY <2>7
      <4>. QED  BY <2>7, <3>1, <4>1, <4>2
    <3>2. CASE k # Hash(c)
      <4>1. index'[k] = kept[k]
        BY <1>1, <2>1, <2>4, <3>2
      <4>2. \A i \in DOMAIN recent' : Hash(recent'[i]) = k => i \in DOMAIN rest /\ recent'[i] = rest[i]
        BY <2>7, <3>2
      <4>3. \A i \in DOMAIN rest : i \in DOMAIN recent'
        BY <2>7
      <4>. QED  BY <2>5, <2>7, <4>1, <4>2, <4>3
    <3>. QED  BY <3>1, <3>2
  <2>9. IndexAligned'
    <3> DEFINE at(k) == {i \in DOMAIN recent' : Hash(recent'[i]) = k}
    <3>1. ASSUME NEW k \in PacketKeys
          PROVE  IF at(k) = {} THEN index'[k] = NoCall
                 ELSE \E i \in at(k) : index'[k] = recent'[i] /\ \A j \in at(k) : j <= i
      BY <2>8
    <3>. QED  BY <1>2, <3>1 DEF IndexAligned
  <2>10. \A d \in Elems(recent)' : d \in Elems(recent) \/ d = c
    BY <2>3, <2>6, ElemsToSet DEF Elems, ToSet
  <2>11. \A d \in Elems(recent)' : call'[d] = "done"
    BY <1>1, <1>5, <2>10 DEF FileInv
  <2>12. FiledOnce'
    BY <1>1, <1>2, <1>3, <1>4, <2>1, <2>10 DEF FileInv, FiledOnce
  <2>13. \A q, d \in Calls' : d \in dups'[q] => call'[d] = "done"
    BY <1>1, <1>2, <2>1 DEF FileInv
  <2>. QED  BY <2>6, <2>9, <2>11, <2>12, <2>13 DEF FileInv
<1>. QED  BY <1>6, <1>7 DEF Filed

LEMMA FileStep ==
    ASSUME EngineType, FileInv, EngineNext
    PROVE  FileInv'
<1>1. ASSUME UNCHANGED <<load, recent, index, dups>>, flagged \subseteq flagged',
             \A c \in Calls : call[c] = "done" => call'[c] = "done"
      PROVE  FileInv'
  <2>1. \A c \in Elems(recent) : c \in Calls
    BY DEF EngineType, Elems
  <2>2. IndexAligned' /\ FiledOnce'
    BY <1>1, SameTraffic DEF FileInv, IndexAligned, FiledOnce, Elems
  <2>3. \A c \in Elems(recent)' : call'[c] = "done"
    BY <1>1, <2>1 DEF FileInv, Elems
  <2>. QED  BY <1>1, <2>2, <2>3, SameTraffic DEF FileInv
<1>2. ASSUME NEW c \in Calls, NEW allow \in BOOLEAN, Begin(c, allow) PROVE FileInv'
  BY <1>1, <1>2 DEF Begin, fileVars, EngineType
<1>3. ASSUME NEW c \in Calls, Ends(c), load' = load PROVE FileInv'
  <2>1. CASE Filed(c)
    BY <1>3, <2>1, RecordStep
  <2>2. CASE UNCHANGED <<recent, index, dups>>
    BY <1>1, <1>3, <2>2 DEF Ends, EngineType
  <2>. QED  BY <1>3, <2>1, <2>2 DEF Ends
<1>4. ASSUME NEW c \in Calls, NEW allow \in BOOLEAN, Refuse(c, allow) PROVE FileInv'
  BY <1>3, <1>4, CallsEnd DEF Refuse
<1>5. ASSUME NEW c \in Calls, NEW ok \in BOOLEAN, Finish(c, ok) \/ Raise(c) PROVE FileInv'
  BY <1>3, <1>5, CallsEnd DEF Finish, Raise
<1>6. CASE CleanupCache
  BY <1>1, <1>6 DEF CleanupCache, fileVars
<1>7. CASE Operate
  BY <1>1, <1>7 DEF Operate, ReloadConfig, SetMode, EditKey, fileVars
<1>8. CASE Tick
  BY <1>1, <1>8 DEF Tick, fileVars
<1>9. ASSUME NEW c \in Calls, Recorded(c) PROVE FileInv'
  BY <1>3, <1>9, CallsEnd DEF Recorded, LogDuplicate, RecordOnly
<1>. QED  BY <1>2, <1>4, <1>5, <1>6, <1>7, <1>8, <1>9 DEF EngineNext, Handle


---------------------------------------------------------------------------
(* Repeater: the theorems *)

LEMMA EngineInitInv == EngineInit => EngineInv
<1>. SUFFICES ASSUME EngineInit PROVE EngineInv
  OBVIOUS
<1>. USE RepeaterAssumption
<1>1. EngineType
  BY EngineTypeInit
<1>2. CacheInv
  BY DEF EngineInit, CacheInv, IsInjective, Remembered
<1>3. ScopeInv
  BY DEF EngineInit, ScopeInv
<1>4. FileInv
  <2>1. IndexAligned
    BY Aligned DEF EngineInit
  <2>2. FiledOnce
    BY DEF EngineInit, FiledOnce
  <2>. QED  BY <2>1, <2>2 DEF EngineInit, FileInv, IsInjective, Elems
<1>. QED  BY <1>1, <1>2, <1>3, <1>4 DEF EngineInv

LEMMA EngineStep == EngineInv /\ [EngineNext]_engineVars => EngineInv'
<1>. SUFFICES ASSUME EngineInv, [EngineNext]_engineVars PROVE EngineInv'
  OBVIOUS
<1>1. CASE EngineNext
  BY <1>1, EngineTypeStep, CacheStep, ScopeStep, FileStep DEF EngineInv
<1>2. CASE UNCHANGED engineVars
  <2>1. /\ UNCHANGED <<load, call, mode, seenPackets, age, ttl, scopes, scopeCache, cacheAge>>
        /\ UNCHANGED <<recent, index, dups, flagged, since, lowTtl, revoked>>
    BY <1>2 DEF engineVars, cacheVars, keyVars, fileVars, histories
  <2>2. EngineType'
    BY <2>1, SameTraffic DEF EngineInv, EngineType
  <2>3. CacheInv'
    BY <2>1, SameTraffic DEF EngineInv, CacheInv, Kept, OwnKeys, Remembered
  <2>4. ScopeInv'
    BY <2>1, SameTraffic DEF EngineInv, ScopeInv
  <2>5. FileInv'
    BY <2>1, SameTraffic DEF EngineInv, FileInv, IndexAligned, FiledOnce, Elems
  <2>. QED  BY <2>2, <2>3, <2>4, <2>5 DEF EngineInv
<1>. QED  BY <1>1, <1>2

\* One engine keeps its types and the inductive invariant: the cache its order,
\* the keys that were revoked their age, the records their places
\* (RepeaterHandler).
THEOREM EngineInvariance == EngineSpec => []EngineInv
BY EngineInitInv, EngineStep, PTL DEF EngineSpec

\* For any traffic, cache and list sizes, ages and reloads: the hash index names
\* the latest record of each hash in the recent list, and a record is filed once
\* (_append_recent_packet, and the end of __call__).
THEOREM RecordsAlwaysFiled == EngineSpec => []RecordsFiled
<1>1. EngineInv => RecordsFiled
  BY DEF EngineInv, FileInv, RecordsFiled
<1>. QED  BY <1>1, EngineInvariance, PTL

\* A step that relays is a call that begins.
LEMMA RelayBegins ==
    ASSUME EngineType, EngineNext, NEW c \in Calls, NEW k, Relays(c, k)
    PROVE  /\ Accepts(Me, Pkt[c], Elems(seenPackets), ScopesSeen)
           /\ Key(Pkt[c]) \notin Elems(seenPackets)
<1>1. call[c] = "idle" /\ call'[c] = "sending" /\ c \notin Local
  BY DEF Relays
<1>2. PICK d \in Calls, allow \in BOOLEAN : Begin(d, allow) /\ d = c
  <2>1. ASSUME NEW d \in Calls, call' = [call EXCEPT ![d] = "done"] PROVE FALSE
    BY <1>1, <2>1 DEF EngineType
  <2>2. ASSUME NEW d \in Calls, NEW allow \in BOOLEAN, Begin(d, allow) PROVE d = c
    BY <1>1, <2>2 DEF Begin, EngineType
  <2>3. \E d \in Calls, allow \in BOOLEAN : Begin(d, allow)
    BY <1>1, <2>1 DEF EngineNext, Handle, Recorded, Operate, Refuse, Finish, Raise, LogDuplicate,
           RecordOnly, CleanupCache, ReloadConfig, SetMode, EditKey, Tick
  <2>. QED  BY <2>2, <2>3
<1>3. Accepts(Me, Pkt[c], Elems(seenPackets), ScopesSeen)
  BY <1>1, <1>2 DEF Begin, MayRelay, MaySend
<1>. QED  BY <1>3 DEF Accepts, CanFlood, CanDirect

\* A packet is not relayed again while fewer keys have come than the cache holds
\* and its entry is younger than any cache_ttl there has been, whatever cleanups,
\* reloads, refusals and failed transmissions come between (mark_seen,
\* cleanup_cache, reload_runtime_config).
THEOREM NeverEarly == EngineSpec => NoEarlyRelay
<1>1. EngineInv /\ [EngineNext]_engineVars =>
         [\A c \in Calls : \A k \in PacketKeys \ OwnKeys :
             Relays(c, k) => ~Remembered(k, lowTtl)]_engineVars
  <2>. SUFFICES ASSUME EngineInv, EngineNext, NEW c \in Calls, NEW k \in PacketKeys \ OwnKeys,
                       Relays(c, k), Remembered(k, lowTtl)
                PROVE  FALSE
    OBVIOUS
  <2>1. k \in Elems(seenPackets)
    BY DEF EngineInv, CacheInv, Kept, Elems
  <2>2. k = Key(Pkt[c])
    BY DEF Relays
  <2>. QED  BY <2>1, <2>2, RelayBegins DEF EngineInv
<1>. QED  BY <1>1, EngineInvariance, PTL DEF EngineSpec, NoEarlyRelay

\* A scoped flood is relayed under a key that allows it, or did until a revocation
\* no older than the key cache, however edits and calls overlap
\* (_check_transport_codes).
THEOREM ScopesObeyed == EngineSpec => ScopeObeyed
<1>1. EngineInv /\ [EngineNext]_engineVars =>
         [\A c \in Calls : \A k \in PacketKeys :
             Relays(c, k) /\ Pkt[c].route = "tflood" =>
                 \/ Pkt[c].scope \in scopes
                 \/ /\ Pkt[c].scope \in ScopeNames
                    /\ revoked[Pkt[c].scope] <= KeyTtl]_engineVars
  <2>. SUFFICES ASSUME EngineInv, EngineNext, NEW c \in Calls, NEW k \in PacketKeys,
                       Relays(c, k), Pkt[c].route = "tflood", Pkt[c].scope \notin scopes
                PROVE  Pkt[c].scope \in ScopeNames /\ revoked[Pkt[c].scope] <= KeyTtl
    OBVIOUS
  <2>1. Pkt[c].scope \in ScopesSeen
    BY RelayBegins DEF EngineInv, Accepts, IsFlood, CanFlood, ScopeAllows
  <2>2. ~CacheStale /\ Pkt[c].scope \in scopeCache
    BY <2>1 DEF ScopesSeen
  <2>3. Pkt[c].scope \in ScopeNames /\ revoked[Pkt[c].scope] <= cacheAge
    BY <2>2 DEF EngineInv, ScopeInv
  <2>4. /\ revoked[Pkt[c].scope] \in Nat /\ cacheAge \in Nat /\ KeyTtl \in Nat
        /\ cacheAge <= KeyTtl
    BY <2>2, <2>3, RepeaterAssumption DEF EngineInv, EngineType, CacheStale
  <2>. QED  BY <2>3, <2>4
<1>. QED  BY <1>1, EngineInvariance, PTL DEF EngineSpec, ScopeObeyed
=============================================================================
