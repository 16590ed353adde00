---------------------------- MODULE CompaniesProofs ----------------------------
(***************************************************************************)
(* For any number of squads: a grouping shares them out among at most      *)
(* three companies, and the scouts and the turns stay with their members.  *)
(*                                                                         *)
(* The first section is about the line: a squad has one place in it, and   *)
(* the places on duty are counted without a gap.  The second cuts it into  *)
(* chunks, the third numbers them, and the last follows the actions.       *)
(***************************************************************************)
EXTENDS Companies, FiniteSetTheorems, WellFoundedInduction, TLAPS

-----------------------------------------------------------------------------
LEMMA SquadsAreNumbers ==
    /\ Squad \subseteq Nat /\ None \notin Squad /\ Squad # {} /\ IsFiniteSet(Squad)
    /\ Cardinality(Squad) \in Nat /\ MaxChanges \in Nat
BY SquadAssumption, FS_CardinalityType DEF None

LEMMA MinIs ==
    ASSUME NEW S, S \subseteq Nat, S # {}
    PROVE  Min(S) \in S /\ \A y \in S : Min(S) <= y
<1>1. PICK m \in S : \A y \in S : ~ (<<y, m>> \in OpToRel(<, Nat))
  BY NatLessThanWellFounded, WFMin
<1>2. \A y \in S : m <= y
  <2> TAKE y \in S
  <2>1. y \in Nat /\ m \in Nat
    OBVIOUS
  <2>2. <<y, m>> \in OpToRel(<, Nat) <=> y < m
    BY <2>1 DEF OpToRel
  <2>3. ~(y < m)
    BY <1>1, <2>2
  <2> QED BY <2>1, <2>3
<1>3. \E x \in S : \A y \in S : x =< y
  BY <1>2
<1> QED BY <1>3 DEF Min

(* The line.                                                               *)
Places == 1..Cardinality(Squad)

LEMMA PlacesAre ==
    /\ IsFiniteSet(Places) /\ Cardinality(Places) = Cardinality(Squad) /\ Places \subseteq Nat
BY SquadsAreNumbers, FS_Interval DEF Places

LEMMA OnePlaceEach ==
    ASSUME EveryoneInLine, NEW p \in Places, NEW q \in Places, line[p] = line[q]
    PROVE  p = q
<1>1. line \in Surjection(Places, Squad)
  BY DEF EveryoneInLine, Surjection, Places
<1>2. line \in Injection(Places, Squad)
  BY <1>1, PlacesAre, FS_SurjSameCardinalityImpliesInj
<1> QED BY <1>2 DEF Injection, IsInjective, EveryoneInLine, Places

LEMMA OnDutyIs ==
    ASSUME EveryoneInLine
    PROVE  /\ OnDuty \subseteq Places /\ IsFiniteSet(OnDuty) /\ Cardinality(OnDuty) \in Nat
           /\ \A p \in OnDuty : line[p] \in Squad
           /\ OnDuty # {} => Cardinality(OnDuty) # 0
<1>1. OnDuty \subseteq Places /\ \A p \in OnDuty : line[p] \in Squad
  BY DEF OnDuty, EveryoneInLine, Places
<1>2. IsFiniteSet(OnDuty)
  BY <1>1, PlacesAre, FS_Subset
<1> QED BY <1>1, <1>2, FS_CardinalityType, FS_EmptySet

(* The places on duty are counted from 0, without a gap.                   *)
LEMMA AheadCounts ==
    ASSUME EveryoneInLine, NEW p \in OnDuty
    PROVE  /\ Ahead(p) \in Nat /\ Ahead(p) < Cardinality(OnDuty)
           /\ \A q \in OnDuty : p < q => Ahead(p) < Ahead(q)
<1> DEFINE A(x) == {q \in OnDuty : q < x}
<1>1. \A x : IsFiniteSet(A(x)) /\ Cardinality(A(x)) \in Nat
  BY OnDutyIs, FS_Subset, FS_CardinalityType
<1>2. p \in Nat /\ OnDuty \subseteq Nat
  BY OnDutyIs, PlacesAre
<1>3. /\ IsFiniteSet(A(p) \cup {p})
      /\ Cardinality(A(p) \cup {p}) = Cardinality(A(p)) + 1
  BY <1>1, <1>2, FS_AddElement
<1>4. ASSUME NEW T, IsFiniteSet(T), A(p) \cup {p} \subseteq T
      PROVE  Cardinality(A(p)) < Cardinality(T)
  <2>1. Cardinality(A(p) \cup {p}) <= Cardinality(T)
    BY <1>4, FS_Subset
  <2>2. Cardinality(T) \in Nat /\ Cardinality(A(p)) \in Nat
    BY <1>1, <1>4, FS_CardinalityType
  <2> QED BY <1>3, <2>1, <2>2
<1>5. A(p) \cup {p} \subseteq OnDuty
  OBVIOUS
<1>6. ASSUME NEW q \in OnDuty, p < q PROVE A(p) \cup {p} \subseteq A(q)
  <2>1. \A x \in A(p) : x \in OnDuty /\ x \in Nat /\ x < p
    BY <1>2
  <2>2. \A x \in A(p) : x < q
    BY <1>2, <1>6, <2>1
  <2> QED BY <1>6, <2>1, <2>2
<1>7. \A x : Ahead(x) = Cardinality(A(x))
  BY DEF Ahead
<1> HIDE DEF A
<1>8. Ahead(p) < Cardinality(OnDuty)
  BY <1>4, <1>5, <1>7, OnDutyIs
<1>9. ASSUME NEW q \in OnDuty, p < q PROVE Ahead(p) < Ahead(q)
  BY <1>1, <1>4, <1>6, <1>7, <1>9
<1> QED BY <1>1, <1>7, <1>8, <1>9

LEMMA AheadTellsPlaces ==
    ASSUME EveryoneInLine, NEW p \in OnDuty, NEW q \in OnDuty, Ahead(p) = Ahead(q)
    PROVE  p = q
<1>1. p \in Nat /\ q \in Nat
  BY OnDutyIs, PlacesAre
<1>2. ~(p < q) /\ ~(q < p)
  BY AheadCounts
<1> QED BY <1>1, <1>2

-----------------------------------------------------------------------------
(* The chunks.                                                             *)

LEMMA IntervalIs ==
    ASSUME NEW a \in Int, NEW b \in Int, a <= b
    PROVE  IsFiniteSet(a..b) /\ Cardinality(a..b) = b - a + 1
<1>1. IsFiniteSet(a..b) /\ Cardinality(a..b) = IF a > b THEN 0 ELSE b - a + 1
  BY FS_Interval
<1>2. ~(a > b)
  OBVIOUS
<1> QED BY <1>1, <1>2

LEMMA Quotients ==
    ASSUME NEW a \in Nat, NEW b \in Nat, b # 0
    PROVE  LET k == a \div b IN k \in Nat /\ k * b <= a /\ a < k * b + b
OBVIOUS

LEMMA ChunkSizeIs ==
    ASSUME NEW n \in Nat, n # 0
    PROVE  LET size == ChunkSize(n) IN
           size \in Nat /\ size # 0 /\ 3 * size >= n /\ 3 * size <= n + 2
<1> DEFINE S == {3, n}
<1>1. Min(S) \in S /\ \A y \in S : Min(S) <= y
  <2>1. S \subseteq Nat /\ S # {}
    OBVIOUS
  <2> HIDE DEF S
  <2> QED BY <2>1, MinIs
<1>2. CASE n >= 3
  <2>1. Min(S) = 3
    BY <1>1, <1>2
  <2>2. ChunkSize(n) = (n + 3 - 1) \div 3
    BY <2>1 DEF ChunkSize, CeilDiv
  <2> QED BY <1>2, <2>2
<1>3. CASE n < 3
  <2>1. Min(S) = n
    BY <1>1, <1>3
  <2>2. ChunkSize(n) = (n + n - 1) \div n
    BY <2>1 DEF ChunkSize, CeilDiv
  <2>3. n = 1 \/ n = 2
    BY <1>3
  <2>4. ChunkSize(n) = 1
    BY <2>2, <2>3
  <2> QED BY <2>3, <2>4
<1> QED BY <1>2, <1>3

Size     == ChunkSize(Cardinality(OnDuty))
Part(p)  == Ahead(p) \div Size
Cut(k)   == {p \in OnDuty : Part(p) = k}
Chunk(k) == {line[q] : q \in Cut(k)}

LEMMA ClustersAre == Clusters = {Chunk(Part(p)) : p \in OnDuty}
BY DEF Clusters, Chunk, Cut, Part, Size

LEMMA SizeIs ==
    ASSUME EveryoneInLine, OnDuty # {}
    PROVE  /\ Size \in Nat /\ Size # 0 /\ Cardinality(OnDuty) \in Nat
           /\ 3 * Size >= Cardinality(OnDuty) /\ 3 * Size <= Cardinality(OnDuty) + 2
BY OnDutyIs, ChunkSizeIs DEF Size

LEMMA PartIs ==
    ASSUME EveryoneInLine, NEW p \in OnDuty
    PROVE  /\ Part(p) \in 0..2
           /\ Part(p) * Size <= Ahead(p) /\ Ahead(p) < Part(p) * Size + Size
<1> DEFINE n == Cardinality(OnDuty)
           a == Ahead(p)
           k == Part(p)
           b == Size
<1>1. /\ b \in Nat /\ b # 0 /\ n \in Nat /\ 3 * b >= n
  BY SizeIs
<1>2. a \in Nat /\ a < n
  BY AheadCounts
<1>3. k = a \div b
  BY DEF Part
<1> HIDE DEF n, a, k, b
<1>4. k \in Nat /\ k * b <= a /\ a < k * b + b
  BY <1>1, <1>2, <1>3, Quotients
<1>5. k < 3
  <2> SUFFICES ASSUME k >= 3 PROVE FALSE
    BY <1>4
  <2>1. k * b >= 3 * b
    <3>1. \A x, y \in Nat : x >= 3 => x * y >= 3 * y
      OBVIOUS
    <3> QED BY <1>1, <1>4, <3>1
  <2>2. k * b \in Nat
    <3>1. \A x, y \in Nat : x * y \in Nat
      OBVIOUS
    <3> QED BY <1>1, <1>4, <3>1
  <2> DEFINE kb == k * b
  <2>3. kb \in Nat /\ kb >= 3 * b /\ kb <= a
    BY <1>4, <2>1, <2>2
  <2> HIDE DEF kb
  <2> QED BY <1>1, <1>2, <2>3
<1> QED BY <1>4, <1>5 DEF a, k, b

(* No squad in two chunks, and none in a chunk that is not there.          *)
LEMMA ChunksShare ==
    ASSUME EveryoneInLine
    PROVE  /\ \A c \in Clusters : c # {} /\ c \subseteq Squad
           /\ \A c, d \in Clusters : c # d => c \cap d = {}
<1>1. ASSUME NEW p \in OnDuty
      PROVE  Chunk(Part(p)) # {} /\ Chunk(Part(p)) \subseteq Squad
  <2>1. p \in Cut(Part(p))
    BY DEF Cut
  <2> QED BY <2>1, OnDutyIs DEF Chunk, Cut
<1>2. ASSUME NEW p \in OnDuty, NEW q \in OnDuty,
             NEW s \in Chunk(Part(p)), s \in Chunk(Part(q))
      PROVE  Part(p) = Part(q)
  <2>1. PICK x \in Cut(Part(p)) : s = line[x]
    BY DEF Chunk
  <2>2. PICK y \in Cut(Part(q)) : s = line[y]
    BY <1>2 DEF Chunk
  <2>3. x \in Places /\ y \in Places /\ Part(x) = Part(p) /\ Part(y) = Part(q)
    BY OnDutyIs DEF Cut
  <2>4. x = y
    BY <2>1, <2>2, <2>3, OnePlaceEach
  <2> QED BY <2>3, <2>4
<1> QED BY <1>1, <1>2, ClustersAre

LEMMA AtMostThreeChunks ==
    ASSUME EveryoneInLine
    PROVE  IsFiniteSet(Clusters) /\ Cardinality(Clusters) \in 0..3
<1> DEFINE K == {Part(p) : p \in OnDuty}
           f == [k \in K |-> Chunk(k)]
<1>1. IsFiniteSet(0..2) /\ Cardinality(0..2) = 3
  <2>1. 0 \in Int /\ 2 \in Int /\ 0 <= 2
    OBVIOUS
  <2>2. IsFiniteSet(0..2) /\ Cardinality(0..2) = 2 - 0 + 1
    BY <2>1, IntervalIs, Zenon
  <2> QED BY <2>2
<1>2. IsFiniteSet(K) /\ Cardinality(K) <= 3 /\ Cardinality(K) \in Nat
  <2>1. K \in SUBSET (0..2)
    BY PartIs
  <2> HIDE DEF K
  <2> QED BY <1>1, <2>1, FS_Subset, FS_CardinalityType
<1>3. f \in Surjection(K, Clusters)
  BY ClustersAre DEF Surjection
<1> HIDE DEF K, f
<1> QED BY <1>2, <1>3, FS_Surjection, FS_CardinalityType

(* A chunk has at most Size squads, and they all share out those on duty.  *)
LEMMA ChunksAreSmall ==
    ASSUME EveryoneInLine, NEW c \in Clusters
    PROVE  /\ IsFiniteSet(c) /\ Cardinality(c) \in Nat
           /\ 3 * Cardinality(c) <= Cardinality(OnDuty) + 2
<1>1. PICK p \in OnDuty : c = Chunk(Part(p))
  BY ClustersAre
<1> DEFINE k == Part(p)
           R == (k * Size)..(k * Size + Size - 1)
           f == [q \in Cut(k) |-> Ahead(q)]
           g == [q \in Cut(k) |-> line[q]]
<1>2. /\ Size \in Nat /\ Size # 0 /\ Cardinality(OnDuty) \in Nat
      /\ 3 * Size <= Cardinality(OnDuty) + 2
  BY SizeIs
<1>3. k \in Nat /\ k * Size \in Nat
  <2>1. k \in Nat
    BY PartIs
  <2>2. \A x, y \in Nat : x * y \in Nat
    OBVIOUS
  <2> HIDE DEF k
  <2> QED BY <1>2, <2>1, <2>2
<1>4. IsFiniteSet(R) /\ Cardinality(R) = Size
  <2> DEFINE m == k * Size
  <2>1. m \in Nat /\ R = m..(m + Size - 1)
    BY <1>3
  <2> HIDE DEF m, R
  <2> DEFINE e == m + Size - 1
  <2>2. e \in Int /\ m \in Int /\ m <= e /\ e - m + 1 = Size /\ R = m..e
    BY <1>2, <2>1
  <2> HIDE DEF e
  <2>3. IsFiniteSet(m..e) /\ Cardinality(m..e) = e - m + 1
    BY <2>2, IntervalIs
  <2> QED BY <2>2, <2>3
<1>5. f \in Injection(Cut(k), R)
  <2>1. ASSUME NEW q \in Cut(k) PROVE Ahead(q) \in R
    <3>1. q \in OnDuty /\ Part(q) = k
      BY DEF Cut
    <3>2. Part(q) * Size <= Ahead(q) /\ Ahead(q) < Part(q) * Size + Size /\ Ahead(q) \in Nat
      BY <3>1, PartIs, AheadCounts
    <3> DEFINE m == k * Size
    <3>3. m \in Nat /\ m <= Ahead(q) /\ Ahead(q) < m + Size /\ R = m..(m + Size - 1)
      BY <1>3, <3>1, <3>2
    <3> HIDE DEF m, R
    <3> QED BY <1>2, <3>2, <3>3
  <2>2. \A q, r \in Cut(k) : Ahead(q) = Ahead(r) => q = r
    BY AheadTellsPlaces DEF Cut
  <2> HIDE DEF k, R
  <2> QED BY <2>1, <2>2 DEF Injection, IsInjective
<1>6. g \in Surjection(Cut(k), c)
  BY <1>1 DEF Surjection, Chunk
<1> HIDE DEF k, R, f, g
<1>7. IsFiniteSet(Cut(k)) /\ Cardinality(Cut(k)) <= Size
  BY <1>4, <1>5, FS_Injection
<1>8. IsFiniteSet(c) /\ Cardinality(c) <= Cardinality(Cut(k))
  BY <1>6, <1>7, FS_Surjection
<1>9. Cardinality(c) \in Nat /\ Cardinality(Cut(k)) \in Nat
  BY <1>7, <1>8, FS_CardinalityType
<1> QED BY <1>2, <1>7, <1>8, <1>9

LEMMA ChunksAreAll ==
    ASSUME EveryoneInLine
    PROVE  Cardinality(UNION Clusters) = Cardinality(OnDuty)
<1> DEFINE f == [p \in OnDuty |-> line[p]]
<1>1. f \in Surjection(OnDuty, UNION Clusters)
  <2>1. ASSUME NEW p \in OnDuty PROVE line[p] \in UNION Clusters
    <3>1. line[p] \in Chunk(Part(p))
      BY DEF Chunk, Cut
    <3> QED BY <3>1, ClustersAre
  <2>2. ASSUME NEW s \in UNION Clusters PROVE \E p \in OnDuty : line[p] = s
    BY ClustersAre DEF Chunk, Cut
  <2> QED BY <2>1, <2>2 DEF Surjection
<1>2. f \in Injection(OnDuty, UNION Clusters)
  <2>1. f \in [OnDuty -> UNION Clusters]
    BY <1>1 DEF Surjection
  <2>2. \A p, q \in OnDuty : line[p] = line[q] => p = q
    BY OnDutyIs, OnePlaceEach
  <2> QED BY <2>1, <2>2 DEF Injection, IsInjective
<1> HIDE DEF f
<1> QED BY <1>1, <1>2, OnDutyIs, FS_Surjection

-----------------------------------------------------------------------------
(* The numbers of the companies, and their scouts.                         *)

LEMMA AnchorIs ==
    ASSUME NEW c, c \subseteq Squad, c # {}
    PROVE  Anchor(c) \in c /\ Anchor(c) \in Nat /\ \A s \in c : Anchor(c) <= s
<1>1. c \subseteq Nat
  BY SquadsAreNumbers
<1> QED BY <1>1, MinIs DEF Anchor

LEMMA ScoutIs ==
    ASSUME NEW c, c \subseteq Squad, c # {}
    PROVE  Remembered(c) \subseteq c /\ Scout(c) \in c
<1>1. Remembered(c) \subseteq c
  BY DEF Remembered
<1> DEFINE left == c \ Remembered(c)
<1>2. left # {} => Min(left) \in left
  <2>1. left \subseteq Nat
    BY SquadsAreNumbers
  <2> HIDE DEF left
  <2> QED BY <2>1, MinIs
<1>3. Scout(c) = IF left = {} THEN Anchor(c) ELSE Min(left)
  BY DEF Scout
<1> QED BY <1>1, <1>2, <1>3, AnchorIs

(* Groups without a squad in common are numbered without a gap.            *)
LEMMA NumbersFit ==
    ASSUME NEW D, IsFiniteSet(D),
           \A c \in D : c # {} /\ c \subseteq Squad,
           \A c, d \in D : c # d => c \cap d = {}
    PROVE  LET m == Cardinality(D) IN
           /\ \A c, d \in D : Anchor(c) = Anchor(d) => c = d
           /\ \A c \in D : Number(c, D) \in 1..m
           /\ \A c, d \in D : Number(c, D) = Number(d, D) => c = d
           /\ \A i \in 1..m : \E c \in D : Number(c, D) = i
<1> DEFINE m == Cardinality(D)
           Upto(c) == {d \in D : Anchor(d) <= Anchor(c)}
           f == [c \in D |-> Number(c, D)]
<1>1. \A c \in D : Anchor(c) \in c /\ Anchor(c) \in Nat
  BY AnchorIs
<1>2. \A c, d \in D : Anchor(c) = Anchor(d) => c = d
  BY <1>1
<1>3. ASSUME NEW c \in D
      PROVE  /\ IsFiniteSet(Upto(c)) /\ Cardinality(Upto(c)) \in Nat
             /\ Cardinality(Upto(c)) <= m /\ Cardinality(Upto(c)) # 0
  <2>1. IsFiniteSet(Upto(c)) /\ Cardinality(Upto(c)) <= m
    BY FS_Subset
  <2>2. c \in Upto(c)
    BY <1>1
  <2>3. Upto(c) # {}
    BY <2>2
  <2> HIDE DEF Upto
  <2> QED BY <2>1, <2>3, FS_CardinalityType, FS_EmptySet
<1>4. m \in Nat
  BY FS_CardinalityType
<1>5. \A c : Number(c, D) = Cardinality(Upto(c))
  BY DEF Number
<1>6. ASSUME NEW c \in D, NEW d \in D, Anchor(c) < Anchor(d)
      PROVE  Number(c, D) < Number(d, D)
  <2>1. d \notin Upto(c) /\ Upto(c) \cup {d} \subseteq Upto(d)
    <3>1. d \notin Upto(c) /\ d \in Upto(d)
      BY <1>1, <1>6
    <3>2. \A x \in Upto(c) : x \in D /\ Anchor(x) <= Anchor(d)
      BY <1>1, <1>6
    <3> QED BY <3>1, <3>2
  <2>2. /\ IsFiniteSet(Upto(c)) /\ Cardinality(Upto(c)) \in Nat
        /\ IsFiniteSet(Upto(d)) /\ Cardinality(Upto(d)) \in Nat
    BY <1>3
  <2> HIDE DEF Upto
  <2>3. IsFiniteSet(Upto(c) \cup {d}) /\ Cardinality(Upto(c) \cup {d}) = Cardinality(Upto(c)) + 1
    BY <2>1, <2>2, FS_AddElement
  <2>4. Cardinality(Upto(c) \cup {d}) <= Cardinality(Upto(d))
    BY <2>1, <2>2, FS_Subset
  <2> QED BY <1>5, <2>2, <2>3, <2>4
<1>7. \A c \in D : Number(c, D) \in 1..m
  <2> TAKE c \in D
  <2>1. /\ Cardinality(Upto(c)) \in Nat /\ Cardinality(Upto(c)) <= m
        /\ Cardinality(Upto(c)) # 0
    BY <1>3
  <2>2. Number(c, D) = Cardinality(Upto(c))
    BY <1>5
  <2> HIDE DEF m, Upto
  <2> QED BY <1>4, <2>1, <2>2
<1> HIDE DEF Upto
<1>8. ASSUME NEW c \in D, NEW d \in D, Number(c, D) = Number(d, D)
      PROVE  c = d
  <2>1. ~(Anchor(c) < Anchor(d)) /\ ~(Anchor(d) < Anchor(c))
    <3>1. Number(c, D) \in Nat /\ Number(d, D) \in Nat
      BY <1>7
    <3> QED BY <1>6, <1>8, <3>1
  <2>2. Anchor(c) = Anchor(d)
    BY <1>1, <2>1
  <2> QED BY <1>2, <2>2
<1>9. f \in Injection(D, 1..m)
  BY <1>7, <1>8 DEF Injection, IsInjective
<1>10. f \in Surjection(D, 1..m)
  <2>1. IsFiniteSet(1..m) /\ Cardinality(1..m) = m
    BY <1>4, FS_Interval
  <2> HIDE DEF f
  <2> QED BY <1>9, <2>1, FS_Injection
<1>11. \A i \in 1..m : \E c \in D : Number(c, D) = i
  BY <1>10 DEF Surjection
<1> QED BY <1>2, <1>7, <1>8, <1>11

-----------------------------------------------------------------------------
(* What a grouping does.                                                   *)

LEMMA Regrouped ==
    ASSUME EveryoneInLine, Regroup
    PROVE  LET m == Cardinality(Clusters) IN
           /\ m \in 0..3 /\ fresh' = m
           /\ companies' = [i \in Names |-> companies'[i]]
           /\ \A i \in Names : i <= m =>
                 /\ companies'[i] = Company(companies'[i].squads)
                 /\ companies'[i].squads \in Clusters
           /\ \A i \in Names : ~(i <= m) => companies'[i] = companies[i]
           /\ \A i, j \in Names : i <= m /\ j <= m /\ i # j =>
                 companies'[i].squads \cap companies'[j].squads = {}
           /\ \A c \in Clusters : \E i \in Names : i <= m /\ companies'[i].squads = c
           /\ history' = [a \in Squad |-> history'[a]]
           /\ \A a \in Squad : \/ history'[a] = history[a]
                               \/ \E c \in Clusters : history'[a] = Remembered(c)
           /\ wanted => \A c \in Clusters : history'[Anchor(c)] = Remembered(c)
           /\ wait' = [a \in Squad |-> IF wait[a] > 0 THEN wait[a] - 1 ELSE 0]
           /\ UNCHANGED world
<1> DEFINE D == Clusters
           m == Cardinality(D)
           Named(i) == CHOOSE c \in D : Number(c, D) = i
           Anchored(a) == CHOOSE c \in D : Anchor(c) = a
<1>1. /\ companies' = [i \in Names |->
                         IF i > m THEN companies[i] ELSE Company(Named(i))]
      /\ fresh' = m
      /\ history' = [a \in Squad |->
                       IF wanted /\ \E c \in D : Anchor(c) = a
                       THEN Remembered(Anchored(a)) ELSE history[a]]
      /\ wait' = [a \in Squad |-> IF wait[a] > 0 THEN wait[a] - 1 ELSE 0]
      /\ UNCHANGED world
  BY DEF Regroup
<1>2. IsFiniteSet(D) /\ m \in 0..3
  BY AtMostThreeChunks
<1>3. /\ \A c \in D : c # {} /\ c \subseteq Squad
      /\ \A c, d \in D : c # d => c \cap d = {}
  BY ChunksShare
<1> HIDE DEF D
<1>4. /\ \A c, d \in D : Anchor(c) = Anchor(d) => c = d
      /\ \A c \in D : Number(c, D) \in 1..m
      /\ \A c, d \in D : Number(c, D) = Number(d, D) => c = d
      /\ \A i \in 1..m : \E c \in D : Number(c, D) = i
  BY <1>2, <1>3, NumbersFit
<1> HIDE DEF m
<1>5. ASSUME NEW i \in Names, i <= m
      PROVE  /\ Named(i) \in D /\ Number(Named(i), D) = i
             /\ companies'[i] = Company(Named(i)) /\ companies'[i].squads = Named(i)
  <2>1. \E c \in D : Number(c, D) = i
    <3>1. i \in 1..m
      BY <1>2, <1>5 DEF Names
    <3> QED BY <1>4, <3>1
  <2>2. Named(i) \in D /\ Number(Named(i), D) = i
    BY <2>1
  <2>3. companies'[i] = Company(Named(i))
    <3>1. ~(i > m)
      BY <1>2, <1>5 DEF Names
    <3> QED BY <1>1, <3>1
  <2> QED BY <2>2, <2>3 DEF Company
<1>6. ASSUME NEW i \in Names, ~(i <= m)
      PROVE  companies'[i] = companies[i]
  <2>1. i > m
    BY <1>2, <1>6 DEF Names
  <2> QED BY <1>1, <2>1
<1>7. ASSUME NEW c \in D
      PROVE  \E i \in Names : i <= m /\ companies'[i].squads = c
  <2> DEFINE i == Number(c, D)
  <2>1. i \in 1..m
    BY <1>4
  <2>2. i \in Names /\ i <= m
    BY <1>2, <2>1 DEF Names
  <2>3. Named(i) \in D /\ Number(Named(i), D) = i /\ companies'[i].squads = Named(i)
    BY <1>5, <2>2
  <2>4. Named(i) = c
    BY <1>4, <2>3
  <2> QED BY <2>2, <2>3, <2>4
<1>8. ASSUME NEW i \in Names, NEW j \in Names, i <= m, j <= m, i # j
      PROVE  companies'[i].squads \cap companies'[j].squads = {}
  <2>1. Named(i) # Named(j) /\ Named(i) \in D /\ Named(j) \in D
    BY <1>5, <1>8
  <2> QED BY <1>3, <1>5, <1>8, <2>1
<1>9. ASSUME NEW c \in D
      PROVE  Anchor(c) \in Squad /\ Anchored(Anchor(c)) = c
  <2>1. Anchor(c) \in Squad
    BY <1>3, AnchorIs
  <2>2. Anchored(Anchor(c)) \in D /\ Anchor(Anchored(Anchor(c))) = Anchor(c)
    OBVIOUS
  <2> QED BY <1>4, <2>1, <2>2
<1>10. ASSUME NEW a \in Squad
       PROVE  history'[a] = history[a] \/ \E c \in D : history'[a] = Remembered(c)
  <2>1. CASE wanted /\ \E c \in D : Anchor(c) = a
    <3>1. Anchored(a) \in D
      BY <2>1
    <3>2. history'[a] = Remembered(Anchored(a))
      BY <1>1, <2>1
    <3> QED BY <3>1, <3>2
  <2>2. CASE ~(wanted /\ \E c \in D : Anchor(c) = a)
    BY <1>1, <2>2
  <2> QED BY <2>1, <2>2
<1>11. ASSUME wanted, NEW c \in D PROVE history'[Anchor(c)] = Remembered(c)
  <2> DEFINE a == Anchor(c)
  <2>1. a \in Squad /\ Anchored(a) = c
    BY <1>9
  <2>2. history'[a] = Remembered(Anchored(a))
    BY <1>1, <1>11, <2>1
  <2> QED BY <2>1, <2>2
<1>12. /\ companies' = [i \in Names |-> companies'[i]]
       /\ history' = [a \in Squad |-> history'[a]]
  BY <1>1
<1>13. ASSUME NEW i \in Names, i <= m
       PROVE  companies'[i] = Company(companies'[i].squads) /\ companies'[i].squads \in D
  BY <1>5, <1>13
<1> HIDE DEF Named, Anchored
<1> QED BY <1>1, <1>2, <1>6, <1>7, <1>8, <1>10, <1>11, <1>12, <1>13 DEF D, m

-----------------------------------------------------------------------------
(* The invariant.                                                          *)

LEMMA CompanyParts ==
    ASSUME TypeOK, NEW i \in Names
    PROVE  /\ companies[i].squads \subseteq Squad
           /\ companies[i].scout \in Squad \cup {None}
           /\ fresh \in 0..3
           /\ i \in Fresh <=> i <= fresh
           /\ i \in Leftover <=> ~(i <= fresh)
BY DEF TypeOK, Names, Fresh, Leftover

LEMMA InitGrouped == Init => CompaniesInv
<1> SUFFICES ASSUME Init PROVE CompaniesInv
  OBVIOUS
<1>1. TypeOK
  BY SquadsAreNumbers DEF Init, TypeOK, NoCompany
<1>2. EveryoneInLine
  BY SquadAssumption DEF Init, EveryoneInLine
<1>3. Fresh = {} /\ \A i \in Names : companies[i].scout = None
  BY DEF Init, Fresh, NoCompany
<1>4. InOneCompany /\ OnlyMembersHadTurns
  BY <1>3 DEF InOneCompany, OnlyMembersHadTurns
<1> QED BY <1>1, <1>2, <1>4 DEF CompaniesInv

LEMMA RegroupKeeps ==
    ASSUME CompaniesInv, Regroup
    PROVE  CompaniesInv' /\ AnotherIsSent
<1> DEFINE m == Cardinality(Clusters)
<1>1. TypeOK /\ EveryoneInLine /\ InOneCompany
  BY DEF CompaniesInv
<1>2. /\ m \in 0..3 /\ fresh' = m
      /\ companies' = [i \in Names |-> companies'[i]]
      /\ \A i \in Names : i <= m =>
            /\ companies'[i] = Company(companies'[i].squads)
            /\ companies'[i].squads \in Clusters
      /\ \A i \in Names : ~(i <= m) => companies'[i] = companies[i]
      /\ \A i, j \in Names : i <= m /\ j <= m /\ i # j =>
            companies'[i].squads \cap companies'[j].squads = {}
      /\ \A c \in Clusters : \E i \in Names : i <= m /\ companies'[i].squads = c
      /\ history' = [a \in Squad |-> history'[a]]
      /\ \A a \in Squad : \/ history'[a] = history[a]
                          \/ \E c \in Clusters : history'[a] = Remembered(c)
      /\ wanted => \A c \in Clusters : history'[Anchor(c)] = Remembered(c)
      /\ wait' = [a \in Squad |-> IF wait[a] > 0 THEN wait[a] - 1 ELSE 0]
      /\ UNCHANGED world
  BY <1>1, Regrouped
<1>3. \A c \in Clusters : c # {} /\ c \subseteq Squad /\ Remembered(c) \subseteq c /\ Scout(c) \in c
  BY <1>1, ChunksShare, ScoutIs
<1> HIDE DEF m
<1>4. \A i \in Names : (i \in 1..fresh' <=> i <= m) /\ (i \in Fresh' <=> i <= m)
                       /\ (i \in Leftover' <=> ~(i <= m))
  BY <1>2 DEF Names, Fresh, Leftover
<1>5. \A c : /\ Company(c).squads = c
             /\ Company(c).scout = IF wanted THEN Scout(c) ELSE None
             /\ Company(c) = [squads |-> c, scout |-> IF wanted THEN Scout(c) ELSE None]
  BY DEF Company
<1>6. TypeOK'
  <2>1. companies' \in [Names -> [squads : SUBSET Squad, scout : Squad \cup {None}]]
    <3>1. ASSUME NEW i \in Names
          PROVE  companies'[i] \in [squads : SUBSET Squad, scout : Squad \cup {None}]
      <4>1. CASE i <= m
        <5> DEFINE c == companies'[i].squads
        <5>1. c \in Clusters /\ companies'[i] = Company(c)
          BY <1>2, <4>1
        <5> HIDE DEF c
        <5>2. c \subseteq Squad /\ Scout(c) \in Squad
          BY <1>3, <5>1
        <5>3. (IF wanted THEN Scout(c) ELSE None) \in Squad \cup {None}
          BY <5>2
        <5> QED BY <1>5, <5>1, <5>2, <5>3
      <4>2. CASE ~(i <= m)
        BY <1>1, <1>2, <4>2 DEF TypeOK
      <4> QED BY <4>1, <4>2
    <3> QED BY <1>2, <3>1
  <2>2. history' \in [Squad -> SUBSET Squad]
    <3>1. ASSUME NEW a \in Squad PROVE history'[a] \in SUBSET Squad
      <4>1. history[a] \in SUBSET Squad
        BY <1>1 DEF TypeOK
      <4>2. \A c \in Clusters : Remembered(c) \in SUBSET Squad
        BY <1>3
      <4> QED BY <1>2, <4>1, <4>2
    <3> QED BY <1>2, <3>1
  <2>3. wait' \in [Squad -> 0..3]
    BY <1>1, <1>2 DEF TypeOK
  <2>4. UNCHANGED <<operational, wanted, changes>>
    BY <1>2 DEF world
  <2> QED BY <1>1, <1>2, <2>1, <2>2, <2>3, <2>4 DEF TypeOK
<1>7. EveryoneInLine'
  BY <1>1, <1>2 DEF EveryoneInLine, world
<1>8. UNION {companies'[i].squads : i \in Fresh'} = UNION Clusters
  <2>1. \A i \in Fresh' : i \in Names /\ i <= m
    BY <1>2 DEF Fresh, Names
  <2>2. \A i \in Names : i <= m => i \in Fresh'
    BY <1>4
  <2> QED BY <1>2, <2>1, <2>2
<1>9. InOneCompany'
  <2>1. ASSUME NEW i \in Fresh'
        PROVE  /\ i \in Names /\ i <= m /\ companies'[i].squads \in Clusters
               /\ companies'[i].squads # {}
               /\ 3 * Cardinality(companies'[i].squads) <= Cardinality(UNION Clusters) + 2
    <3>1. i \in Names /\ i <= m
      BY <1>2 DEF Fresh, Names
    <3> DEFINE c == companies'[i].squads
    <3>2. c \in Clusters
      BY <1>2, <3>1
    <3> HIDE DEF c
    <3>3. 3 * Cardinality(c) <= Cardinality(OnDuty) + 2
      BY <1>1, <3>2, ChunksAreSmall
    <3>4. Cardinality(UNION Clusters) = Cardinality(OnDuty)
      BY <1>1, ChunksAreAll
    <3> QED BY <1>3, <3>1, <3>2, <3>3, <3>4 DEF c
  <2>2. ASSUME NEW i \in Fresh', NEW j \in Fresh', i # j
        PROVE  companies'[i].squads \cap companies'[j].squads = {}
    BY <1>2, <2>1, <2>2
  <2>3. ASSUME NEW i \in Names, companies'[i].scout # None
        PROVE  companies'[i].scout \in companies'[i].squads
    <3>1. CASE i <= m
      <4> DEFINE c == companies'[i].squads
      <4>1. c \in Clusters /\ companies'[i] = Company(c)
        BY <1>2, <3>1
      <4> HIDE DEF c
      <4>2. companies'[i].scout = IF wanted THEN Scout(c) ELSE None
        BY <1>5, <4>1
      <4>3. companies'[i].scout = Scout(c) /\ Scout(c) \in c
        BY <1>3, <2>3, <4>1, <4>2
      <4> QED BY <4>3 DEF c
    <3>2. CASE ~(i <= m)
      <4>1. companies'[i] = companies[i]
        BY <1>2, <3>2
      <4> QED BY <1>1, <2>3, <4>1 DEF InOneCompany
    <3> QED BY <3>1, <3>2
  <2> QED BY <1>8, <2>1, <2>2, <2>3 DEF InOneCompany
<1>10. OnlyMembersHadTurns'
  <2> SUFFICES ASSUME NEW i \in Fresh', companies'[i].scout # None
               PROVE  history'[Anchor(companies'[i].squads)] \subseteq companies'[i].squads
    BY DEF OnlyMembersHadTurns
  <2>1. i \in Names /\ i <= m
    BY <1>2 DEF Fresh, Names
  <2> DEFINE c == companies'[i].squads
  <2>2. c \in Clusters /\ companies'[i] = Company(c)
    BY <1>2, <2>1
  <2> HIDE DEF c
  <2>3. wanted
    BY <1>5, <2>2
  <2>4. history'[Anchor(c)] = Remembered(c)
    BY <1>2, <2>2, <2>3
  <2> QED BY <1>3, <2>2, <2>4 DEF c
(* The next scout: of those left, or the anchor when a new round begins.   *)
<1>11. AnotherIsSent
  <2> SUFFICES ASSUME NEW i \in Fresh \cap 1..fresh', wanted,
                      companies[i].scout \in history[Anchor(companies[i].squads)],
                      companies'[i].squads = companies[i].squads,
                      Cardinality(companies[i].squads) > 1,
                      companies[i].scout = Anchor(companies[i].squads) =>
                          ~(companies[i].squads \subseteq history[Anchor(companies[i].squads)])
               PROVE  companies'[i].scout # companies[i].scout
    BY DEF AnotherIsSent
  <2> DEFINE c == companies[i].squads
             s == companies[i].scout
             had == history[Anchor(c)] \cap c
             left == c \ Remembered(c)
  <2>1. i \in Names /\ i <= m
    BY <1>2 DEF Fresh, Names
  <2>2. c \in Clusters /\ companies'[i].scout = Scout(c) /\ c # {} /\ c \subseteq Squad
    <3>1. companies'[i] = Company(companies'[i].squads) /\ companies'[i].squads \in Clusters
      BY <1>2, <2>1
    <3> QED BY <1>3, <1>5, <3>1
  <2>3. s \in Squad /\ s \in c
    <3>1. Anchor(c) \in Squad
      BY <2>2, AnchorIs
    <3>2. s \in Squad
      BY <1>1, <3>1 DEF TypeOK
    <3> QED BY <1>1, <2>1, <3>2, SquadsAreNumbers DEF InOneCompany
  <2>4. CASE c \subseteq history[Anchor(c)]
    <3>1. Remembered(c) = {} /\ s # Anchor(c)
      BY <2>4 DEF Remembered
    <3>2. left = c /\ Scout(c) = Anchor(c)
      BY <2>2, <3>1 DEF Scout, Anchor
    <3> QED BY <2>2, <3>1, <3>2
  <2>5. CASE ~(c \subseteq history[Anchor(c)])
    <3>1. Remembered(c) = had /\ s \in had /\ left # {} /\ s \notin left
      BY <2>3, <2>5 DEF Remembered
    <3>2. Scout(c) = Min(left)
      BY <3>1 DEF Scout
    <3>3. Min(left) \in left
      <4>1. left \subseteq Nat
        BY <2>2, SquadsAreNumbers
      <4> HIDE DEF left
      <4> QED BY <3>1, <4>1, MinIs
    <3> QED BY <2>2, <3>1, <3>2, <3>3
  <2> QED BY <2>4, <2>5
<1> QED BY <1>6, <1>7, <1>9, <1>10, <1>11 DEF CompaniesInv

LEMMA PassTurnKeeps ==
    ASSUME CompaniesInv, NEW s \in Squad, PassTurn(s)
    PROVE  CompaniesInv' /\ AnotherIsSent
<1> DEFINE passed == {Anchor(companies[i].squads) : i \in Scouting(s)}
           due == {a \in passed : wait[a] = 0}
<1>1. TypeOK /\ EveryoneInLine /\ InOneCompany /\ OnlyMembersHadTurns
  BY DEF CompaniesInv
<1>2. /\ history' = [a \in Squad |-> IF a \in due THEN history[a] \cup {s} ELSE history[a]]
      /\ wait' = [a \in Squad |-> IF a \in due THEN 3 ELSE wait[a]]
      /\ UNCHANGED <<world, companies, fresh>>
  BY DEF PassTurn
<1>3. \A a \in due : \E j \in Names : /\ companies[j].scout = s /\ s \in companies[j].squads
                                      /\ a = Anchor(companies[j].squads)
  <2> TAKE a \in due
  <2>1. PICK j \in Names : companies[j].scout = s /\ a = Anchor(companies[j].squads)
    BY DEF Scouting
  <2>2. s # None
    BY SquadsAreNumbers
  <2>3. s \in companies[j].squads
    BY <1>1, <2>1, <2>2 DEF InOneCompany
  <2> QED BY <2>1, <2>3
<1> HIDE DEF due
<1>4. TypeOK'
  <2>1. history' \in [Squad -> SUBSET Squad]
    BY <1>1, <1>2 DEF TypeOK
  <2>2. wait' \in [Squad -> 0..3]
    BY <1>1, <1>2 DEF TypeOK
  <2>3. UNCHANGED <<operational, wanted, changes, companies, fresh>>
    BY <1>2 DEF world
  <2> QED BY <1>1, <2>1, <2>2, <2>3 DEF TypeOK
<1>5. EveryoneInLine'
  BY <1>1, <1>2 DEF EveryoneInLine, world
<1>6. InOneCompany'
  BY <1>1, <1>2 DEF InOneCompany, Fresh
<1>7. OnlyMembersHadTurns'
  <2>1. Fresh' = Fresh /\ Leftover' = Leftover
    BY <1>2 DEF Fresh, Leftover
  <2> SUFFICES ASSUME NEW i \in Fresh, companies[i].scout # None
               PROVE  history'[Anchor(companies[i].squads)]
                          \subseteq UNION {companies[j].squads : j \in Leftover \cup {i}}
    BY <1>2, <2>1 DEF OnlyMembersHadTurns
  <2> DEFINE a == Anchor(companies[i].squads)
             members == UNION {companies[j].squads : j \in Leftover \cup {i}}
  <2>2. history[a] \subseteq members
    BY <1>1 DEF OnlyMembersHadTurns
  <2>3. i \in Names /\ companies[i].squads # {} /\ companies[i].squads \subseteq Squad
    <3>1. i \in Names
      BY <1>1 DEF Fresh, Names, TypeOK
    <3> QED BY <1>1, <3>1, CompanyParts DEF InOneCompany
  <2>4. a \in Squad /\ a \in companies[i].squads
    BY <2>3, AnchorIs
  <2>5. CASE a \in due
    <3>1. PICK j \in Names : /\ companies[j].scout = s /\ s \in companies[j].squads
                             /\ a = Anchor(companies[j].squads)
      BY <1>3, <2>5
    <3>2. a \in companies[j].squads
      <4>1. companies[j].squads # {} /\ companies[j].squads \subseteq Squad
        BY <1>1, <3>1, CompanyParts
      <4> QED BY <3>1, <4>1, AnchorIs
    <3>3. j \in Leftover \cup {i}
      <4>1. j \in Fresh \/ j \in Leftover
        BY <1>1, CompanyParts
      <4>2. j \in Fresh => j = i
        BY <1>1, <2>4, <3>2 DEF InOneCompany
      <4> QED BY <4>1, <4>2
    <3>4. s \in members
      BY <3>1, <3>3
    <3>5. history'[a] = history[a] \cup {s}
      BY <1>2, <2>4, <2>5
    <3> QED BY <2>2, <3>4, <3>5
  <2>6. CASE a \notin due
    BY <1>2, <2>2, <2>4, <2>6
  <2> QED BY <2>5, <2>6
<1>8. AnotherIsSent
  <2> SUFFICES ASSUME NEW i \in Fresh \cap 1..fresh',
                      wait'[Anchor(companies[i].squads)] < wait[Anchor(companies[i].squads)]
               PROVE  FALSE
    BY DEF AnotherIsSent
  <2> DEFINE a == Anchor(companies[i].squads)
  <2>1. a \in Squad
    <3>1. i \in Names
      BY <1>1 DEF Fresh, Names, TypeOK
    <3>2. companies[i].squads # {} /\ companies[i].squads \subseteq Squad
      BY <1>1, <3>1, CompanyParts DEF InOneCompany
    <3> QED BY <3>2, AnchorIs
  <2>2. wait[a] \in 0..3 /\ wait'[a] = IF a \in due THEN 3 ELSE wait[a]
    BY <1>1, <1>2, <2>1 DEF TypeOK
  <2> HIDE DEF a
  <2>3. wait'[a] < wait[a]
    BY DEF a
  <2> QED BY <2>2, <2>3
<1> QED BY <1>4, <1>5, <1>6, <1>7, <1>8 DEF CompaniesInv

LEMMA WorldKeeps ==
    ASSUME CompaniesInv, UNCHANGED <<companies, history, wait, fresh>>,
           operational' \subseteq Squad, wanted' \in BOOLEAN, changes' \in 0..MaxChanges,
           EveryoneInLine'
    PROVE  CompaniesInv' /\ AnotherIsSent
<1>1. TypeOK'
  BY DEF CompaniesInv, TypeOK
<1>2. InOneCompany' /\ OnlyMembersHadTurns'
  <2>1. Fresh' = Fresh /\ Leftover' = Leftover
    BY DEF Fresh, Leftover
  <2>2. InOneCompany'
    BY <2>1 DEF CompaniesInv, InOneCompany
  <2>3. OnlyMembersHadTurns'
    BY <2>1 DEF CompaniesInv, OnlyMembersHadTurns
  <2> QED BY <2>2, <2>3
<1>3. AnotherIsSent
  <2> SUFFICES ASSUME NEW i \in Fresh \cap 1..fresh',
                      wait'[Anchor(companies[i].squads)] < wait[Anchor(companies[i].squads)]
               PROVE  FALSE
    BY DEF AnotherIsSent
  <2> DEFINE a == Anchor(companies[i].squads)
  <2>1. a \in Squad
    <3>1. TypeOK /\ InOneCompany
      BY DEF CompaniesInv
    <3>2. i \in Names
      BY <3>1 DEF Fresh, Names, TypeOK
    <3>3. companies[i].squads # {} /\ companies[i].squads \subseteq Squad
      BY <3>1, <3>2, CompanyParts DEF InOneCompany
    <3> QED BY <3>3, AnchorIs
  <2>2. wait[a] \in 0..3
    BY <2>1 DEF CompaniesInv, TypeOK
  <2> HIDE DEF a
  <2>3. wait[a] < wait[a]
    BY DEF a
  <2> QED BY <2>2, <2>3
<1> QED BY <1>1, <1>2, <1>3 DEF CompaniesInv

LEMMA StepKeeps == CompaniesInv /\ [Next]_vars => CompaniesInv' /\ [AnotherIsSent]_vars
<1> SUFFICES ASSUME CompaniesInv, [Next]_vars PROVE CompaniesInv' /\ [AnotherIsSent]_vars
  OBVIOUS
<1>1. TypeOK /\ EveryoneInLine
  BY DEF CompaniesInv
<1>2. CASE Regroup
  BY <1>2, RegroupKeeps
<1>3. ASSUME NEW s \in Squad, PassTurn(s) PROVE CompaniesInv' /\ AnotherIsSent
  BY <1>3, PassTurnKeeps
<1>4. Change => /\ changes' \in 0..MaxChanges
                /\ UNCHANGED <<companies, history, wait, fresh>>
  BY <1>1, SquadsAreNumbers DEF Change, TypeOK
<1>5. UNCHANGED line => EveryoneInLine'
  BY <1>1 DEF EveryoneInLine
<1>6. CASE March
  <2>1. PICK p \in 1..(Len(line) - 1) :
          line' = [line EXCEPT ![p] = line[p + 1], ![p + 1] = line[p]]
    BY <1>6 DEF March
  <2> DEFINE n == Cardinality(Squad)
  <2>2. n \in Nat /\ line \in [1..n -> Squad] /\ \A s \in Squad : \E q \in 1..n : line[q] = s
    BY <1>1, SquadsAreNumbers DEF EveryoneInLine
  <2> HIDE DEF n
  <2>3. Len(line) = n
    BY <2>2
  <2>4. p \in 1..n /\ p + 1 \in 1..n /\ p # p + 1
    BY <2>2, <2>3
  <2>5. line' \in [1..n -> Squad]
    BY <2>1, <2>2, <2>4
  <2>6. ASSUME NEW s \in Squad PROVE \E q \in 1..n : line'[q] = s
    <3>1. PICK q \in 1..n : line[q] = s
      BY <2>2
    <3>2. CASE q = p
      BY <2>1, <2>2, <2>4, <3>1, <3>2
    <3>3. CASE q = p + 1
      BY <2>1, <2>2, <2>4, <3>1, <3>3
    <3>4. CASE q # p /\ q # p + 1
      BY <2>1, <2>2, <2>4, <3>1, <3>4
    <3> QED BY <3>2, <3>3, <3>4
  <2>7. EveryoneInLine'
    BY <2>5, <2>6 DEF EveryoneInLine, n
  <2>8. UNCHANGED <<operational, wanted>> /\ Change
    BY <1>6 DEF March
  <2> QED BY <1>1, <1>4, <2>7, <2>8, WorldKeeps DEF TypeOK
<1>7. CASE Lose
  <2>1. Change /\ UNCHANGED <<line, wanted>> /\ operational' \subseteq Squad
    BY <1>1, <1>7 DEF Lose, TypeOK
  <2> QED BY <1>1, <1>4, <1>5, <2>1, WorldKeeps DEF TypeOK
<1>8. CASE Return
  <2>1. Change /\ UNCHANGED <<line, wanted>> /\ operational' \subseteq Squad
    BY <1>1, <1>8 DEF Return, TypeOK
  <2> QED BY <1>1, <1>4, <1>5, <2>1, WorldKeeps DEF TypeOK
<1>9. CASE Flags
  <2>1. Change /\ UNCHANGED <<line, operational>> /\ wanted' \in BOOLEAN
    BY <1>1, <1>9 DEF Flags, TypeOK
  <2> QED BY <1>1, <1>4, <1>5, <2>1, WorldKeeps DEF TypeOK
<1>10. CASE UNCHANGED vars
  <2>1. /\ UNCHANGED <<companies, history, wait, fresh>>
        /\ UNCHANGED <<line, operational, wanted, changes>>
    BY <1>10 DEF vars, world
  <2> QED BY <1>1, <1>5, <2>1, WorldKeeps DEF TypeOK
<1>11. CompaniesInv' /\ (AnotherIsSent \/ UNCHANGED vars)
  BY <1>2, <1>3, <1>6, <1>7, <1>8, <1>9, <1>10 DEF Next
<1> QED BY <1>11

-----------------------------------------------------------------------------
(* The inductive invariant: what tick_company_grouping shares out, from a  *)
(* line that holds every squad once, and what the scouts' turns leave of   *)
(* it until the next grouping.                                             *)
THEOREM CompaniesInvariant == Spec => []CompaniesInv
<1>1. CompaniesInv /\ [Next]_vars => CompaniesInv'
  BY StepKeeps
<1> QED BY <1>1, InitGrouped, PTL DEF Spec

(* The companies, the histories and the clocks stay what Runner declares,  *)
(* and a grouping makes no fourth company, however many the squads.        *)
THEOREM TypesKept == Spec => []TypeOK
<1>1. CompaniesInv => TypeOK
  BY DEF CompaniesInv
<1> QED BY <1>1, CompaniesInvariant, PTL

(* The chunks of tick_company_grouping have no squad in common and none is *)
(* empty or larger than a third, rounded up; a scout scouts for its own.   *)
THEOREM CompaniesShareOut == Spec => []InOneCompany
<1>1. CompaniesInv => InOneCompany
  BY DEF CompaniesInv
<1> QED BY <1>1, CompaniesInvariant, PTL

(* scouted_history of a company with a scout holds its own squads, or      *)
(* those of a company the last grouping left over under the same anchor.   *)
THEOREM MembersHadTurns == Spec => []OnlyMembersHadTurns
<1>1. CompaniesInv => OnlyMembersHadTurns
  BY DEF CompaniesInv
<1> QED BY <1>1, CompaniesInvariant, PTL

(* The squad that has just given up its turn is not the next scout while   *)
(* another one of its company has not had its turn, nor after that, unless *)
(* it is the one a round begins with.                                      *)
THEOREM TurnsGoOn == Spec => NotTwiceRunning
<1>1. CompaniesInv /\ [Next]_vars => [AnotherIsSent]_vars
  BY StepKeeps
<1> QED BY <1>1, CompaniesInvariant, PTL DEF Spec, NotTwiceRunning
=============================================================================
