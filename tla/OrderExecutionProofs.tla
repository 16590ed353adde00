------------------------- MODULE OrderExecutionProofs -------------------------
(***************************************************************************)
(* For any squads, paths and numbers of events: up to the first merge      *)
(* nobody walks a path without points, and what a soldier walks is what it *)
(* was told.                                                               *)
(*                                                                         *)
(* The invariant looks ahead: it says what each soldier will be when the   *)
(* messages under way have been applied (Foreseen).  The first section is  *)
(* about that look-ahead, a fold: applying the first message leaves it as  *)
(* it was, a new message changes it at its end.  The second section is     *)
(* about messages and views, the third about types, and the last ones take *)
(* the steps one by one.                                                   *)
(***************************************************************************)
EXTENDS OrderExecution, SequenceTheorems, WellFoundedInduction, TLAPS

-----------------------------------------------------------------------------
(* Messages one after the other.                                           *)

(* The function FoldLeft computes, over the sets of places it goes down.   *)
IsFold(g, m, s, P) ==
    g = [p \in SUBSET P |-> IF p = {} THEN m ELSE Becomes(g[p \ {Max(p)}], s[Max(p)])]

LEMMA MaxOfPlaces ==
    ASSUME NEW k \in Nat, NEW p, p \subseteq 1..k, k \in p
    PROVE  Max(p) = k
<1>1. \A x \in p : x \in Nat /\ k >= x
  OBVIOUS
<1>2. \E x \in p : \A y \in p : x >= y
  BY <1>1
<1>3. PICK z \in p : z = Max(p) /\ \A y \in p : z >= y
  BY <1>2 DEF Max
<1>4. z \in Nat /\ k >= z /\ z >= k
  BY <1>1, <1>3
<1> QED BY <1>3, <1>4

LEMMA FoldExists ==
    ASSUME NEW m, NEW s, NEW n \in Nat
    PROVE  \E g : IsFold(g, m, s, 1..n)
<1> DEFINE T == {k \in Nat : ~ \E g : IsFold(g, m, s, 1..k)}
<1> SUFFICES ASSUME T # {} PROVE FALSE
  OBVIOUS
<1>1. PICK k \in T : \A j \in T : ~ (<<j, k>> \in OpToRel(<, Nat))
  BY NatLessThanWellFounded, WFMin
<1>2. k # 0
  <2>1. SUBSET (1..0) = {{}}
    OBVIOUS
  <2>2. IsFold([p \in SUBSET (1..0) |-> m], m, s, 1..0)
    <3> DEFINE f == [p \in SUBSET (1..0) |-> m]
               f2 == [p \in SUBSET (1..0) |->
                       IF p = {} THEN m ELSE Becomes(f[p \ {Max(p)}], s[Max(p)])]
    <3>1. f = f2
      BY <2>1
    <3> HIDE DEF f
    <3> QED BY <3>1 DEF IsFold
  <2> QED BY <1>1, <2>2
<1>3. k \in Nat \ {0}
  <2>1. T \subseteq Nat
    OBVIOUS
  <2> HIDE DEF T
  <2> QED BY <1>1, <1>2, <2>1
<1>4. PICK g : IsFold(g, m, s, 1..(k - 1))
  <2>1. k \in Nat /\ k - 1 \in Nat /\ k - 1 < k
    BY <1>3
  <2>2. <<k - 1, k>> \in OpToRel(<, Nat)
    BY <2>1 DEF OpToRel
  <2>3. k - 1 \notin T
    BY <1>1, <2>2
  <2> QED BY <2>1, <2>3
<1> DEFINE h == [p \in SUBSET (1..k) |->
                   IF p \in SUBSET (1..(k - 1)) THEN g[p]
                   ELSE Becomes(g[p \ {k}], s[k])]
<1>5. ASSUME NEW p \in SUBSET (1..k)
      PROVE  h[p] = IF p = {} THEN m ELSE Becomes(h[p \ {Max(p)}], s[Max(p)])
  <2>1. CASE p \in SUBSET (1..(k - 1))
    <3>1. h[p] = g[p] /\ p \ {Max(p)} \in SUBSET (1..(k - 1))
          /\ p \ {Max(p)} \in SUBSET (1..k)
      BY <2>1, <1>5
    <3>2. h[p \ {Max(p)}] = g[p \ {Max(p)}]
      BY <3>1
    <3>3. g[p] = IF p = {} THEN m ELSE Becomes(g[p \ {Max(p)}], s[Max(p)])
      BY <1>4, <2>1 DEF IsFold
    <3> QED BY <3>1, <3>2, <3>3
  <2>2. CASE p \notin SUBSET (1..(k - 1))
    <3>0. 1..k = (1..(k - 1)) \cup {k}
      BY <1>3
    <3>1. k \in p /\ p # {}
      BY <2>2, <1>3, <1>5, <3>0
    <3>2. Max(p) = k
      BY <3>1, <1>5, <1>3, MaxOfPlaces
    <3>3. p \ {k} \in SUBSET (1..(k - 1)) /\ p \ {k} \in SUBSET (1..k)
      BY <1>3, <1>5, <3>0
    <3>4. h[p \ {k}] = g[p \ {k}]
      BY <3>3
    <3> QED BY <2>2, <3>1, <3>2, <3>4, <1>5
  <2> QED BY <2>1, <2>2
<1>6. IsFold(h, m, s, 1..k)
  <2> DEFINE f == [p \in SUBSET (1..k) |->
                     IF p = {} THEN m ELSE Becomes(h[p \ {Max(p)}], s[Max(p)])]
  <2>1. \A p \in SUBSET (1..k) : h[p] = f[p]
    BY <1>5
  <2>2. h = f
    BY <2>1
  <2> HIDE DEF h
  <2> QED BY <2>2 DEF IsFold
<1> QED BY <1>1, <1>6

(* From m, the messages s lead to n.                                       *)
Runs(m, s, n) ==
    \E A : /\ A[0] = m /\ A[Len(s)] = n
           /\ \A k \in 1..Len(s) : A[k] = Becomes(A[k - 1], s[k])

LEMMA FoldRuns ==
    ASSUME NEW m, NEW S, NEW s \in Seq(S)
    PROVE  Runs(m, s, FoldLeft(Becomes, m, s))
<1> DEFINE n == Len(s)
           iter == CHOOSE g : IsFold(g, m, s, 1..n)
           A == [k \in 0..n |-> iter[1..k]]
<1>1. n \in Nat /\ DOMAIN s = 1..n
  OBVIOUS
<1> HIDE DEF n
<1>2. IsFold(iter, m, s, 1..n)
  BY <1>1, FoldExists
<1>3. FoldLeft(Becomes, m, s) = iter[1..n]
  BY <1>1 DEF FoldLeft, MapThenFoldSet, IsFold
<1>4. \A p \in SUBSET (1..n) :
        iter[p] = IF p = {} THEN m ELSE Becomes(iter[p \ {Max(p)}], s[Max(p)])
  <2> HIDE DEF iter
  <2> QED BY <1>2 DEF IsFold
<1> HIDE DEF iter
<1>5. A[0] = m
  <2>1. 1..0 = {} /\ 0 \in 0..n
    BY <1>1
  <2> QED BY <2>1, <1>4
<1>6. ASSUME NEW k \in 1..n PROVE A[k] = Becomes(A[k - 1], s[k])
  <2>1. k \in Nat /\ k \in 1..k /\ 1..k \in SUBSET (1..n) /\ (1..k) \ {k} = 1..(k - 1)
        /\ k - 1 \in 0..n /\ k \in 0..n
    BY <1>1
  <2>2. Max(1..k) = k
    BY <2>1, MaxOfPlaces
  <2> QED BY <2>1, <2>2, <1>4
<1>7. A[n] = iter[1..n]
  BY <1>1
<1> HIDE DEF A
<1> QED BY <1>3, <1>5, <1>6, <1>7 DEF Runs, n

(* Part by part.                                                           *)
LEMMA RunsThrough ==
    ASSUME NEW S, NEW s \in Seq(S), NEW t \in Seq(S), NEW m, NEW n, Runs(m, s \o t, n)
    PROVE  \E x : Runs(m, s, x) /\ Runs(x, t, n)
<1> DEFINE a == Len(s)
           b == Len(t)
           u == s \o t
<1>1. /\ a \in Nat /\ b \in Nat /\ Len(u) = a + b
      /\ \A i \in 1..a : u[i] = s[i]
      /\ \A i \in 1..b : u[a + i] = t[i]
  <2>1. \A i \in 1..(Len(s) + Len(t)) :
          (s \o t)[i] = IF i <= Len(s) THEN s[i] ELSE t[i - Len(s)]
    BY ConcatProperties
  <2>2. Len(s) \in Nat /\ Len(t) \in Nat /\ Len(s \o t) = Len(s) + Len(t)
    BY ConcatProperties
  <2>3. \A i \in 1..Len(t) : Len(s) + i \in 1..(Len(s) + Len(t))
            /\ ~(Len(s) + i <= Len(s)) /\ Len(s) + i - Len(s) = i
    BY <2>2
  <2>4. \A i \in 1..Len(s) : i \in 1..(Len(s) + Len(t)) /\ i <= Len(s)
    BY <2>2
  <2> QED BY <2>1, <2>2, <2>3, <2>4
<1> HIDE DEF u
<1>2. PICK A : /\ A[0] = m /\ A[a + b] = n
               /\ \A k \in 1..(a + b) : A[k] = Becomes(A[k - 1], u[k])
  BY <1>1 DEF Runs, u
<1> HIDE DEF a, b
<1>3. Runs(m, s, A[a])
  <2>1. \A k \in 1..a : A[k] = Becomes(A[k - 1], s[k])
    <3> TAKE k \in 1..a
    <3>1. k \in 1..(a + b)
      BY <1>1
    <3> QED BY <3>1, <1>1, <1>2
  <2> QED BY <2>1, <1>2 DEF Runs, a
<1>4. Runs(A[a], t, n)
  <2> DEFINE B == [k \in 0..b |-> A[a + k]]
  <2>1. B[0] = A[a] /\ B[b] = n
    BY <1>1, <1>2
  <2>2. ASSUME NEW k \in 1..b PROVE B[k] = Becomes(B[k - 1], t[k])
    <3>1. a + k \in 1..(a + b) /\ k \in 0..b /\ k - 1 \in 0..b /\ a + k - 1 = a + (k - 1)
      BY <1>1
    <3> QED BY <3>1, <1>1, <1>2
  <2> HIDE DEF B
  <2> QED BY <2>1, <2>2 DEF Runs, b
<1> QED BY <1>3, <1>4

LEMMA RunsOnce ==
    ASSUME NEW x, NEW y, NEW m, Runs(x, <<m>>, y)
    PROVE  y = Becomes(x, m)
<1>1. Len(<<m>>) = 1 /\ <<m>>[1] = m
  OBVIOUS
<1>2. PICK A : A[0] = x /\ A[1] = y /\ A[1] = Becomes(A[1 - 1], m)
  BY <1>1 DEF Runs
<1> QED BY <1>2

LEMMA RunsToOne ==
    ASSUME NEW x, NEW M, NEW s \in Seq(M), NEW y, NEW z, Runs(x, s, y), Runs(x, s, z)
    PROVE  y = z
<1>1. PICK A : /\ A[0] = x /\ A[Len(s)] = y
               /\ \A k \in 1..Len(s) : A[k] = Becomes(A[k - 1], s[k])
  BY DEF Runs
<1>2. PICK B : /\ B[0] = x /\ B[Len(s)] = z
               /\ \A k \in 1..Len(s) : B[k] = Becomes(B[k - 1], s[k])
  BY DEF Runs
<1>3. Len(s) \in Nat
  OBVIOUS
<1> DEFINE T == {k \in 0..Len(s) : A[k] # B[k]}
<1>4. T = {}
  <2> SUFFICES ASSUME T # {} PROVE FALSE
    OBVIOUS
  <2>1. T \subseteq Nat
    BY <1>3
  <2>2. PICK k \in T : \A j \in T : ~ (<<j, k>> \in OpToRel(<, Nat))
    BY <2>1, NatLessThanWellFounded, WFMin
  <2>3. k # 0 /\ k \in 0..Len(s)
    BY <1>1, <1>2, <2>2
  <2>4. k \in 1..Len(s) /\ k - 1 \in 0..Len(s) /\ k - 1 < k
    BY <1>3, <2>3
  <2>5. A[k - 1] = B[k - 1]
    <3>1. <<k - 1, k>> \in OpToRel(<, Nat)
      BY <2>4, <1>3 DEF OpToRel
    <3> QED BY <2>2, <2>4, <3>1
  <2> QED BY <1>1, <1>2, <2>2, <2>4, <2>5
<1> QED BY <1>1, <1>2, <1>3, <1>4

(* What each message keeps, they keep together.                            *)
LEMMA RunsWithin ==
    ASSUME NEW M, NEW s \in Seq(M), NEW Q,
           \A q \in Q, e \in M : Becomes(q, e) \in Q,
           NEW m \in Q, NEW n, Runs(m, s, n)
    PROVE  n \in Q
<1>1. PICK A : /\ A[0] = m /\ A[Len(s)] = n
               /\ \A k \in 1..Len(s) : A[k] = Becomes(A[k - 1], s[k])
  BY DEF Runs
<1>2. Len(s) \in Nat /\ \A k \in 1..Len(s) : s[k] \in M
  BY ElementOfSeq
<1> DEFINE T == {k \in 0..Len(s) : A[k] \notin Q}
<1>3. T = {}
  <2> SUFFICES ASSUME T # {} PROVE FALSE
    OBVIOUS
  <2>1. T \subseteq Nat
    BY <1>2
  <2>2. PICK k \in T : \A j \in T : ~ (<<j, k>> \in OpToRel(<, Nat))
    BY <2>1, NatLessThanWellFounded, WFMin
  <2>3. k # 0 /\ k \in 0..Len(s)
    BY <1>1, <2>2
  <2>9. k \in 1..Len(s) /\ k - 1 \in 0..Len(s) /\ k - 1 < k
    BY <1>2, <2>3
  <2>4. A[k - 1] \in Q
    <3>1. <<k - 1, k>> \in OpToRel(<, Nat)
      BY <2>9, <1>2 DEF OpToRel
    <3> QED BY <2>2, <2>9, <3>1
  <2>5. A[k] = Becomes(A[k - 1], s[k]) /\ s[k] \in M
    BY <1>1, <1>2, <2>9
  <2> QED BY <2>2, <2>4, <2>5
<1> QED BY <1>1, <1>2, <1>3

(* The look-ahead: nothing to apply, one message more, one message less.   *)
LEMMA AppliedRuns ==
    ASSUME NEW x, NEW M, NEW s \in Seq(M)
    PROVE  Runs(x, s, Applied(x, s))
BY FoldRuns DEF Applied

LEMMA AppliedNone ==
    ASSUME NEW x
    PROVE  Applied(x, <<>>) = x
<1>1. <<>> \in Seq({})
  OBVIOUS
<1>2. Runs(x, <<>>, Applied(x, <<>>))
  BY <1>1, AppliedRuns
<1> QED BY <1>2 DEF Runs

LEMMA AppliedOnce ==
    ASSUME NEW x, NEW m
    PROVE  Applied(x, <<m>>) = Becomes(x, m)
<1>1. <<m>> \in Seq({m})
  OBVIOUS
<1>2. Runs(x, <<m>>, Applied(x, <<m>>))
  BY <1>1, AppliedRuns
<1> QED BY <1>2, RunsOnce

LEMMA AppliedFurther ==
    ASSUME NEW x, NEW M, NEW s \in Seq(M), NEW t \in Seq(M)
    PROVE  Applied(x, s \o t) = Applied(Applied(x, s), t)
<1>1. s \o t \in Seq(M)
  OBVIOUS
<1>2. PICK y : Runs(x, s, y) /\ Runs(y, t, Applied(x, s \o t))
  BY <1>1, AppliedRuns, RunsThrough
<1>3. y = Applied(x, s)
  BY <1>2, AppliedRuns, RunsToOne
<1> QED BY <1>2, <1>3, AppliedRuns, RunsToOne

LEMMA AppliedHead ==
    ASSUME NEW x, NEW M, NEW s \in Seq(M), s # <<>>
    PROVE  Applied(Becomes(x, Head(s)), Tail(s)) = Applied(x, s)
<1>1. <<Head(s)>> \in Seq(M) /\ Tail(s) \in Seq(M) /\ s = <<Head(s)>> \o Tail(s)
  OBVIOUS
<1>2. \A a, b \in Seq(M) : Applied(x, a \o b) = Applied(Applied(x, a), b)
  BY AppliedFurther
<1>3. Applied(x, <<Head(s)>> \o Tail(s)) = Applied(Applied(x, <<Head(s)>>), Tail(s))
  BY <1>1, <1>2
<1> QED BY <1>1, <1>3, AppliedOnce

(* What each message keeps, the look-ahead keeps.                          *)
LEMMA AppliedWithin ==
    ASSUME NEW M, NEW s \in Seq(M), NEW Q,
           \A q \in Q, e \in M : Becomes(q, e) \in Q,
           NEW x \in Q
    PROVE  Applied(x, s) \in Q
BY AppliedRuns, RunsWithin

-----------------------------------------------------------------------------
(* Orders, behaviors and messages.                                         *)

LEMMA NumbersFit ==
    /\ LastSoldier \in Nat \ {0} /\ Soldier = 1..LastSoldier
    /\ MaxPoints \in Nat \ {0} /\ Points = 0..MaxPoints /\ Points \subseteq Nat
    /\ Limit \in [Kinds -> Nat]
BY SoldierAssumption, BoundAssumption DEF Points

LEMMA OrderParts ==
    ASSUME NEW o \in Order
    PROVE  /\ o.kind \in Still \cup {"Move"} /\ o.left \in Points /\ o.then \in Thens
           /\ FromOrder(o) \in Behavior
           /\ FromOrder(o).kind = o.kind /\ FromOrder(o).left = o.left
           /\ IsMove(o) => \A n \in Points : [o EXCEPT !.left = n] \in Order
<1>1. CASE o \in [kind : {"Move"}, left : Points, then : Thens]
  <2>1. [kind |-> o.kind, left |-> o.left] \in Behavior
    BY <1>1 DEF Behavior
  <2>2. \A n \in Points : [o EXCEPT !.left = n] \in Order
    BY <1>1, Zenon DEF Order
  <2> QED BY <1>1, <2>1, <2>2 DEF FromOrder
<1>2. CASE o \in [kind : Still, left : {0}, then : {"None"}]
  <2>1. [kind |-> o.kind, left |-> o.left] \in Behavior
    BY <1>2 DEF Behavior
  <2>2. 0 \in Points
    BY NumbersFit
  <2> QED BY <1>2, <2>1, <2>2 DEF FromOrder, IsMove, Still, Thens
<1> QED BY <1>1, <1>2 DEF Order

LEMMA BehaviorParts ==
    ASSUME NEW b \in Behavior
    PROVE  /\ b.kind \in Still \cup {"Move", "Dead", "Unconscious"} /\ b.left \in Points
           /\ IsMove(b) => \A n \in Points : [b EXCEPT !.left = n] \in Behavior
<1>1. CASE b \in [kind : {"Move"}, left : Points]
  <2>1. \A n \in Points : [b EXCEPT !.left = n] \in Behavior
    BY <1>1, Zenon DEF Behavior
  <2> QED BY <1>1, <2>1
<1>2. CASE b \in [kind : Still \cup {"Dead", "Unconscious"}, left : {0}]
  <2>1. 0 \in Points
    BY NumbersFit
  <2> QED BY <1>2, <2>1 DEF IsMove, Still
<1> QED BY <1>1, <1>2 DEF Behavior

LEMMA Stills ==
    /\ \A k \in Still : Be(k) \in Order /\ ~IsMove(Be(k)) /\ HasPoints(Be(k))
    /\ \A k \in Still \cup {"Dead", "Unconscious"} :
          Does(k) \in Behavior /\ ~IsMove(Does(k)) /\ HasPoints(Does(k)) /\ Does(k).kind = k
    /\ \A k \in Still : FromOrder(Be(k)) = Does(k)
<1>1. ASSUME NEW k \in Still
      PROVE Be(k) \in Order /\ ~IsMove(Be(k)) /\ HasPoints(Be(k)) /\ FromOrder(Be(k)) = Does(k)
  BY DEF Be, Does, FromOrder, Order, Still, IsMove, HasPoints
<1>2. ASSUME NEW k \in Still \cup {"Dead", "Unconscious"}
      PROVE Does(k) \in Behavior /\ ~IsMove(Does(k)) /\ HasPoints(Does(k)) /\ Does(k).kind = k
  BY DEF Does, Behavior, Still, IsMove, HasPoints
<1> QED BY <1>1, <1>2

LEMMA Moves ==
    ASSUME NEW n \in Points, NEW t \in Thens
    PROVE  /\ Move(n, t) \in Order /\ IsMove(Move(n, t)) /\ Move(n, t).left = n
           /\ n > 0 => HasPoints(Move(n, t))
<1>1. [kind |-> "Move", left |-> n, then |-> t] \in Order
  BY DEF Order
<1> QED BY <1>1 DEF Move, IsMove, HasPoints

LEMMA NewMovesFit ==
    ASSUME NEW T, T \subseteq Thens, NEW o \in NewMoves(T)
    PROVE  o \in Order /\ IsMove(o) /\ HasPoints(o)
<1>1. PICK n \in 1..MaxPoints, t \in T : o = Move(n, t)
  BY DEF NewMoves
<1>2. n \in Points /\ n > 0 /\ t \in Thens
  BY <1>1, NumbersFit
<1> QED BY <1>1, <1>2, Moves

LEMMA AfterFits ==
    ASSUME NEW t \in Thens
    PROVE  After(t) \in Order /\ HasPoints(After(t)) /\ HasPoints(FromOrder(After(t)))
<1>1. MaxPoints \in Points /\ MaxPoints > 0 /\ "None" \in Thens /\ "Hold" \in Thens
  BY NumbersFit DEF Thens
<1>2. After(t) \in Order /\ HasPoints(After(t))
  <2>1. CASE t = "Flag"
    <3>1. After(t) = Move(MaxPoints, "None")
      BY <2>1 DEF After
    <3> QED BY <3>1, <1>1, Moves
  <2>2. CASE t = "Assault"
    <3>1. After(t) = Move(MaxPoints, "Hold")
      BY <2>2 DEF After
    <3> QED BY <3>1, <1>1, Moves
  <2>3. CASE t \in {"None", "Idle"}
    <3>1. After(t) = Be("Idle") /\ "Idle" \in Still
      BY <2>3 DEF After, Still
    <3> QED BY <3>1, Stills
  <2>4. CASE t \in {"Hold", "Away"}
    <3>1. After(t) = Be(t) /\ t \in Still
      BY <2>4 DEF After, Still
    <3> QED BY <3>1, Stills
  <2> QED BY <2>1, <2>2, <2>3, <2>4 DEF Thens
<1> QED BY <1>2, OrderParts DEF HasPoints, IsMove

LEMMA StepFits ==
    /\ \A o \in Order : IsMove(o) =>
          /\ Step(o) \in Order /\ IsMove(Step(o)) /\ Step(o).then = o.then
          /\ o.left > 0 => Step(o).left = o.left - 1
          /\ o.left = 0 => Step(o).left = 0
    /\ \A b \in Behavior : IsMove(b) =>
          /\ Step(b) \in Behavior /\ IsMove(Step(b))
          /\ b.left > 0 => Step(b).left = b.left - 1
          /\ b.left = 0 => Step(b).left = 0
<1>0. \A n \in Points : (IF n = 0 THEN 0 ELSE n - 1) \in Points /\ (n > 0 \/ n = 0)
  BY NumbersFit
<1>1. ASSUME NEW o \in Order, IsMove(o)
      PROVE /\ Step(o) \in Order /\ IsMove(Step(o)) /\ Step(o).then = o.then
            /\ o.left > 0 => Step(o).left = o.left - 1
            /\ o.left = 0 => Step(o).left = 0
  <2>1. o \in [kind : {"Move"}, left : Points, then : Thens]
    BY <1>1 DEF Order, Still, IsMove
  <2>2. Step(o) = [kind |-> "Move", left |-> IF o.left = 0 THEN 0 ELSE o.left - 1, then |-> o.then]
    BY <2>1 DEF Step
  <2> QED BY <1>0, <1>1, <2>1, <2>2, OrderParts, NumbersFit DEF Order, IsMove
<1>2. ASSUME NEW b \in Behavior, IsMove(b)
      PROVE /\ Step(b) \in Behavior /\ IsMove(Step(b))
            /\ b.left > 0 => Step(b).left = b.left - 1
            /\ b.left = 0 => Step(b).left = 0
  <2>1. b \in [kind : {"Move"}, left : Points]
    BY <1>2 DEF Behavior, Still, IsMove
  <2>2. Step(b) = [kind |-> "Move", left |-> IF b.left = 0 THEN 0 ELSE b.left - 1]
    BY <2>1 DEF Step
  <2> QED BY <1>0, <1>2, <2>1, <2>2, NumbersFit DEF Behavior, IsMove
<1> QED BY <1>1, <1>2

LEMMA MessageKinds ==
    ASSUME NEW m \in Message
    PROVE  m.kind \in {"SetOrders", "SetBehavior", "ReachBehaviorStep", "SetAlive",
                       "SetUnconscious", "MakeIdle", "SetSquadLeader"}
BY DEF Message

LEMMA OrdersParts ==
    ASSUME NEW m \in Message, m.kind = "SetOrders"
    PROVE  /\ m.orders \in PartialOrders /\ m.own \in BOOLEAN
           /\ m = SetOrders(m.orders, m.own)
BY DEF Message, SetOrders

LEMMA SetBehaviorParts ==
    ASSUME NEW m \in Message, m.kind = "SetBehavior"
    PROVE  /\ m.soldier \in Soldier /\ m.behavior \in Behavior
           /\ m = SetBehavior(m.soldier, m.behavior)
BY DEF Message, SetBehavior

LEMMA ReachStepParts ==
    ASSUME NEW m \in Message, m.kind = "ReachBehaviorStep"
    PROVE  m.soldier \in Soldier /\ m = ReachStep(m.soldier)
BY DEF Message, ReachStep

LEMMA DieParts ==
    ASSUME NEW m \in Message, m.kind = "SetAlive"
    PROVE  m.soldier \in Soldier /\ m = Die(m.soldier)
BY DEF Message, Die

LEMMA FaintParts ==
    ASSUME NEW m \in Message, m.kind = "SetUnconscious"
    PROVE  m.soldier \in Soldier /\ m = Faint(m.soldier)
BY DEF Message, Faint

LEMMA MakeIdleParts ==
    ASSUME NEW m \in Message, m.kind = "MakeIdle"
    PROVE  m.soldiers \in SUBSET Soldier /\ m = MakeIdle(m.soldiers)
BY DEF Message, MakeIdle

LEMMA SetSquadLeaderParts ==
    ASSUME NEW m \in Message, m.kind = "SetSquadLeader"
    PROVE  /\ m.squad \in Soldier /\ m.soldier \in Soldier
           /\ m = SetSquadLeader(m.squad, m.soldier)
BY DEF Message, SetSquadLeader

LEMMA MessagesMade ==
    /\ \A f \in PartialOrders, own \in BOOLEAN : SetOrders(f, own) \in Message
    /\ \A s \in Soldier, o \in Order, own \in BOOLEAN : SetOrder(s, o, own) \in Message
    /\ \A s \in Soldier, b \in Behavior : SetBehavior(s, b) \in Message
    /\ \A s \in Soldier : /\ ReachStep(s) \in Message /\ Die(s) \in Message
                         /\ Faint(s) \in Message
    /\ \A S \in SUBSET Soldier : MakeIdle(S) \in Message
    /\ \A q, s \in Soldier : SetSquadLeader(q, s) \in Message
<1>1. \A f \in PartialOrders, own \in BOOLEAN : SetOrders(f, own) \in Message
  BY DEF SetOrders, Message
<1>2. ASSUME NEW s \in Soldier, NEW o \in Order, NEW own \in BOOLEAN
      PROVE SetOrder(s, o, own) \in Message
  <2>1. [x \in {s} |-> o] \in PartialOrders
    <3>1. [x \in {s} |-> o] \in [{s} -> Order] /\ {s} \in SUBSET Soldier
      OBVIOUS
    <3> QED BY <3>1 DEF PartialOrders
  <2> QED BY <2>1, <1>1 DEF SetOrder
<1>3. \A s \in Soldier, b \in Behavior : SetBehavior(s, b) \in Message
  BY DEF SetBehavior, Message
<1>4. \A s \in Soldier : /\ ReachStep(s) \in Message /\ Die(s) \in Message
                         /\ Faint(s) \in Message
  BY DEF ReachStep, Die, Faint, Message
<1>5. \A S \in SUBSET Soldier : MakeIdle(S) \in Message
  BY DEF MakeIdle, Message
<1>6. \A q, s \in Soldier : SetSquadLeader(q, s) \in Message
  BY DEF SetSquadLeader, Message
<1> QED BY <1>1, <1>2, <1>3, <1>4, <1>5, <1>6

LEMMA PartialOrderParts ==
    ASSUME NEW f \in PartialOrders
    PROVE  DOMAIN f \subseteq Soldier /\ \A s \in DOMAIN f : f[s] \in Order
<1>1. PICK S \in SUBSET Soldier : f \in [S -> Order]
  BY DEF PartialOrders
<1> QED BY <1>1

(* What each message does to what a soldier will be.                       *)
LEMMA BecomesTold ==
    ASSUME NEW x, NEW f, NEW own
    PROVE  Becomes(x, SetOrders(f, own)) =
             IF x.soldier \in DOMAIN f
             THEN [x EXCEPT !.order = f[x.soldier], !.untaken = ~own] ELSE x
BY DEF Becomes, SetOrders

LEMMA BecomesOrdered ==
    ASSUME NEW x, NEW o
    PROVE  Becomes(x, SetOrder(x.soldier, o, TRUE)) = [x EXCEPT !.order = o, !.untaken = FALSE]
<1>1. DOMAIN [y \in {x.soldier} |-> o] = {x.soldier} /\ [y \in {x.soldier} |-> o][x.soldier] = o
  OBVIOUS
<1> QED BY <1>1 DEF Becomes, SetOrder, SetOrders

LEMMA RemainsUntold ==
    ASSUME NEW x, NEW s, x.soldier # s, NEW o
    PROVE  /\ Becomes(x, SetOrder(s, o, TRUE)) = x
           /\ Becomes(x, SetOrder(s, o, FALSE)) = x
<1>1. DOMAIN [y \in {s} |-> o] = {s}
  OBVIOUS
<1> QED BY <1>1 DEF Becomes, SetOrder, SetOrders

LEMMA BecomesDoing ==
    ASSUME NEW x, NEW s, NEW b
    PROVE  Becomes(x, SetBehavior(s, b)) =
             IF x.soldier = s THEN [x EXCEPT !.behavior = b] ELSE x
BY DEF Becomes, SetBehavior

LEMMA BecomesIdle ==
    ASSUME NEW x, NEW S
    PROVE  Becomes(x, MakeIdle(S)) =
             IF x.soldier \in S
             THEN [x EXCEPT !.order = Be("Idle"), !.behavior = Does("Idle"), !.untaken = FALSE]
             ELSE x
BY DEF Becomes, MakeIdle

LEMMA RemainsAtDeath == ASSUME NEW x, NEW s PROVE Becomes(x, Die(s)) = x
BY DEF Becomes, Die

LEMMA RemainsAtFaint == ASSUME NEW x, NEW s PROVE Becomes(x, Faint(s)) = x
BY DEF Becomes, Faint

LEMMA RemainsAtElection ==
    ASSUME NEW x, NEW q, NEW s
    PROVE  Becomes(x, SetSquadLeader(q, s)) = x
BY DEF Becomes, SetSquadLeader

LEMMA RemainsAtStep ==
    ASSUME NEW x, NEW s, x.soldier # s
    PROVE  Becomes(x, ReachStep(s)) = x
BY DEF Becomes, ReachStep

-----------------------------------------------------------------------------
(* Views: what a soldier is or will be.                                    *)

View == [soldier : Soldier, order : Order, behavior : Behavior,
         untaken : BOOLEAN, ended : BOOLEAN]

ViewsOf(s) == {x \in View : x.soldier = s}

LEMMA ViewParts ==
    ASSUME NEW s, NEW x \in ViewsOf(s)
    PROVE  /\ x \in View /\ x.soldier = s /\ x.order \in Order /\ x.behavior \in Behavior
           /\ x.untaken \in BOOLEAN /\ x.ended \in BOOLEAN
<1>0. x \in View /\ x.soldier = s
  BY DEF ViewsOf
<1> QED BY <1>0 DEF View

LEMMA OrderSet ==
    ASSUME NEW s, NEW x \in ViewsOf(s), NEW o \in Order, NEW t \in BOOLEAN
    PROVE  LET y == [x EXCEPT !.order = o, !.untaken = t] IN
           /\ y \in ViewsOf(s) /\ y.soldier = s /\ y.order = o /\ y.untaken = t
           /\ y.behavior = x.behavior /\ y.ended = x.ended
BY Zenon DEF ViewsOf, View

LEMMA BehaviorSet ==
    ASSUME NEW s, NEW x \in ViewsOf(s), NEW b \in Behavior
    PROVE  LET y == [x EXCEPT !.behavior = b] IN
           /\ y \in ViewsOf(s) /\ y.soldier = s /\ y.behavior = b
           /\ y.order = x.order /\ y.untaken = x.untaken /\ y.ended = x.ended
BY Zenon DEF ViewsOf, View

(* A point reached, in the order and in the behavior.                      *)
Reached(x) ==
    [x EXCEPT !.order = IF IsMove(@) THEN Step(@) ELSE @,
              !.behavior = IF OrderEnds(x.order) \/ ~IsMove(@) THEN @ ELSE Step(@),
              !.ended = @ \/ OrderEnds(x.order)
                        \/ (IsMove(x.behavior) /\ x.behavior.left <= 1)]

LEMMA Reaching ==
    ASSUME NEW s, NEW x \in ViewsOf(s)
    PROVE  /\ Becomes(x, ReachStep(s)) = Reached(x)
           /\ Reached(x) \in ViewsOf(s)
           /\ Reached(x).order = IF IsMove(x.order) THEN Step(x.order) ELSE x.order
           /\ Reached(x).behavior = IF OrderEnds(x.order) \/ ~IsMove(x.behavior)
                                    THEN x.behavior ELSE Step(x.behavior)
           /\ Reached(x).untaken = x.untaken
           /\ Reached(x).ended <=> \/ x.ended \/ OrderEnds(x.order)
                                   \/ IsMove(x.behavior) /\ x.behavior.left <= 1
           /\ Settled(x) => Settled(Reached(x))
<1> DEFINE o == IF IsMove(x.order) THEN Step(x.order) ELSE x.order
           b == IF OrderEnds(x.order) \/ ~IsMove(x.behavior)
                THEN x.behavior ELSE Step(x.behavior)
           e == \/ x.ended \/ OrderEnds(x.order)
                \/ IsMove(x.behavior) /\ x.behavior.left <= 1
<1>1. o \in Order /\ b \in Behavior
  BY ViewParts, StepFits
<1>2. e \in BOOLEAN
  OBVIOUS
<1>3. x.soldier = s
  BY ViewParts
<1>4. Becomes(x, ReachStep(s)) = Reached(x)
  BY <1>3 DEF Becomes, ReachStep, Reached
<1>5. Reached(x) = [x EXCEPT !.order = o, !.behavior = b, !.ended = e]
  BY DEF Reached, ViewsOf, View
<1>6. /\ Reached(x) \in ViewsOf(s) /\ Reached(x).order = o /\ Reached(x).behavior = b
      /\ Reached(x).ended = e /\ Reached(x).untaken = x.untaken
  <2> HIDE DEF o, b, e
  <2>1. LET y == [x EXCEPT !.order = o, !.behavior = b, !.ended = e] IN
        /\ y \in ViewsOf(s) /\ y.order = o /\ y.behavior = b /\ y.ended = e
        /\ y.untaken = x.untaken
    BY <1>1, <1>2, Zenon DEF ViewsOf, View
  <2> QED BY <1>5, <2>1, Zenon
<1>7. ASSUME Settled(x) PROVE Settled(Reached(x))
  <2>1. CASE x.untaken \/ e
    BY <2>1, <1>6 DEF Settled
  <2>2. CASE ~x.untaken /\ ~e
    <3>1. Agree(x.order, x.behavior) /\ ~OrderEnds(x.order)
      BY <2>2, <1>7 DEF Settled
    <3>2. x.order.left \in Nat /\ x.behavior.left \in Nat
      BY ViewParts, OrderParts, BehaviorParts, NumbersFit
    <3>3. Agree(o, b)
      <4>1. CASE ~IsMove(x.behavior)
        BY <4>1 DEF Agree
      <4>2. CASE IsMove(x.behavior)
        <5>1. IsMove(x.order) /\ x.order.left = x.behavior.left /\ x.order.left > 1
          BY <4>2, <3>1, <3>2 DEF Agree, OrderEnds
        <5>2. o = Step(x.order) /\ b = Step(x.behavior)
          BY <5>1, <4>2, <3>1
        <5>3. IsMove(o) /\ o.left = b.left
          <6> HIDE DEF o, b
          <6> QED BY <5>1, <5>2, <4>2, <3>2, ViewParts, StepFits
        <5> QED BY <5>3 DEF Agree
      <4> QED BY <4>1, <4>2
    <3> QED BY <3>3, <1>6 DEF Settled
  <2> QED BY <2>1, <2>2
<1> QED BY <1>4, <1>6, <1>7

LEMMA BecomesAView ==
    ASSUME NEW s, NEW x \in ViewsOf(s), NEW m \in Message
    PROVE  Becomes(x, m) \in ViewsOf(s)
<1>0. x.soldier = s
  BY ViewParts
<1>1. CASE m.kind = "SetOrders"
  <2>1. m = SetOrders(m.orders, m.own) /\ m.orders \in PartialOrders /\ m.own \in BOOLEAN
    BY <1>1, OrdersParts
  <2>2. s \in DOMAIN m.orders => m.orders[s] \in Order
    BY <2>1, PartialOrderParts
  <2>3. Becomes(x, SetOrders(m.orders, m.own)) =
          IF x.soldier \in DOMAIN m.orders
          THEN [x EXCEPT !.order = m.orders[x.soldier], !.untaken = ~m.own] ELSE x
    BY BecomesTold
  <2>4. CASE s \in DOMAIN m.orders
    <3> DEFINE t == ~m.own
               o == m.orders[x.soldier]
    <3>1. t \in BOOLEAN /\ o \in Order
      BY <1>0, <2>1, <2>2, <2>4
    <3> HIDE DEF t, o
    <3>2. [x EXCEPT !.order = o, !.untaken = t] \in ViewsOf(s)
      BY <3>1, Zenon DEF ViewsOf, View
    <3> QED BY <1>0, <2>1, <2>3, <2>4, <3>2 DEF t, o
  <2> QED BY <1>0, <2>1, <2>3, <2>4
<1>2. CASE m.kind = "SetBehavior"
  <2>1. m = SetBehavior(m.soldier, m.behavior) /\ m.behavior \in Behavior
    BY <1>2, SetBehaviorParts
  <2>2. Becomes(x, SetBehavior(m.soldier, m.behavior)) =
          IF s = m.soldier THEN [x EXCEPT !.behavior = m.behavior] ELSE x
    BY <1>0, BecomesDoing
  <2>3. [x EXCEPT !.behavior = m.behavior] \in ViewsOf(s)
    BY <2>1, BehaviorSet
  <2> QED BY <2>1, <2>2, <2>3
<1>3. CASE m.kind = "ReachBehaviorStep"
  <2>1. m = ReachStep(m.soldier)
    BY <1>3, ReachStepParts
  <2> QED BY <1>0, <2>1, RemainsAtStep, Reaching
<1>4. CASE m.kind = "MakeIdle"
  <2>1. m = MakeIdle(m.soldiers)
    BY <1>4, MakeIdleParts
  <2>2. Be("Idle") \in Order /\ Does("Idle") \in Behavior
    BY Stills DEF Still
  <2>3. Becomes(x, MakeIdle(m.soldiers)) =
          IF s \in m.soldiers
          THEN [x EXCEPT !.order = Be("Idle"), !.behavior = Does("Idle"), !.untaken = FALSE]
          ELSE x
    BY <1>0, BecomesIdle
  <2>4. [x EXCEPT !.order = Be("Idle"), !.behavior = Does("Idle"), !.untaken = FALSE]
          \in ViewsOf(s)
    BY <2>2, Zenon DEF ViewsOf, View
  <2> QED BY <2>1, <2>3, <2>4
<1>5. CASE m.kind = "SetAlive"
  BY <1>5, DieParts, RemainsAtDeath
<1>6. CASE m.kind = "SetUnconscious"
  BY <1>6, FaintParts, RemainsAtFaint
<1>7. CASE m.kind = "SetSquadLeader"
  BY <1>7, SetSquadLeaderParts, RemainsAtElection
<1> QED BY <1>1, <1>2, <1>3, <1>4, <1>5, <1>6, <1>7, MessageKinds

LEMMA ViewsAhead ==
    ASSUME NEW s, NEW x \in ViewsOf(s), NEW p \in Seq(Message)
    PROVE  Applied(x, p) \in ViewsOf(s)
<1>1. \A q \in ViewsOf(s), e \in Message : Becomes(q, e) \in ViewsOf(s)
  BY BecomesAView
<1> HIDE DEF ViewsOf
<1> QED BY <1>1, AppliedWithin

(* Messages that settle whom they touch, and leave the others settled.     *)
LEMMA ToldIsSettled ==
    ASSUME NEW s, NEW x \in ViewsOf(s), NEW f \in PartialOrders, Settled(x) \/ s \in DOMAIN f
    PROVE  Settled(Becomes(x, SetOrders(f, FALSE)))
<1>0. x.soldier = s
  BY ViewParts
<1>1. CASE s \in DOMAIN f
  <2>1. Becomes(x, SetOrders(f, FALSE)) = [x EXCEPT !.order = f[x.soldier], !.untaken = ~FALSE]
    BY <1>0, <1>1, BecomesTold
  <2>2. f[x.soldier] \in Order
    BY <1>0, <1>1, PartialOrderParts
  <2>3. Becomes(x, SetOrders(f, FALSE)).untaken
    BY <2>1, <2>2 DEF ViewsOf, View
  <2> QED BY <2>3 DEF Settled
<1>2. CASE s \notin DOMAIN f
  <2>1. Becomes(x, SetOrders(f, FALSE)) = x
    BY <1>0, <1>2, BecomesTold
  <2> QED BY <1>2, <2>1
<1> QED BY <1>1, <1>2

LEMMA IdleIsSettled ==
    ASSUME NEW s, NEW x \in ViewsOf(s), Settled(x), NEW S
    PROVE  Settled(Becomes(x, MakeIdle(S)))
<1>1. CASE x.soldier \in S
  <2>1. Becomes(x, MakeIdle(S)) =
          [x EXCEPT !.order = Be("Idle"), !.behavior = Does("Idle"), !.untaken = FALSE]
    BY <1>1, BecomesIdle
  <2>2. Becomes(x, MakeIdle(S)).behavior = Does("Idle")
    BY <2>1 DEF ViewsOf, View
  <2> QED BY <2>2, Stills DEF Settled, Agree, Still
<1>2. CASE x.soldier \notin S
  <2>1. Becomes(x, MakeIdle(S)) = x
    BY <1>2, BecomesIdle
  <2> QED BY <2>1
<1> QED BY <1>1, <1>2

LEMMA StepIsSettled ==
    ASSUME NEW s, NEW x \in ViewsOf(s), Settled(x), NEW t
    PROVE  Settled(Becomes(x, ReachStep(t)))
<1>0. x.soldier = s
  BY ViewParts
<1>1. CASE s = t
  BY <1>1, Reaching
<1>2. CASE s # t
  BY <1>0, <1>2, RemainsAtStep
<1> QED BY <1>1, <1>2

LEMMA StandingIsSettled ==
    ASSUME NEW s, NEW x \in ViewsOf(s), Settled(x), NEW t, NEW b \in Behavior, ~IsMove(b)
    PROVE  Settled(Becomes(x, SetBehavior(t, b)))
<1>1. CASE x.soldier = t
  <2>1. Becomes(x, SetBehavior(t, b)) = [x EXCEPT !.behavior = b]
    BY <1>1, BecomesDoing
  <2>2. Becomes(x, SetBehavior(t, b)).behavior = b
    BY <2>1, BehaviorSet
  <2> QED BY <2>2 DEF Settled, Agree
<1>2. CASE x.soldier # t
  <2>1. Becomes(x, SetBehavior(t, b)) = x
    BY <1>2, BecomesDoing
  <2> QED BY <2>1
<1> QED BY <1>1, <1>2

LEMMA OwnOrder ==
    ASSUME NEW s, NEW x \in ViewsOf(s), NEW o \in Order
    PROVE  LET y == Becomes(x, SetOrder(s, o, TRUE)) IN
           y \in ViewsOf(s) /\ y.order = o /\ y.behavior = x.behavior
<1>1. x.soldier = s
  BY ViewParts
<1>2. Becomes(x, SetOrder(s, o, TRUE)) = [x EXCEPT !.order = o, !.untaken = FALSE]
  BY <1>1, BecomesOrdered, Zenon
<1>3. FALSE \in BOOLEAN
  OBVIOUS
<1>4. LET y == [x EXCEPT !.order = o, !.untaken = FALSE] IN
      y \in ViewsOf(s) /\ y.order = o /\ y.behavior = x.behavior
  BY <1>3, Zenon DEF ViewsOf, View
<1> QED BY <1>2, <1>4

LEMMA OwnBehavior ==
    ASSUME NEW s, NEW x \in ViewsOf(s), NEW b \in Behavior
    PROVE  LET y == Becomes(x, SetBehavior(s, b)) IN
           /\ y \in ViewsOf(s) /\ y.behavior = b
           /\ y.order = x.order /\ y.untaken = x.untaken /\ y.ended = x.ended
<1>1. x.soldier = s
  BY ViewParts
<1>2. Becomes(x, SetBehavior(s, b)) = [x EXCEPT !.behavior = b]
  BY <1>1, BecomesDoing
<1> QED BY <1>2, BehaviorSet

LEMMA MadeFromItsOrder ==
    ASSUME NEW o \in Order
    PROVE  Agree(o, FromOrder(o))
BY OrderParts DEF Agree, IsMove

LEMMA PairsAreSettled ==
    ASSUME NEW s, NEW x \in ViewsOf(s), Settled(x), NEW t, NEW o \in Order
    PROVE  /\ Settled(Becomes(Becomes(x, SetBehavior(t, FromOrder(o))), SetOrder(t, o, TRUE)))
           /\ Settled(Becomes(Becomes(x, SetOrder(t, o, TRUE)), SetBehavior(t, FromOrder(o))))
<1>1. CASE t = s
  <2>0. FromOrder(o) \in Behavior /\ Agree(o, FromOrder(o))
    BY OrderParts, MadeFromItsOrder
  <2>1. Settled(Becomes(Becomes(x, SetBehavior(s, FromOrder(o))), SetOrder(s, o, TRUE)))
    <3> DEFINE y == Becomes(x, SetBehavior(s, FromOrder(o)))
    <3>1. y \in ViewsOf(s) /\ y.behavior = FromOrder(o)
      BY <2>0, OwnBehavior
    <3> HIDE DEF y
    <3>2. LET z == Becomes(y, SetOrder(s, o, TRUE)) IN z.order = o /\ z.behavior = FromOrder(o)
      BY <3>1, OwnOrder
    <3> QED BY <2>0, <3>2 DEF Settled, y
  <2>2. Settled(Becomes(Becomes(x, SetOrder(s, o, TRUE)), SetBehavior(s, FromOrder(o))))
    <3> DEFINE y == Becomes(x, SetOrder(s, o, TRUE))
    <3>1. y \in ViewsOf(s) /\ y.order = o
      BY OwnOrder
    <3> HIDE DEF y
    <3>2. LET z == Becomes(y, SetBehavior(s, FromOrder(o))) IN
            z.order = o /\ z.behavior = FromOrder(o)
      BY <2>0, <3>1, OwnBehavior
    <3> QED BY <2>0, <3>2 DEF Settled, y
  <2> QED BY <1>1, <2>1, <2>2
<1>2. CASE t # s
  <2>1. x.soldier # t
    BY <1>2, ViewParts
  <2>2. Becomes(x, SetBehavior(t, FromOrder(o))) = x
    BY <2>1, BecomesDoing
  <2>3. Becomes(x, SetOrder(t, o, TRUE)) = x
    BY <2>1, RemainsUntold, Zenon
  <2> QED BY <2>2, <2>3
<1> QED BY <1>1, <1>2

(* A soldier that is only told something will have to look at it; one that *)
(* engages may have been made idle before, and does not walk.              *)
OnlyToldTo(m, s, engages) ==
    \/ m.kind = "SetOrders" /\ ~m.own
    \/ s \notin TouchedBy(m)
    \/ m.kind = "MakeIdle" /\ engages

LEMMA OnlyTold ==
    ASSUME NEW s, NEW x \in ViewsOf(s), NEW engages, NEW p \in Seq(Message),
           \A i \in DOMAIN p : OnlyToldTo(p[i], s, engages)
    PROVE  LET y == Applied(x, p) IN
           /\ y \in ViewsOf(s)
           /\ \/ y.behavior = x.behavior /\ (y.untaken \/ y = x)
              \/ engages /\ ~IsMove(y.behavior)
<1> DEFINE M == {m \in Message : OnlyToldTo(m, s, engages)}
           Q == {y \in ViewsOf(s) : \/ y.behavior = x.behavior /\ (y.untaken \/ y = x)
                                    \/ engages /\ ~IsMove(y.behavior)}
<1>1. p \in Seq(M)
  <2>1. \A i \in 1..Len(p) : p[i] \in M
    OBVIOUS
  <2>2. Len(p) \in Nat /\ DOMAIN p = 1..Len(p)
    OBVIOUS
  <2> HIDE DEF M
  <2>3. p = [i \in 1..Len(p) |-> p[i]]
    OBVIOUS
  <2> QED BY <2>1, <2>2, <2>3
<1>2. ASSUME NEW q \in Q, NEW m \in M PROVE Becomes(q, m) \in Q
  <2>0. q \in ViewsOf(s) /\ q.soldier = s /\ m \in Message
    BY ViewParts
  <2>4. Becomes(q, m) \in ViewsOf(s)
    BY <2>0, BecomesAView
  <2>1. CASE m.kind = "SetOrders" /\ s \in DOMAIN m.orders /\ ~m.own
    <3>1. m = SetOrders(m.orders, m.own) /\ m.orders \in PartialOrders
      BY <2>0, <2>1, OrdersParts
    <3> DEFINE o == m.orders[q.soldier]
    <3>2. o \in Order
      BY <2>0, <2>1, <3>1, PartialOrderParts
    <3>3. Becomes(q, m) = [q EXCEPT !.order = o, !.untaken = ~m.own]
      BY <2>0, <2>1 DEF Becomes
    <3> HIDE DEF o
    <3>4. Becomes(q, m).untaken /\ Becomes(q, m).behavior = q.behavior
      BY <2>0, <2>1, <3>3 DEF ViewsOf, View
    <3> QED BY <2>4, <3>4
  <2>2. CASE m.kind = "MakeIdle" /\ s \in m.soldiers
    <3>1. engages
      BY <2>2 DEF OnlyToldTo, TouchedBy
    <3>2. Becomes(q, m) =
            [q EXCEPT !.order = Be("Idle"), !.behavior = Does("Idle"), !.untaken = FALSE]
      BY <2>0, <2>2 DEF Becomes
    <3>3. Becomes(q, m).behavior = Does("Idle")
      BY <2>0, <3>2 DEF ViewsOf, View
    <3>4. ~IsMove(Becomes(q, m).behavior)
      BY <3>3, Stills DEF Still
    <3> QED BY <2>4, <3>1, <3>4
  <2>3. CASE /\ ~(m.kind = "SetOrders" /\ s \in DOMAIN m.orders /\ ~m.own)
             /\ ~(m.kind = "MakeIdle" /\ s \in m.soldiers)
    <3>1. s \notin TouchedBy(m)
      BY <2>3 DEF OnlyToldTo, TouchedBy
    <3>2. Becomes(q, m) = q
      BY <2>0, <3>1, MessageKinds DEF TouchedBy, Becomes
    <3> QED BY <3>2
  <2> QED BY <2>1, <2>2, <2>3
<1>3. x \in Q
  OBVIOUS
<1>4. Applied(x, p) \in Q
  <2> HIDE DEF M, Q
  <2> QED BY <1>1, <1>2, <1>3, AppliedWithin
<1> QED BY <1>4

-----------------------------------------------------------------------------
(* Lists of messages.                                                      *)

LEMMA Appended ==
    ASSUME NEW M, NEW p \in Seq(M), NEW q \in Seq(M)
    PROVE  /\ p \o q \in Seq(M) /\ Len(p) \in Nat /\ Len(q) \in Nat
           /\ Len(p \o q) = Len(p) + Len(q)
           /\ \A i \in DOMAIN p : i \in DOMAIN (p \o q) /\ (p \o q)[i] = p[i] /\ i <= Len(p)
           /\ \A i \in DOMAIN (p \o q) :
                 \/ i \in DOMAIN p /\ (p \o q)[i] = p[i]
                 \/ i > Len(p) /\ i - Len(p) \in DOMAIN q /\ (p \o q)[i] = q[i - Len(p)]
OBVIOUS

LEMMA Taken ==
    ASSUME NEW M, NEW p \in Seq(M), p # <<>>
    PROVE  /\ Tail(p) \in Seq(M) /\ Head(p) \in M /\ Head(p) = p[1] /\ 1 \in DOMAIN p
           /\ \A i \in DOMAIN Tail(p) : /\ i \in Nat \ {0} /\ i + 1 \in DOMAIN p
                                        /\ Tail(p)[i] = p[i + 1]
OBVIOUS

-----------------------------------------------------------------------------
(* What soldiers decide, and what they tell each other.                    *)

LEMMA DecisionsFit ==
    ASSUME TypeOK, NEW s \in Soldier, NEW d \in Routine(s) \cup Decisions(s)
    PROVE  \/ \E o \in Order : d = Change(o) /\ HasPoints(o)
           \/ d = Keep(FromOrder(order[s]))
           \/ \E k \in Still : d = Keep(Does(k))
<1>0. order[s] \in Order
  BY DEF TypeOK
<1>1. {"Idle", "Hold", "Engage"} \subseteq Still
  BY DEF Still
<1>2. CASE d \in Routine(s)
  BY <1>1, <1>2 DEF Routine
<1>3. CASE d \in Decisions(s)
  <2>1. \A T : T \subseteq Thens => \A o \in NewMoves(T) : o \in Order /\ HasPoints(o)
    BY NewMovesFit
  <2>2. {"Idle"} \subseteq Thens /\ {"None", "Flag"} \subseteq Thens /\ {"Hold"} \subseteq Thens
    BY DEF Thens
  <2>3. CASE d \in {Change(Be("Hold")), Change(Be("Idle"))}
    BY <1>1, <2>3, Stills
  <2>4. CASE d \in {Keep(Does("Engage")), Keep(Does("Hold"))}
    BY <1>1, <2>4
  <2>5. CASE \E o \in NewMoves({"Idle"}) \cup NewMoves({"None", "Flag"}) \cup NewMoves({"Hold"}) :
               d = Change(o)
    BY <2>1, <2>2, <2>5
  <2>6. CASE d = Change(order[s]) /\ order[s].left > 0
    BY <1>0, <2>6 DEF HasPoints
  <2> HIDE DEF Decisions
  <2>7. d \in Panic \cup AtContact \cup FetchAmmunition \cup Flank \cup ReturnToCheckpoint
             \cup SetOutForFlag \cup Indoors
        \/ (order[s].left > 0 /\ d \in StackUp(s))
    BY <1>3 DEF Decisions
  <2> QED
    BY <2>3, <2>4, <2>5, <2>6, <2>7 DEF Panic, AtContact, FetchAmmunition, Flank,
       ReturnToCheckpoint, SetOutForFlag, Indoors, StackUp
<1> QED BY <1>2, <1>3

LEMMA DecisionParts ==
    /\ \A o : Change(o).orders = {o} /\ Change(o).behavior = FromOrder(o)
    /\ \A b : Keep(b).orders = {} /\ Keep(b).behavior = b
BY DEF Change, Keep

LEMMA ToldFits ==
    ASSUME TypeOK, NEW s \in Soldier, NEW b \in Behavior,
           NEW told \in Propagations(s, b) \cup {<<>>}
    PROVE  /\ told \in PartialOrders
           /\ HasPoints(b) => \A t \in DOMAIN told : HasPoints(told[t])
<1> DEFINE Good(o) == o \in Order /\ (HasPoints(b) => HasPoints(o))
<1>0. \A f, S : /\ S \subseteq Soldier /\ DOMAIN f = S /\ f = [x \in S |-> f[x]]
                /\ (\A t \in S : Good(f[t]))
                => f \in PartialOrders /\ (HasPoints(b) => \A t \in DOMAIN f : HasPoints(f[t]))
  <2> SUFFICES ASSUME NEW f, NEW S, S \subseteq Soldier, DOMAIN f = S, f = [x \in S |-> f[x]],
                      \A t \in S : Good(f[t])
               PROVE  f \in PartialOrders /\ (HasPoints(b) => \A t \in DOMAIN f : HasPoints(f[t]))
    OBVIOUS
  <2>1. f \in [S -> Order] /\ S \in SUBSET Soldier
    OBVIOUS
  <2> QED BY <2>1 DEF PartialOrders
<1>1. alive \subseteq Soldier /\ \A t : SquadOf(t) \subseteq Soldier
  BY DEF TypeOK, SquadOf
<1>2. b.left \in Points /\ MaxPoints \in Points /\ MaxPoints > 0
  BY BehaviorParts, NumbersFit
<1>3. {"None", "Hold", "Away"} \subseteq Thens /\ {"Hold"} \subseteq Thens /\ {"None"} \subseteq Thens
  BY DEF Thens
<1>4. \A k \in {"Hold", "Engage", "Away"} : Good(Be(k))
  BY Stills DEF Still
<1>5. \A T : T \subseteq Thens => \A o \in NewMoves(T) : Good(o)
  BY NewMovesFit
<1>6. Good(Move(MaxPoints, "Hold")) /\ Good(Move(MaxPoints, "Away"))
  BY <1>2, <1>3, Moves
<1>7. b.kind = "Move" => Good(Move(b.left, "None"))
  <2> SUFFICES ASSUME b.kind = "Move" PROVE Good(Move(b.left, "None"))
    OBVIOUS
  <2>1. HasPoints(b) => b.left > 0
    BY DEF HasPoints, IsMove
  <2>2. "None" \in Thens
    BY <1>3
  <2> QED BY <1>2, <2>1, <2>2, Moves
<1>8. \A o \in Told(b) : Good(o)
  <2> HIDE DEF Good
  <2>1. CASE b.kind = "Move"
    BY <1>7, <2>1 DEF Told, ToldToMove
  <2>2. CASE b.kind = "Hold"
    BY <1>6, <2>2 DEF Told, ToldToHold
  <2>3. CASE b.kind = "Engage"
    BY <1>3, <1>4, <1>5, <2>3 DEF Told, ToldToEngage
  <2>4. CASE b.kind = "Away"
    BY <1>4, <2>4 DEF Told
  <2>5. CASE b.kind \notin {"Move", "Hold", "Engage", "Away"}
    BY <2>5 DEF Told
  <2> QED BY <2>1, <2>2, <2>3, <2>4, <2>5
<1> HIDE DEF Good
<1>9. CASE told = <<>>
  <2>1. DOMAIN <<>> = {} /\ <<>> = [x \in {} |-> <<>>[x]]
    OBVIOUS
  <2> QED BY <1>0, <1>9, <2>1
<1>10. CASE \E S \in SUBSET ((SquadOf(s) \cap alive) \ {s}) : told \in [S -> Told(b)]
  <2>1. PICK S \in SUBSET ((SquadOf(s) \cap alive) \ {s}) : told \in [S -> Told(b)]
    BY <1>10
  <2>2. S \subseteq Soldier /\ DOMAIN told = S /\ told = [x \in S |-> told[x]]
        /\ \A t \in S : Good(told[t])
    BY <1>1, <1>8, <2>1
  <2> QED BY <1>0, <2>2
<1>11. CASE told = [x \in {s} |-> Be("Hold")]
  <2>1. {s} \subseteq Soldier /\ DOMAIN told = {s} /\ told = [x \in {s} |-> told[x]]
        /\ \A t \in {s} : Good(told[t])
    BY <1>4, <1>11
  <2> QED BY <1>0, <2>1
<1>12. CASE \E C \in SUBSET (alive \ SquadOf(s)) : told \in Flees(s, C)
  <2>1. PICK C \in SUBSET (alive \ SquadOf(s)) : told \in Flees(s, C)
    BY <1>12
  <2>2. PICK o \in NewMoves({"Hold"}) \cup {Move(MaxPoints, "Away")} :
          told = [x \in {s} \cup C |-> IF x = s THEN o ELSE Be("Engage")]
    BY <2>1 DEF Flees
  <2>3. Good(o) /\ Good(Be("Engage"))
    BY <1>3, <1>4, <1>5, <1>6, <2>2
  <2>4. {s} \cup C \subseteq Soldier /\ DOMAIN told = {s} \cup C
        /\ told = [x \in {s} \cup C |-> told[x]]
        /\ \A t \in {s} \cup C : Good(told[t])
    BY <1>1, <2>2, <2>3
  <2> QED BY <1>0, <2>4
<1> QED
  BY <1>9, <1>10, <1>11, <1>12, Zenon DEF Propagations

LEMMA ShortLists ==
    ASSUME NEW M
    PROVE  /\ <<>> \in Seq(M) /\ \A m \in M : <<m>> \in Seq(M)
           /\ \A p, q \in Seq(M) : p \o q \in Seq(M)
OBVIOUS

(* What a soldier does in its turn, part by part.                          *)
OwnPart(s, d) ==
    IF d.orders = {} THEN <<>> ELSE <<SetOrder(s, CHOOSE o \in d.orders : TRUE, TRUE)>>
ToldPart(told) == IF DOMAIN told = {} THEN <<>> ELSE <<SetOrders(told, FALSE)>>
DoingPart(s, d) == IF Changes(s, d) THEN <<SetBehavior(s, d.behavior)>> ELSE <<>>

LEMMA ActingParts ==
    ASSUME NEW s, NEW d, NEW told
    PROVE  Acting(s, d, told) = (OwnPart(s, d) \o ToldPart(told)) \o DoingPart(s, d)
BY DEF Acting, OwnPart, ToldPart, DoingPart

LEMMA OwnParts ==
    /\ \A s, o : OwnPart(s, Change(o)) = <<SetOrder(s, o, TRUE)>>
    /\ \A s, b : OwnPart(s, Keep(b)) = <<>>
<1>1. ASSUME NEW s, NEW o PROVE OwnPart(s, Change(o)) = <<SetOrder(s, o, TRUE)>>
  <2>1. Change(o).orders = {o} /\ {o} # {} /\ (CHOOSE x \in {o} : TRUE) = o
    BY DecisionParts
  <2> QED BY <2>1, Zenon DEF OwnPart
<1>2. ASSUME NEW s, NEW b PROVE OwnPart(s, Keep(b)) = <<>>
  <2>1. Keep(b).orders = {}
    BY DecisionParts
  <2> QED BY <2>1 DEF OwnPart
<1> QED BY <1>1, <1>2

(* The decisions a soldier may take, with what its squad may be told.      *)
Deciding(s, d, told) ==
    /\ d \in Routine(s) \cup Decisions(s)
    /\ told \in Propagations(s, d.behavior) \cup {<<>>}

LEMMA DecidedBehavior ==
    ASSUME TypeOK, NEW s \in Soldier, NEW d \in Routine(s) \cup Decisions(s)
    PROVE  /\ d.behavior \in Behavior
           /\ HasPoints(order[s]) => HasPoints(d.behavior)
<1>0. order[s] \in Order
  BY DEF TypeOK
<1>1. CASE \E o \in Order : d = Change(o) /\ HasPoints(o)
  BY <1>1, DecisionParts, OrderParts DEF HasPoints, IsMove
<1>2. CASE d = Keep(FromOrder(order[s]))
  BY <1>0, <1>2, DecisionParts, OrderParts DEF HasPoints, IsMove
<1>3. CASE \E k \in Still : d = Keep(Does(k))
  BY <1>3, DecisionParts, Stills
<1> QED BY <1>1, <1>2, <1>3, DecisionsFit

(* The messages a soldier sends in its turn.                               *)
Sent(s) ==
    {m \in Message : /\ m.kind \in {"SetOrders", "SetBehavior"}
                     /\ (m.kind = "SetOrders" /\ ~m.own) \/ TouchedBy(m) = {s}}

LEMMA ActingIsSent ==
    ASSUME TypeOK, NEW s \in Soldier, NEW d, NEW told, Deciding(s, d, told)
    PROVE  /\ OwnPart(s, d) \in Seq(Sent(s)) /\ ToldPart(told) \in Seq(Sent(s))
           /\ DoingPart(s, d) \in Seq(Sent(s)) /\ Acting(s, d, told) \in Seq(Sent(s))
<1>1. OwnPart(s, d) \in Seq(Sent(s))
  <2>1. CASE \E o \in Order : d = Change(o)
    <3>1. PICK o \in Order : d = Change(o)
      BY <2>1
    <3>2. SetOrder(s, o, TRUE) \in Message
      BY MessagesMade
    <3>3. SetOrder(s, o, TRUE) \in Sent(s)
      BY <3>2 DEF Sent, SetOrder, SetOrders, TouchedBy
    <3>4. <<SetOrder(s, o, TRUE)>> \in Seq(Sent(s))
      BY <3>3, ShortLists, Zenon
    <3> QED BY <3>1, <3>4, OwnParts
  <2>2. CASE \E b : d = Keep(b)
    BY <2>2, OwnParts, ShortLists
  <2> QED BY <2>1, <2>2, DecisionsFit DEF Deciding
<1>2. ToldPart(told) \in Seq(Sent(s))
  <2>1. told \in PartialOrders
    BY ToldFits, DecidedBehavior DEF Deciding
  <2>2. SetOrders(told, FALSE) \in Message
    BY <2>1, MessagesMade
  <2>3. SetOrders(told, FALSE) \in Sent(s)
    BY <2>2 DEF Sent, SetOrders
  <2> QED BY <2>3, ShortLists DEF ToldPart
<1>3. DoingPart(s, d) \in Seq(Sent(s))
  <2>1. SetBehavior(s, d.behavior) \in Message
    BY MessagesMade, DecidedBehavior DEF Deciding
  <2>2. SetBehavior(s, d.behavior) \in Sent(s)
    BY <2>1 DEF Sent, SetBehavior, TouchedBy
  <2> QED BY <2>2, ShortLists DEF DoingPart
<1>4. Acting(s, d, told) \in Seq(Sent(s))
  BY <1>1, <1>2, <1>3, ActingParts, ShortLists, Zenon
<1> QED BY <1>1, <1>2, <1>3, <1>4

LEMMA AnimateActs ==
    ASSUME NEW s \in Soldier, Animate(s)
    PROVE  \E d, told : Deciding(s, d, told) /\ pending' = pending \o Acting(s, d, told)
<1>1. CASE \E d \in Routine(s) : \E told \in
             IF Leads(s) /\ Changes(s, d) THEN Propagations(s, d.behavior) ELSE {<<>>} :
           pending' = pending \o Acting(s, d, told)
  BY <1>1, Zenon DEF Deciding
<1>2. CASE \E d \in Decisions(s) : \E told \in
             IF Leads(s) /\ Changes(s, d) THEN Propagations(s, d.behavior) ELSE {<<>>} :
           pending' = pending \o Acting(s, d, told)
  BY <1>2, Zenon DEF Deciding
<1> QED BY <1>1, <1>2, Zenon DEF Animate

-----------------------------------------------------------------------------
(* Types, and what each stage leaves.                                      *)

LEMMA EventCounts ==
    ASSUME TypeOK, NEW k \in Kinds, Event(k)
    PROVE  events' \in [Kinds -> Nat] /\ \A x \in Kinds : events'[x] <= Limit[x]
<1>1. events[k] \in Nat /\ Limit[k] \in Nat /\ events[k] < Limit[k]
  BY NumbersFit DEF TypeOK, Event
<1>2. events[k] + 1 \in Nat /\ events[k] + 1 <= Limit[k]
  BY <1>1
<1> QED BY <1>2 DEF TypeOK, Event

LEMMA TurnsPass ==
    ASSUME TypeOK, NEW next, NextTurn(next)
    PROVE  /\ turn \in Nat /\ turn' \in Soldier
           /\ stage' = stage \/ stage' = next
           /\ stage' # next => turn' = turn + 1 /\ stage' = stage
BY NumbersFit DEF TypeOK, NextTurn

LEMMA StepsOfAWalk ==
    ASSUME TypeOK, NEW s \in Soldier, Update(s)
    PROVE  \/ Updated(s, <<>>)
           \/ behavior[s].left > 1 /\ Walking(s) /\ Updated(s, <<ReachStep(s)>>)
           \/ Walking(s) /\ \E o \in Order :
                /\ HasPoints(o)
                /\ Updated(s, <<SetBehavior(s, FromOrder(o)), SetOrder(s, o, TRUE)>>)
           \/ \E o \in Order :
                /\ HasPoints(o) /\ ~IsMove(o)
                /\ Updated(s, <<SetOrder(s, o, TRUE), SetBehavior(s, FromOrder(o))>>)
<1>0. order[s] \in Order
  BY DEF TypeOK
<1>1. CASE EndOfPath(s)
  <2>1. After(order[s].then) \in Order /\ HasPoints(After(order[s].then))
    BY <1>0, OrderParts, AfterFits
  <2> QED BY <1>1, <2>1, Zenon DEF EndOfPath
<1>2. CASE PointReached(s)
  BY <1>2, Zenon DEF PointReached
<1>3. CASE ReturnToMap(s)
  <2>1. /\ Be("Hold") \in Order /\ HasPoints(Be("Hold")) /\ ~IsMove(Be("Hold"))
        /\ Does("Hold") = FromOrder(Be("Hold"))
    BY Stills DEF Still
  <2> QED BY <1>3, <2>1, Zenon DEF ReturnToMap
<1>4. CASE NoStep(s)
  BY <1>4, Zenon DEF NoStep
<1> QED BY <1>1, <1>2, <1>3, <1>4 DEF Update

LEMMA MessagesOfAWalk ==
    ASSUME NEW s \in Soldier
    PROVE  /\ <<>> \in Seq(Message) /\ <<ReachStep(s)>> \in Seq(Message)
           /\ \A o \in Order :
                /\ <<SetBehavior(s, FromOrder(o)), SetOrder(s, o, TRUE)>> \in Seq(Message)
                /\ <<SetOrder(s, o, TRUE), SetBehavior(s, FromOrder(o))>> \in Seq(Message)
<1>1. ReachStep(s) \in Message
  BY MessagesMade
<1>2. ASSUME NEW o \in Order
      PROVE /\ <<SetBehavior(s, FromOrder(o)), SetOrder(s, o, TRUE)>> \in Seq(Message)
            /\ <<SetOrder(s, o, TRUE), SetBehavior(s, FromOrder(o))>> \in Seq(Message)
  <2>1. SetBehavior(s, FromOrder(o)) \in Message /\ SetOrder(s, o, TRUE) \in Message
    BY OrderParts, MessagesMade
  <2>2. \A m, n \in Message : <<m, n>> \in Seq(Message)
    OBVIOUS
  <2> QED BY <2>1, <2>2, Zenon
<1> QED BY <1>1, <1>2, ShortLists

LEMMA UpdatedTypes ==
    ASSUME TypeOK, NEW s \in Soldier, NEW msgs \in Seq(Message), Updated(s, msgs)
    PROVE  TypeOK'
<1>1. pending' \in Seq(Message)
  BY ShortLists DEF TypeOK, Updated
<1>2. turn' \in Soldier /\ (stage' = stage \/ stage' = "leaders")
  BY TurnsPass DEF Updated
<1> QED BY <1>1, <1>2 DEF TypeOK, Updated, soldierVars

LEMMA ProducedTypes ==
    ASSUME TypeOK, NEW msgs \in Seq(Message), NEW next \in {"leaders", "relief", "hits", "blasts"},
           Produce(msgs, next), UNCHANGED events \/ \E k \in Kinds : Event(k)
    PROVE  TypeOK'
<1>1. pending' \in Seq(Message)
  BY ShortLists DEF TypeOK, Produce
<1>2. events' \in [Kinds -> Nat] /\ \A x \in Kinds : events'[x] <= Limit[x]
  BY EventCounts DEF TypeOK
<1> QED BY <1>1, <1>2 DEF TypeOK, Produce, soldierVars

LEMMA InputTypes ==
    ASSUME TypeOK, Input
    PROVE  TypeOK'
<1>0. "order" \in Kinds
  BY DEF Kinds
<1>1. CASE Begin
  BY <1>1 DEF Begin, TypeOK, soldierVars, tickVars
<1>2. ASSUME NEW s \in Soldier, ReceiveControl(s) PROVE TypeOK'
  BY <1>2 DEF ReceiveControl, TypeOK, tickVars
<1>3. ASSUME NEW s \in Soldier, NEW o \in PlayerOrders, ReceiveOrder(s, o) PROVE TypeOK'
  <2>1. o \in Order
    BY NewMovesFit, Stills DEF PlayerOrders, Thens, Still
  <2>2. Does("Hold") \in Behavior
    BY Stills DEF Still
  <2>3. behavior' \in [Soldier -> Behavior]
    BY <1>3, <2>2 DEF ReceiveOrder, TypeOK
  <2>4. events' \in [Kinds -> Nat] /\ \A x \in Kinds : events'[x] <= Limit[x]
    BY <1>0, <1>3, EventCounts DEF ReceiveOrder
  <2> QED BY <1>3, <2>1, <2>3, <2>4 DEF ReceiveOrder, TypeOK, tickVars
<1>4. ASSUME NEW s \in Soldier, NEW o \in NewMoves({"None", "Hold", "Assault"}),
             ChatOrder(s, o)
      PROVE TypeOK'
  <2>1. o \in Order
    BY NewMovesFit DEF Thens
  <2>4. events' \in [Kinds -> Nat] /\ \A x \in Kinds : events'[x] <= Limit[x]
    BY <1>0, <1>4, EventCounts DEF ChatOrder
  <2> QED BY <1>4, <2>1, <2>4 DEF ChatOrder, TypeOK, tickVars
<1> QED BY <1>1, <1>2, <1>3, <1>4 DEF Input

LEMMA ReactParts ==
    ASSUME TypeOK, NEW k, React(k)
    PROVE  /\ pending \in Seq(Message) /\ pending # <<>> /\ Head(pending) \in Message
           /\ Head(pending).kind = k /\ pending' = Tail(pending)
           /\ pending' \in Seq(Message) /\ stage = "react"
           /\ turn' = turn /\ controlled' = controlled /\ battle' = battle
           /\ inbound' = inbound /\ events' = events
<1>1. pending \in Seq(Message) /\ pending # <<>>
  BY DEF TypeOK, React
<1> QED BY <1>1, Taken DEF React

LEMMA SetOrdersTypes ==
    ASSUME TypeOK, ReactSetOrders
    PROVE  TypeOK'
<1>1. React("SetOrders")
  BY DEF ReactSetOrders
<1>2. Head(pending).orders \in PartialOrders
  BY <1>1, ReactParts, OrdersParts
<1>3. DOMAIN Head(pending).orders \subseteq Soldier
  BY <1>2, PartialOrderParts
<1>4. order' \in [Soldier -> Order]
  BY <1>2, PartialOrderParts DEF ReactSetOrders, TypeOK
<1>5. untaken' \subseteq Soldier
  BY <1>3 DEF ReactSetOrders, TypeOK
<1> QED BY <1>1, <1>4, <1>5, ReactParts DEF ReactSetOrders, TypeOK

LEMMA SetBehaviorTypes ==
    ASSUME TypeOK, ReactSetBehavior
    PROVE  TypeOK'
<1>1. React("SetBehavior")
  BY DEF ReactSetBehavior
<1>2. Head(pending).soldier \in Soldier /\ Head(pending).behavior \in Behavior
  BY <1>1, ReactParts, SetBehaviorParts
<1>4. behavior' \in [Soldier -> Behavior]
  BY <1>2 DEF ReactSetBehavior, TypeOK
<1> QED BY <1>1, <1>4, ReactParts DEF ReactSetBehavior, TypeOK

LEMMA MakeIdleTypes ==
    ASSUME TypeOK, ReactMakeIdle
    PROVE  TypeOK'
<1>1. React("MakeIdle")
  BY DEF ReactMakeIdle
<1>2. Be("Idle") \in Order /\ Does("Idle") \in Behavior
  BY Stills DEF Still
<1>3. order' \in [Soldier -> Order]
  BY <1>2 DEF ReactMakeIdle, TypeOK
<1>4. behavior' \in [Soldier -> Behavior]
  BY <1>2 DEF ReactMakeIdle, TypeOK
<1> QED BY <1>1, <1>3, <1>4, ReactParts DEF ReactMakeIdle, TypeOK

LEMMA SetAliveTypes ==
    ASSUME TypeOK, ReactSetAlive
    PROVE  TypeOK'
<1>1. React("SetAlive")
  BY DEF ReactSetAlive
<1> QED BY <1>1, ReactParts DEF ReactSetAlive, TypeOK

LEMMA SetUnconsciousTypes ==
    ASSUME TypeOK, ReactSetUnconscious
    PROVE  TypeOK'
<1>1. React("SetUnconscious")
  BY DEF ReactSetUnconscious
<1>2. Head(pending).soldier \in Soldier
  BY <1>1, ReactParts, FaintParts
<1> QED BY <1>1, <1>2, ReactParts DEF ReactSetUnconscious, TypeOK

LEMMA ReachStepTypes ==
    ASSUME TypeOK, ReactReachStep
    PROVE  TypeOK'
<1>1. React("ReachBehaviorStep")
  BY DEF ReactReachStep
<1> DEFINE s == Head(pending).soldier
<1>2. s \in Soldier /\ order[s] \in Order /\ behavior[s] \in Behavior /\ order[s].then \in Thens
  BY <1>1, ReactParts, ReachStepParts, OrderParts DEF TypeOK
<1>3. order' \in [Soldier -> Order]
  <2>1. order' = IF IsMove(order[s]) THEN [order EXCEPT ![s] = Step(order[s])] ELSE order
    BY DEF ReactReachStep
  <2>2. IsMove(order[s]) => Step(order[s]) \in Order
    BY <1>2, StepFits
  <2> HIDE DEF s
  <2> QED BY <1>2, <2>1, <2>2 DEF TypeOK
<1>4. behavior' \in [Soldier -> Behavior]
  <2>1. behavior' = IF OrderEnds(order[s]) \/ ~IsMove(behavior[s]) THEN behavior
                    ELSE [behavior EXCEPT ![s] = Step(behavior[s])]
    BY DEF ReactReachStep
  <2>2. IsMove(behavior[s]) => Step(behavior[s]) \in Behavior
    BY <1>2, StepFits
  <2> HIDE DEF s
  <2> QED BY <1>2, <2>1, <2>2 DEF TypeOK
<1>5. sideEffects' \in Seq([soldier : Soldier, then : Thens])
  <2>1. \/ sideEffects' = sideEffects
        \/ sideEffects' = Append(sideEffects, [soldier |-> s, then |-> order[s].then])
    BY DEF ReactReachStep
  <2>2. [soldier |-> s, then |-> order[s].then] \in [soldier : Soldier, then : Thens]
    BY <1>2
  <2>3. sideEffects \in Seq([soldier : Soldier, then : Thens])
    BY DEF TypeOK
  <2> HIDE DEF s
  <2>4. \A R, e : e \in R => \A q \in Seq(R) : Append(q, e) \in Seq(R)
    OBVIOUS
  <2> QED BY <2>1, <2>2, <2>3, <2>4, Zenon
<1>6. stage' \in {"panicked", stage}
  BY DEF ReactReachStep
<1> QED BY <1>1, <1>3, <1>4, <1>5, <1>6, ReactParts DEF ReactReachStep, TypeOK

LEMMA SetSquadLeaderTypes ==
    ASSUME TypeOK, ReactSetSquadLeader
    PROVE  TypeOK'
<1>1. React("SetSquadLeader")
  BY DEF ReactSetSquadLeader
<1> DEFINE q == Head(pending).squad
           F == SquadOf(q) \cap alive
<1>2. q \in Soldier /\ Head(pending).soldier \in Soldier
  BY <1>1, ReactParts, SetSquadLeaderParts
<1>3. Be("Idle") \in Order /\ Does("Idle") \in Behavior
  BY Stills DEF Still
<1> DEFINE Join(h, led) ==
             /\ leader' = [x \in Soldier |-> IF x \in led THEN h ELSE leader[x]]
             /\ order' = [x \in Soldier |->
                      IF x \notin F THEN order[x]
                      ELSE IF h \in F THEN Be("Idle") ELSE order[h]]
             /\ behavior' = [x \in Soldier |->
                      IF x \notin F THEN behavior[x]
                      ELSE IF h \in F THEN Does("Idle") ELSE behavior[h]]
<1>4. ASSUME NEW h \in Soldier, NEW led, Join(h, led)
      PROVE  /\ leader' \in [Soldier -> Soldier] /\ order' \in [Soldier -> Order]
             /\ behavior' \in [Soldier -> Behavior]
  <2> HIDE DEF F
  <2>1. leader' \in [Soldier -> Soldier]
    BY <1>4 DEF TypeOK
  <2>2. order' \in [Soldier -> Order]
    BY <1>3, <1>4 DEF TypeOK
  <2>3. behavior' \in [Soldier -> Behavior]
    BY <1>3, <1>4 DEF TypeOK
  <2> QED BY <2>1, <2>2, <2>3
<1>5. /\ leader' \in [Soldier -> Soldier] /\ order' \in [Soldier -> Order]
      /\ behavior' \in [Soldier -> Behavior] /\ merged' \in BOOLEAN
  <2>1. CASE UNCHANGED <<leader, order, behavior, merged>>
    BY <2>1 DEF TypeOK
  <2>2. CASE ~(UNCHANGED <<leader, order, behavior, merged>>)
    <3>1. /\ merged' = TRUE
          /\ \/ Join(Head(pending).soldier, SquadOf(q))
             \/ \E h \in Soldier : Join(h, F)
      BY <1>2, <2>2 DEF ReactSetSquadLeader, Squads
    <3> HIDE DEF F, Join
    <3>2. CASE Join(Head(pending).soldier, SquadOf(q))
      BY <1>2, <1>4, <3>1, <3>2
    <3>3. CASE \E h \in Soldier : Join(h, F)
      BY <1>4, <3>1, <3>3
    <3> QED BY <3>1, <3>2, <3>3
  <2> QED BY <2>1, <2>2
<1> QED BY <1>1, <1>5, ReactParts DEF ReactSetSquadLeader, TypeOK

LEMMA FinishTypes ==
    ASSUME TypeOK, FinishBehavior
    PROVE  TypeOK'
<1> DEFINE R == [soldier : Soldier, then : Thens]
           s == Head(sideEffects).soldier
           next == After(Head(sideEffects).then)
<1>1. Head(sideEffects) \in R /\ sideEffects' \in Seq(R)
  BY Taken DEF FinishBehavior, TypeOK
<1>2. s \in Soldier /\ next \in Order /\ FromOrder(next) \in Behavior
  BY <1>1, AfterFits, OrderParts
<1>3. \/ UNCHANGED <<order, behavior, untaken>>
      \/ /\ order' = [order EXCEPT ![s] = next]
         /\ behavior' = [behavior EXCEPT ![s] = FromOrder(next)]
         /\ untaken' = untaken \ {s}
  BY DEF FinishBehavior
<1> HIDE DEF s, next
<1>4. order' \in [Soldier -> Order] /\ behavior' \in [Soldier -> Behavior]
      /\ untaken' \subseteq Soldier
  <2>1. /\ order \in [Soldier -> Order] /\ behavior \in [Soldier -> Behavior]
        /\ untaken \subseteq Soldier
    BY DEF TypeOK
  <2>2. CASE UNCHANGED <<order, behavior, untaken>>
    BY <2>1, <2>2
  <2>3. CASE ~(UNCHANGED <<order, behavior, untaken>>)
    BY <1>2, <1>3, <2>1, <2>3
  <2> QED BY <2>2, <2>3
<1> QED BY <1>1, <1>4 DEF FinishBehavior, TypeOK

LEMMA AnimateTypes ==
    ASSUME TypeOK, NEW s \in Soldier, Animate(s)
    PROVE  TypeOK'
<1>1. PICK d, told : Deciding(s, d, told) /\ pending' = pending \o Acting(s, d, told)
  BY AnimateActs
<1>2. Acting(s, d, told) \in Seq(Message)
  <2>1. Acting(s, d, told) \in Seq(Sent(s)) /\ Sent(s) \subseteq Message
    BY <1>1, ActingIsSent DEF Sent
  <2> QED BY <2>1
<1>3. pending' \in Seq(Message)
  BY <1>1, <1>2, ShortLists DEF TypeOK
<1>4. events' \in [Kinds -> Nat] /\ \A x \in Kinds : events'[x] <= Limit[x]
  BY EventCounts DEF Animate, Kinds, TypeOK
<1>5. turn' \in Soldier /\ (stage' = stage \/ stage' = "update")
  BY TurnsPass DEF Animate
<1> QED BY <1>3, <1>4, <1>5 DEF TypeOK, Animate, soldierVars

LEMMA SoldiersTurnTypes ==
    ASSUME TypeOK, SoldiersTurn
    PROVE  TypeOK'
<1>1. PICK s \in Soldier : Animate(s) \/ NotAnimated(s) \/ Update(s) \/ NoPointInPath(s)
  BY DEF SoldiersTurn
<1>2. CASE Animate(s)
  BY <1>2, AnimateTypes
<1>3. CASE NotAnimated(s)
  <2>1. turn' \in Soldier /\ (stage' = stage \/ stage' = "update")
    BY <1>3, TurnsPass DEF NotAnimated
  <2> QED BY <1>3, <2>1 DEF TypeOK, NotAnimated, soldierVars
<1>4. CASE Update(s)
  BY <1>4, StepsOfAWalk, MessagesOfAWalk, UpdatedTypes
<1>5. CASE NoPointInPath(s)
  BY <1>5 DEF TypeOK, NoPointInPath, soldierVars
<1> QED BY <1>1, <1>2, <1>3, <1>4, <1>5

(* The lists of messages of one soldier, and of a flag.                    *)
LEMMA ListsMade ==
    /\ \A m, n \in Message : <<m, n>> \in Seq(Message)
    /\ \A s \in Soldier : /\ Death(s) \in Seq(Message) /\ Stun(s) \in Seq(Message)
                         /\ TakeCover(s) \in Seq(Message)
    /\ \A s \in Soldier, o \in Order : <<SetOrder(s, o, FALSE)>> \in Seq(Message)
<1>0. \A m, n \in Message : <<m, n>> \in Seq(Message)
  OBVIOUS
<1>1. ASSUME NEW s \in Soldier
      PROVE  /\ Death(s) \in Seq(Message) /\ Stun(s) \in Seq(Message)
             /\ TakeCover(s) \in Seq(Message)
  <2>1. /\ SetBehavior(s, Does("Dead")) \in Message /\ SetBehavior(s, Does("Hold")) \in Message
        /\ SetBehavior(s, Does("Unconscious")) \in Message
        /\ SetOrder(s, Be("Hold"), TRUE) \in Message
        /\ Die(s) \in Message /\ Faint(s) \in Message
    BY MessagesMade, Stills DEF Still
  <2> QED BY <1>0, <2>1, Zenon DEF Death, Stun, TakeCover
<1>2. ASSUME NEW s \in Soldier, NEW o \in Order
      PROVE  <<SetOrder(s, o, FALSE)>> \in Seq(Message)
  BY MessagesMade, ShortLists
<1> QED BY <1>0, <1>1, <1>2

(* What soldiers and squads send after the turns.                          *)
LateSending(s) ==
    CallSupport(s) \/ LoseSight(s) \/ Killed(s) \/ Blasted(s)

LEMMA LateSendingProduces ==
    ASSUME TypeOK, NEW s \in Soldier, LateSending(s)
    PROVE  /\ \E msgs \in Seq(Message), next \in {"leaders", "relief", "hits", "blasts"} :
                 Produce(msgs, next)
           /\ \E k \in Kinds : Event(k)
<1>1. CASE CallSupport(s)
  <2>1. PICK o \in NewMoves({"Hold"}) :
          Produce(<<MakeIdle(SquadOf(s)), SetOrder(s, o, FALSE)>>, "leaders")
    BY <1>1 DEF CallSupport
  <2>2. o \in Order
    BY NewMovesFit DEF Thens
  <2>3. MakeIdle(SquadOf(s)) \in Message /\ SetOrder(s, o, FALSE) \in Message
    BY <2>2, MessagesMade DEF SquadOf
  <2>4. <<MakeIdle(SquadOf(s)), SetOrder(s, o, FALSE)>> \in Seq(Message)
    BY <2>3, ListsMade, Zenon
  <2>5. \E k \in Kinds : Event(k)
    BY <1>1, Zenon DEF CallSupport, Kinds
  <2> QED BY <2>1, <2>4, <2>5
<1>2. CASE LoseSight(s)
  <2>1. <<SetOrder(s, Be("Idle"), FALSE)>> \in Seq(Message)
    BY ListsMade, Stills DEF Still
  <2> QED BY <1>2, <2>1, Zenon DEF LoseSight, Kinds
<1>3. CASE Killed(s)
  BY <1>3, ListsMade DEF Killed, Kinds
<1>4. CASE Blasted(s)
  <2>1. PICK cover \in {<<>>, TakeCover(s)}, harm \in {<<>>, Death(s), Stun(s)} :
          Produce(cover \o harm, "blasts")
    BY <1>4 DEF Blasted
  <2>2. cover \in Seq(Message) /\ harm \in Seq(Message)
    BY <2>1, ListsMade, ShortLists
  <2>3. cover \o harm \in Seq(Message)
    BY <2>2, ShortLists
  <2>4. Event("hit") /\ "hit" \in Kinds
    BY <1>4 DEF Blasted, Kinds
  <2> QED BY <2>1, <2>3, <2>4
<1> QED BY <1>1, <1>2, <1>3, <1>4 DEF LateSending

LEMMA ProducingTypes ==
    ASSUME TypeOK,
           (\E q, s \in Soldier : Elect(q, s)) \/ \E s \in Soldier : LateSending(s)
    PROVE  TypeOK'
<1>1. ASSUME NEW q \in Soldier, NEW s \in Soldier, Elect(q, s) PROVE TypeOK'
  BY <1>1, MessagesMade, ShortLists, ProducedTypes DEF Elect
<1>2. ASSUME NEW s \in Soldier, LateSending(s) PROVE TypeOK'
  BY <1>2, LateSendingProduces, ProducedTypes
<1> QED BY <1>1, <1>2

(* The first messages of a tick: some who engage are idle, some are told.  *)
LEMMA FlagMessages ==
    ASSUME TypeOK, StagesAreDone, NEW animate \in BOOLEAN, FlagTaken(animate)
    PROVE  \E R \in SUBSET Soldier, f \in PartialOrders :
             /\ Engaged(R) /\ \A s \in DOMAIN f : HasPoints(f[s])
             /\ pending' = <<MakeIdle(R), SetOrders(f, FALSE)>>
             /\ MakeIdle(R) \in Message /\ SetOrders(f, FALSE) \in Message
<1>1. PICK R \in SUBSET {s \in alive : order[s].kind = "Engage"},
           L \in SUBSET (Squads \cap alive) :
        \E f \in [L -> NewMoves({"Idle"})] :
           pending' = pending \o <<MakeIdle(R), SetOrders(f, FALSE)>>
  BY DEF FlagTaken
<1>2. PICK f \in [L -> NewMoves({"Idle"})] :
        pending' = pending \o <<MakeIdle(R), SetOrders(f, FALSE)>>
  BY <1>1
<1>3. R \in SUBSET Soldier /\ Engaged(R)
  BY DEF TypeOK, Engaged
<1>4. \A s \in L : f[s] \in Order /\ HasPoints(f[s])
  BY NewMovesFit DEF Thens
<1>5. f \in PartialOrders /\ DOMAIN f = L
  <2>1. L \in SUBSET Soldier /\ f \in [L -> Order]
    BY <1>4 DEF Squads
  <2> QED BY <2>1 DEF PartialOrders
<1> DEFINE m == MakeIdle(R)
           n == SetOrders(f, FALSE)
<1>6. m \in Message /\ n \in Message
  BY <1>3, <1>5, MessagesMade
<1> HIDE DEF m, n
<1>7. pending = <<>> /\ <<>> \o <<m, n>> = <<m, n>>
  BY DEF StagesAreDone, FlagTaken
<1> QED BY <1>2, <1>3, <1>4, <1>5, <1>6, <1>7 DEF m, n

LEMMA FlagTakenTypes ==
    ASSUME TypeOK, StagesAreDone, NEW animate \in BOOLEAN, FlagTaken(animate)
    PROVE  TypeOK'
<1>1. pending' \in Seq(Message)
  BY FlagMessages, ListsMade, Zenon
<1>2. events' \in [Kinds -> Nat] /\ \A x \in Kinds : events'[x] <= Limit[x]
  BY EventCounts DEF FlagTaken, Kinds
<1>3. turn' \in Soldier /\ stage' \in {"animate", "update"}
  BY NumbersFit DEF FlagTaken
<1> QED BY <1>1, <1>2, <1>3 DEF FlagTaken, TypeOK, soldierVars

LEMMA TypeStep ==
    ASSUME TypeOK, StagesAreDone, [Next]_vars
    PROVE  TypeOK'
<1>1. CASE UNCHANGED vars
  BY <1>1 DEF TypeOK, vars, soldierVars, tickVars
<1>2. CASE Input
  BY <1>2, InputTypes
<1>3. CASE SoldiersTurn
  BY <1>3, SoldiersTurnTypes
<1>4. CASE (\E q, s \in Soldier : Elect(q, s)) \/ \E s \in Soldier : LateSending(s)
  BY <1>4, ProducingTypes
<1>5. CASE Reaction
  BY <1>5, SetOrdersTypes, SetBehaviorTypes, MakeIdleTypes, SetAliveTypes, SetUnconsciousTypes,
     ReachStepTypes, SetSquadLeaderTypes, FinishTypes DEF Reaction
<1>6. ASSUME NEW animate \in BOOLEAN, StartTick(animate) \/ FlagTaken(animate) PROVE TypeOK'
  <2>1. 1 \in Soldier
    BY NumbersFit
  <2>2. CASE StartTick(animate)
    BY <2>1, <2>2 DEF StartTick, TypeOK, soldierVars
  <2> QED BY <1>6, <2>2, FlagTakenTypes
<1>7. CASE LeadersDone \/ HitsDone \/ AllApplied \/ TickEnds
  BY <1>7 DEF LeadersDone, HitsDone, AllApplied, TickEnds, TypeOK, soldierVars
<1> QED
  BY <1>1, <1>2, <1>3, <1>4, <1>5, <1>6, <1>7, Zenon DEF Next, Ticking, Stopped, LateSending

LEMMA StagesStep ==
    ASSUME TypeOK, StagesAreDone, [Next]_vars
    PROVE  StagesAreDone'
<1>1. CASE UNCHANGED vars
  BY <1>1 DEF StagesAreDone, vars, tickVars
<1>2. CASE Input
  BY <1>2 DEF Input, Begin, ReceiveControl, ReceiveOrder, ChatOrder, StagesAreDone, tickVars
<1>3. CASE SoldiersTurn
  <2>1. PICK s \in Soldier : Animate(s) \/ NotAnimated(s) \/ Update(s) \/ NoPointInPath(s)
    BY <1>3 DEF SoldiersTurn
  <2>2. CASE Animate(s) \/ NotAnimated(s)
    BY <2>2 DEF Animate, NotAnimated, NextTurn, StagesAreDone
  <2>3. CASE Update(s)
    BY <2>3 DEF Update, EndOfPath, PointReached, ReturnToMap, NoStep, Updated, NextTurn,
       StagesAreDone
  <2>4. CASE NoPointInPath(s)
    BY <2>4 DEF NoPointInPath, StagesAreDone
  <2> QED BY <2>1, <2>2, <2>3, <2>4
<1>4. ASSUME NEW q \in Soldier, NEW s \in Soldier, Elect(q, s) PROVE StagesAreDone'
  BY <1>4 DEF Elect, Produce, StagesAreDone
<1>5. ASSUME NEW s \in Soldier, LateSending(s) PROVE StagesAreDone'
  <2>1. /\ sideEffects' = sideEffects
        /\ stage \in {"leaders", "relief", "hits", "blasts"}
        /\ stage' \in {"leaders", "relief", "hits", "blasts"}
    BY <1>5 DEF LateSending, CallSupport, LoseSight, LeadersHaveSent, Killed,
       Blasted, Produce
  <2> QED BY <2>1 DEF StagesAreDone
<1>6. CASE Reaction
  <2>1. ASSUME NEW k, React(k), stage' \in {stage, "panicked"} PROVE StagesAreDone'
    BY <2>1 DEF React, StagesAreDone
  <2>2. CASE FinishBehavior
    BY <2>2 DEF FinishBehavior, StagesAreDone
  <2>3. CASE ReactSetOrders \/ ReactSetBehavior \/ ReactMakeIdle \/ ReactSetAlive
             \/ ReactSetUnconscious \/ ReactSetSquadLeader
    BY <2>1, <2>3, Zenon DEF ReactSetOrders, ReactSetBehavior, ReactMakeIdle, ReactSetAlive,
       ReactSetUnconscious, ReactSetSquadLeader
  <2>4. CASE ReactReachStep
    BY <2>1, <2>4 DEF ReactReachStep
  <2> QED BY <1>6, <2>2, <2>3, <2>4 DEF Reaction
<1>7. ASSUME NEW animate \in BOOLEAN, StartTick(animate) \/ FlagTaken(animate)
      PROVE  StagesAreDone'
  BY <1>7 DEF StartTick, FlagTaken, StagesAreDone
<1>8. CASE LeadersDone \/ HitsDone \/ AllApplied \/ TickEnds
  BY <1>8 DEF LeadersDone, LeadersHaveSent, HitsDone, AllApplied, TickEnds, StagesAreDone
<1> QED
  BY <1>1, <1>2, <1>3, <1>4, <1>5, <1>6, <1>7, <1>8, Zenon
  DEF Next, Ticking, Stopped, LateSending

-----------------------------------------------------------------------------
(* The look-ahead at a step.                                               *)

LEMMA NowIsAView ==
    ASSUME TypeOK, NEW s \in Soldier
    PROVE  /\ Now(s) \in ViewsOf(s) /\ Now(s).soldier = s /\ Now(s).order = order[s]
           /\ Now(s).behavior = behavior[s] /\ (Now(s).untaken <=> s \in untaken)
           /\ (Now(s).ended <=> Ended(s))
           /\ Foreseen(s) \in ViewsOf(s)
<1>1. order[s] \in Order /\ behavior[s] \in Behavior /\ pending \in Seq(Message)
  BY DEF TypeOK
<1>2. Ended(s) \in BOOLEAN /\ (s \in untaken) \in BOOLEAN
  BY DEF Ended
<1>3. Now(s) \in ViewsOf(s)
  BY <1>1, <1>2, Zenon DEF Now, ViewsOf, View
<1>4. /\ Now(s).soldier = s /\ Now(s).order = order[s]
      /\ Now(s).behavior = behavior[s] /\ (Now(s).untaken <=> s \in untaken)
      /\ (Now(s).ended <=> Ended(s))
  BY Zenon DEF Now
<1> QED BY <1>1, <1>3, <1>4, ViewsAhead DEF Foreseen

(* Messages that leave everyone settled.                                   *)
Settling(msgs) ==
    \A s \in Soldier : \A x \in ViewsOf(s) : Settled(x) => Settled(Applied(x, msgs))

LEMMA AgreeFurther ==
    ASSUME TypeOK, WillAgree, NEW msgs \in Seq(Message), Settling(msgs),
           pending' = pending \o msgs,
           UNCHANGED <<alive, order, behavior, sideEffects, untaken>>
    PROVE  WillAgree'
<1> SUFFICES ASSUME NEW s \in alive' PROVE Settled(Foreseen(s))'
  BY DEF WillAgree
<1>1. s \in Soldier /\ s \in alive
  BY DEF TypeOK
<1>2. Now(s)' = Now(s)
  BY DEF Now, Ended
<1>3. Foreseen(s)' = Applied(Now(s), pending \o msgs)
  BY <1>2 DEF Foreseen
<1>4. Foreseen(s)' = Applied(Foreseen(s), msgs)
  BY <1>3, AppliedFurther DEF TypeOK, Foreseen
<1>5. Settled(Foreseen(s)) /\ Foreseen(s) \in ViewsOf(s)
  BY <1>1, NowIsAView DEF WillAgree
<1>6. Settled(Applied(Foreseen(s), msgs))
  BY <1>1, <1>5 DEF Settling
<1> QED BY <1>4, <1>6 DEF Settled, Agree, IsMove

LEMMA AgreeWhenApplied ==
    ASSUME TypeOK, WillAgree, pending # <<>>, pending' = Tail(pending), alive' \subseteq alive,
           \A s \in alive' : Now(s)' = Becomes(Now(s), Head(pending))
    PROVE  WillAgree'
<1> SUFFICES ASSUME NEW s \in alive' PROVE Settled(Foreseen(s))'
  BY DEF WillAgree
<1>1. s \in alive /\ Now(s)' = Becomes(Now(s), Head(pending))
  OBVIOUS
<1>2. Foreseen(s)' = Applied(Becomes(Now(s), Head(pending)), Tail(pending))
  BY <1>1 DEF Foreseen
<1>3. Foreseen(s)' = Foreseen(s)
  BY <1>2, AppliedHead DEF TypeOK, Foreseen
<1> QED BY <1>1, <1>3 DEF WillAgree, Settled, Agree, IsMove

LEMMA AgreeAtOnce ==
    ASSUME pending' = <<>>, \A s \in alive' : Settled(Now(s))'
    PROVE  WillAgree'
<1> SUFFICES ASSUME NEW s \in alive' PROVE Settled(Foreseen(s))'
  BY DEF WillAgree
<1>1. Foreseen(s)' = Now(s)'
  BY AppliedNone DEF Foreseen
<1> QED BY <1>1 DEF Settled, Agree, IsMove

(* New messages at the end of the list.                                    *)
LEMMA FitFurther ==
    ASSUME TypeOK, DeadStandStill, PathsHavePoints, MessagesFit, NEW msgs \in Seq(Message),
           pending' = pending \o msgs, UNCHANGED <<alive, leader, order, behavior, sideEffects>>,
           \A i \in DOMAIN msgs : Fits(msgs[i])
    PROVE  DeadStandStill' /\ PathsHavePoints' /\ MessagesFit'
<1>1. DeadStandStill'
  BY DEF DeadStandStill, Walking
<1>2. PathsHavePoints'
  BY DEF PathsHavePoints, Ended, HasPoints, IsMove
<1>3. ASSUME NEW i \in DOMAIN pending' PROVE Fits(pending[i])'
  <2>1. \/ i \in DOMAIN pending /\ pending'[i] = pending[i]
        \/ i - Len(pending) \in DOMAIN msgs /\ pending'[i] = msgs[i - Len(pending)]
    BY <1>3, Appended DEF TypeOK
  <2>2. \E m : pending'[i] = m /\ Fits(m)
    BY <2>1 DEF MessagesFit
  <2> QED BY <2>2 DEF Fits, Ended, Leads
<1> QED BY <1>1, <1>2, <1>3 DEF MessagesFit

LEMMA OneStepFurther ==
    ASSUME TypeOK, OneStepEach, NEW msgs \in Seq(Message), pending' = pending \o msgs,
           \A i \in DOMAIN msgs : msgs[i].kind # "ReachBehaviorStep"
    PROVE  OneStepEach'
<1> SUFFICES ASSUME NEW i \in DOMAIN pending', NEW j \in DOMAIN pending',
                    pending'[i].kind = "ReachBehaviorStep", pending'[j] = pending'[i]
             PROVE  i = j
  BY DEF OneStepEach
<1>1. \A k \in DOMAIN pending' : pending'[k].kind = "ReachBehaviorStep" =>
            k \in DOMAIN pending /\ pending'[k] = pending[k]
  BY Appended DEF TypeOK
<1> QED BY <1>1 DEF OneStepEach

LEMMA NobodyDies ==
    ASSUME \A i \in DOMAIN pending' : pending'[i].kind # "SetAlive"
    PROVE  DeadLast'
BY DEF DeadLast

(* Nothing happens to the soldiers nor to the messages.                    *)
LEMMA NothingHappens ==
    ASSUME TypeOK, WillAgree, OneStepEach, DeadLast, DeadStandStill, PathsHavePoints, MessagesFit,
           UNCHANGED <<alive, leader, order, behavior, pending, sideEffects, untaken>>
    PROVE  /\ WillAgree' /\ OneStepEach' /\ DeadLast' /\ DeadStandStill' /\ PathsHavePoints'
           /\ MessagesFit'
<1>1. WillAgree'
  <2> SUFFICES ASSUME NEW s \in alive' PROVE Settled(Foreseen(s))'
    BY DEF WillAgree
  <2>1. Now(s)' = Now(s)
    BY DEF Now, Ended
  <2>2. Foreseen(s)' = Foreseen(s)
    BY <2>1 DEF Foreseen
  <2> QED BY <2>2 DEF WillAgree, Settled, Agree, IsMove
<1>2. OneStepEach'
  BY DEF OneStepEach
<1>3. DeadLast'
  BY DEF DeadLast, Walking
<1>4. DeadStandStill'
  BY DEF DeadStandStill, Walking
<1>5. PathsHavePoints'
  BY DEF PathsHavePoints, Ended, HasPoints, IsMove
<1>6. MessagesFit'
  BY DEF MessagesFit, Fits, Ended, Leads
<1> QED BY <1>1, <1>2, <1>3, <1>4, <1>5, <1>6

-----------------------------------------------------------------------------
(* Up to the first merge: inputs and stages.                               *)

LEMMA LateIsInTime ==
    ASSUME stage' \notin {"animate", "update", "leaders", "relief"}
    PROVE  InTurn'
BY DEF InTurn, Timely

LEMMA NothingLeftIsInTime ==
    ASSUME pending' = <<>>
    PROVE  InTurn' /\ OneStepEach' /\ DeadLast' /\ MessagesFit'
BY DEF InTurn, OneStepEach, DeadLast, MessagesFit

LEMMA OrderedIsOrderly ==
    ASSUME TypeOK, StagesAreDone, Orderly, stage = "inputs", NEW s \in Soldier,
           NEW o \in Order, HasPoints(o), order' = [order EXCEPT ![s] = o],
           behavior' = behavior \/ behavior' = [behavior EXCEPT ![s] = Does("Hold")],
           untaken' = untaken \cup {s},
           UNCHANGED <<alive, leader, pending, sideEffects, stage>>
    PROVE  Orderly'
<1>1. pending = <<>> /\ pending' = <<>> /\ sideEffects = <<>> /\ sideEffects' = <<>>
  BY DEF StagesAreDone
<1>2. ~IsMove(Does("Hold")) /\ HasPoints(Does("Hold"))
  BY Stills DEF Still
<1>3. \A t \in Soldier : \/ behavior'[t] = behavior[t]
                         \/ t = s /\ behavior'[t] = Does("Hold")
  BY DEF TypeOK
<1>4. \A t \in Soldier : order'[t] = IF t = s THEN o ELSE order[t]
  BY DEF TypeOK
<1>5. alive \subseteq Soldier
  BY DEF TypeOK
<1>6. WillAgree'
  <2> SUFFICES ASSUME NEW t \in alive' PROVE Settled(Now(t))'
    BY <1>1, AgreeAtOnce
  <2>1. CASE t = s
    <3>1. Now(t)'.untaken <=> t \in untaken'
      BY Zenon DEF Now
    <3>2. Settled(Now(t))' <=> \/ Now(t)'.untaken \/ Now(t)'.ended
                               \/ Agree(Now(t)'.order, Now(t)'.behavior)
      BY Zenon DEF Settled
    <3> QED BY <2>1, <3>1, <3>2
  <2>2. CASE t # s
    <3>1. t \in alive /\ t \in Soldier /\ Settled(Foreseen(t))
      BY <1>5 DEF Orderly, WillAgree
    <3>2. Foreseen(t) = Now(t)
      BY <1>1, AppliedNone DEF Foreseen
    <3>3. Now(t)' = Now(t)
      <4>1. order'[t] = order[t] /\ behavior'[t] = behavior[t]
            /\ (t \in untaken') = (t \in untaken) /\ Ended(t)' = Ended(t)
        BY <1>1, <1>3, <1>4, <2>2, <3>1 DEF Ended
      <4> QED BY <4>1, Zenon DEF Now
    <3>4. Settled(Now(t))
      BY <3>1, <3>2
    <3> QED BY <3>3, <3>4, Zenon DEF Settled, Agree, IsMove
  <2> QED BY <2>1, <2>2
<1>7. DeadStandStill'
  BY <1>2, <1>3 DEF Orderly, DeadStandStill, Walking
<1>8. PathsHavePoints'
  BY <1>1, <1>2, <1>3, <1>4, <1>5 DEF Orderly, PathsHavePoints, Ended, HasPoints, IsMove
<1> QED BY <1>1, <1>6, <1>7, <1>8, NothingLeftIsInTime DEF Orderly

LEMMA InputIsOrderly ==
    ASSUME TypeOK, StagesAreDone, Orderly, Input
    PROVE  Orderly'
<1>0. stage' = "inputs" => InTurn'
  BY LateIsInTime
<1>1. CASE Begin \/ \E s \in Soldier : ReceiveControl(s)
  <2>1. UNCHANGED <<alive, leader, order, behavior, pending, sideEffects, untaken, stage>>
        /\ stage = "inputs"
    BY <1>1 DEF Begin, ReceiveControl, soldierVars, tickVars
  <2> QED BY <1>0, <2>1, NothingHappens DEF Orderly
<1>2. ASSUME NEW s \in Soldier, NEW o \in PlayerOrders, ReceiveOrder(s, o) PROVE Orderly'
  <2>1. o \in Order /\ HasPoints(o)
    BY NewMovesFit, Stills DEF PlayerOrders, Thens, Still
  <2> QED BY <1>2, <2>1, OrderedIsOrderly DEF ReceiveOrder, tickVars
<1>3. ASSUME NEW s \in Soldier, NEW o \in NewMoves({"None", "Hold", "Assault"}),
             ChatOrder(s, o)
      PROVE Orderly'
  <2>1. o \in Order /\ HasPoints(o)
    BY NewMovesFit DEF Thens
  <2> QED BY <1>3, <2>1, OrderedIsOrderly DEF ChatOrder, tickVars
<1> QED BY <1>1, <1>2, <1>3 DEF Input

LEMMA StagesAreOrderly ==
    ASSUME TypeOK, StagesAreDone, Orderly,
           \/ \E animate \in BOOLEAN : StartTick(animate)
           \/ \E s \in Soldier : NotAnimated(s)
           \/ LeadersDone \/ HitsDone \/ AllApplied \/ TickEnds
    PROVE  Orderly'
<1>1. UNCHANGED <<alive, leader, order, behavior, pending, sideEffects, untaken>>
      /\ stage' # "panicked"
  BY DEF StartTick, NotAnimated, NextTurn, LeadersDone, HitsDone, AllApplied, TickEnds,
     soldierVars, Orderly
<1>2. InTurn'
  <2>1. CASE \E animate \in BOOLEAN : StartTick(animate)
    BY <2>1, NothingLeftIsInTime DEF StartTick, StagesAreDone
  <2>2. ASSUME NEW s \in Soldier, NotAnimated(s) PROVE InTurn'
    <3>1. /\ turn \in Nat /\ (stage' = "animate" => turn' = turn + 1)
          /\ stage = "animate" /\ stage' \in {"animate", "update"}
      BY <2>2, TurnsPass DEF NotAnimated
    <3>2. 1..(turn - 1) \subseteq 1..(turn + 1 - 1)
      BY <3>1
    <3>3. \A i \in DOMAIN pending : Timely(pending[i])
      BY DEF Orderly, InTurn
    <3> SUFFICES ASSUME NEW i \in DOMAIN pending' PROVE Timely(pending[i])'
      BY DEF InTurn
    <3>4. pending'[i] = pending[i] /\ Timely(pending[i])
      BY <1>1, <3>3
    <3>5. /\ pending[i].kind \notin {"ReachBehaviorStep", "SetAlive"}
          /\ \/ pending[i].kind = "SetOrders" /\ ~pending[i].own
             \/ TouchedBy(pending[i]) \subseteq 1..(turn - 1)
             \/ pending[i].kind = "MakeIdle" /\ Engaged(pending[i].soldiers)
      BY <3>1, <3>4 DEF Timely
    <3>6. stage' = "animate" => \/ pending[i].kind = "SetOrders" /\ ~pending[i].own
                                \/ TouchedBy(pending[i]) \subseteq 1..(turn' - 1)
                                \/ pending[i].kind = "MakeIdle" /\ Engaged(pending[i].soldiers)
      BY <3>1, <3>2, <3>5
    <3> QED BY <1>1, <3>4, <3>5, <3>6 DEF Timely, TouchedBy, Engaged
  <2>3. CASE LeadersDone \/ HitsDone \/ AllApplied \/ TickEnds
    BY <2>3, LateIsInTime DEF LeadersDone, HitsDone, AllApplied, TickEnds
  <2> QED BY <2>1, <2>2, <2>3
<1> QED BY <1>1, <1>2, NothingHappens DEF Orderly

-----------------------------------------------------------------------------
(* Up to the first merge: soldiers are animated.                           *)

LEMMA ActingFits ==
    ASSUME TypeOK, StagesAreDone, Orderly, NEW s \in Soldier, Animate(s),
           NEW d, NEW told, Deciding(s, d, told)
    PROVE  Acting(s, d, told) \in Seq({m \in Sent(s) : Fits(m)})
<1> DEFINE M == {m \in Sent(s) : Fits(m)}
<1>1. s \in alive /\ sideEffects = <<>>
  BY DEF Animate, Animated, Able, Feels, StagesAreDone
<1>2. HasPoints(order[s])
  BY <1>1 DEF Orderly, PathsHavePoints, Ended
<1>3. d.behavior \in Behavior /\ HasPoints(d.behavior)
  BY <1>2, DecidedBehavior DEF Deciding
<1>4. OwnPart(s, d) \in Seq(M)
  <2>1. CASE \E o \in Order : d = Change(o) /\ HasPoints(o)
    <3>1. PICK o \in Order : d = Change(o) /\ HasPoints(o)
      BY <2>1
    <3>2. SetOrder(s, o, TRUE) \in Message
      BY MessagesMade
    <3>3. SetOrder(s, o, TRUE) \in Sent(s)
      BY <3>2 DEF Sent, SetOrder, SetOrders, TouchedBy
    <3>4. Fits(SetOrder(s, o, TRUE))
      BY <3>1 DEF Fits, SetOrder, SetOrders
    <3>5. <<SetOrder(s, o, TRUE)>> \in Seq(M)
      BY <3>3, <3>4, ShortLists, Zenon
    <3> QED BY <3>1, <3>5, OwnParts, Zenon
  <2>2. CASE \E b : d = Keep(b)
    <3> HIDE DEF M
    <3> QED BY <2>2, OwnParts, ShortLists
  <2> QED BY <2>1, <2>2, DecisionsFit DEF Deciding
<1>5. ToldPart(told) \in Seq(M)
  <2>1. told \in PartialOrders /\ \A t \in DOMAIN told : HasPoints(told[t])
    BY <1>3, ToldFits DEF Deciding
  <2>2. SetOrders(told, FALSE) \in Message
    BY <2>1, MessagesMade
  <2>3. SetOrders(told, FALSE) \in Sent(s) /\ Fits(SetOrders(told, FALSE))
    BY <2>1, <2>2 DEF Sent, SetOrders, Fits
  <2>4. <<SetOrders(told, FALSE)>> \in Seq(M) /\ <<>> \in Seq(M)
    BY <2>3, ShortLists, Zenon
  <2> QED BY <2>4, Zenon DEF ToldPart
<1>6. DoingPart(s, d) \in Seq(M)
  <2>1. SetBehavior(s, d.behavior) \in Message
    BY <1>3, MessagesMade
  <2>2. SetBehavior(s, d.behavior) \in Sent(s)
    BY <2>1 DEF Sent, SetBehavior, TouchedBy
  <2>3. Fits(SetBehavior(s, d.behavior))
    BY <1>1, <1>3 DEF Fits, SetBehavior
  <2>4. <<SetBehavior(s, d.behavior)>> \in Seq(M) /\ <<>> \in Seq(M)
    BY <2>2, <2>3, ShortLists, Zenon
  <2> QED BY <2>4, Zenon DEF DoingPart
<1> HIDE DEF M
<1> QED BY <1>4, <1>5, <1>6, ActingParts, ShortLists, Zenon DEF M

(* What comes of the parts, one after the other.                           *)
LEMMA ActingAhead ==
    ASSUME TypeOK, NEW s \in Soldier, NEW d, NEW told, Deciding(s, d, told), NEW x
    PROVE  Applied(x, Acting(s, d, told)) =
             Applied(Applied(Applied(x, OwnPart(s, d)), ToldPart(told)), DoingPart(s, d))
<1> DEFINE a == OwnPart(s, d)
           b == ToldPart(told)
           c == DoingPart(s, d)
<1>1. a \in Seq(Sent(s)) /\ b \in Seq(Sent(s)) /\ c \in Seq(Sent(s))
  BY ActingIsSent
<1>2. Acting(s, d, told) = (a \o b) \o c
  BY ActingParts
<1> HIDE DEF a, b, c
<1>3. a \o b \in Seq(Sent(s))
  BY <1>1, ShortLists
<1>4. \A p, q \in Seq(Sent(s)) : Applied(x, p \o q) = Applied(Applied(x, p), q)
  BY AppliedFurther
<1>5. Applied(x, (a \o b) \o c) = Applied(Applied(x, a \o b), c)
  BY <1>1, <1>3, <1>4, Zenon
<1>6. Applied(x, a \o b) = Applied(Applied(x, a), b)
  BY <1>1, <1>4, Zenon
<1> QED BY <1>2, <1>5, <1>6 DEF a, b, c

LEMMA OwnPartAhead ==
    ASSUME TypeOK, NEW s \in Soldier, NEW d \in Routine(s) \cup Decisions(s),
           NEW t \in Soldier, NEW x \in ViewsOf(t)
    PROVE  LET y == Applied(x, OwnPart(s, d)) IN
           /\ y \in ViewsOf(t) /\ y.behavior = x.behavior
           /\ t # s => y = x
           /\ \A o \in Order : d = Change(o) /\ t = s => y.order = o
           /\ \A b : d = Keep(b) => y = x
<1>1. CASE \E o \in Order : d = Change(o)
  <2>1. PICK o \in Order : d = Change(o)
    BY <1>1
  <2>2. Applied(x, OwnPart(s, d)) = Becomes(x, SetOrder(s, o, TRUE))
    BY <2>1, OwnParts, AppliedOnce
  <2>3. \A p \in Order : d = Change(p) => p = o
    BY <2>1, DecisionParts
  <2>4. ASSUME NEW b PROVE d # Keep(b)
    <3>1. Change(o).orders # Keep(b).orders
      BY DecisionParts
    <3> QED BY <2>1, <3>1
  <2>5. CASE t = s
    <3>1. LET y == Becomes(x, SetOrder(s, o, TRUE)) IN
          y \in ViewsOf(s) /\ y.order = o /\ y.behavior = x.behavior
      BY <2>5, OwnOrder
    <3> QED BY <2>2, <2>3, <2>4, <2>5, <3>1, Zenon
  <2>6. CASE t # s
    <3>1. x.soldier # s
      BY <2>6, ViewParts
    <3>2. Becomes(x, SetOrder(s, o, TRUE)) = x
      BY <3>1, RemainsUntold
    <3> QED BY <2>2, <2>4, <2>6, <3>2
  <2> QED BY <2>5, <2>6
<1>2. CASE \E b : d = Keep(b)
  <2>1. PICK b : d = Keep(b)
    BY <1>2
  <2>2. Applied(x, OwnPart(s, d)) = x
    BY <2>1, OwnParts, AppliedNone
  <2>3. ASSUME NEW o PROVE d # Change(o)
    <3>1. Change(o).orders # Keep(b).orders
      BY DecisionParts
    <3> QED BY <2>1, <3>1
  <2> QED BY <2>2, <2>3
<1> QED BY <1>1, <1>2, DecisionsFit

LEMMA ToldPartAhead ==
    ASSUME NEW told \in PartialOrders, NEW t \in Soldier, NEW x \in ViewsOf(t)
    PROVE  LET y == Applied(x, ToldPart(told)) IN
           /\ y \in ViewsOf(t) /\ y.behavior = x.behavior
           /\ y = x \/ y.untaken
<1>0. x.soldier = t
  BY ViewParts
<1>1. CASE DOMAIN told = {}
  <2>1. Applied(x, ToldPart(told)) = x
    BY <1>1, AppliedNone DEF ToldPart
  <2> QED BY <2>1
<1>2. CASE DOMAIN told # {}
  <2>1. Applied(x, ToldPart(told)) = Becomes(x, SetOrders(told, FALSE))
    BY <1>2, AppliedOnce DEF ToldPart
  <2>2. CASE t \in DOMAIN told
    <3>1. told[x.soldier] \in Order
      BY <1>0, <2>2, PartialOrderParts
    <3>2. Becomes(x, SetOrders(told, FALSE)) =
            [x EXCEPT !.order = told[x.soldier], !.untaken = TRUE]
      BY <1>0, <2>2 DEF Becomes, SetOrders
    <3>3. TRUE \in BOOLEAN
      OBVIOUS
    <3> DEFINE o == told[x.soldier]
    <3> HIDE DEF o
    <3>4. LET y == [x EXCEPT !.order = o, !.untaken = TRUE] IN
          y \in ViewsOf(t) /\ y.behavior = x.behavior /\ y.untaken = TRUE
      BY <3>1, <3>3, Zenon DEF ViewsOf, View, o
    <3> QED BY <2>1, <3>2, <3>4, Zenon DEF o
  <2>3. CASE t \notin DOMAIN told
    <3>1. Becomes(x, SetOrders(told, FALSE)) = x
      BY <1>0, <2>3, BecomesTold
    <3> QED BY <2>1, <3>1
  <2> QED BY <2>2, <2>3
<1> QED BY <1>1, <1>2

LEMMA DoingPartAhead ==
    ASSUME TypeOK, NEW s \in Soldier, NEW d, d.behavior \in Behavior,
           NEW t \in Soldier, NEW x \in ViewsOf(t)
    PROVE  LET y == Applied(x, DoingPart(s, d)) IN
           /\ y.order = x.order /\ y.untaken = x.untaken /\ y.ended = x.ended
           /\ y.behavior = IF t = s /\ Changes(s, d) THEN d.behavior ELSE x.behavior
<1>1. CASE ~Changes(s, d)
  <2>1. Applied(x, DoingPart(s, d)) = x
    BY <1>1, AppliedNone DEF DoingPart
  <2> QED BY <1>1, <2>1
<1>2. CASE Changes(s, d)
  <2>1. Applied(x, DoingPart(s, d)) = Becomes(x, SetBehavior(s, d.behavior))
    BY <1>2, AppliedOnce DEF DoingPart
  <2>2. CASE t = s
    BY <1>2, <2>1, <2>2, OwnBehavior
  <2>3. CASE t # s
    <3>1. x.soldier # s
      BY <2>3, ViewParts
    <3>2. Becomes(x, SetBehavior(s, d.behavior)) = x
      BY <3>1, BecomesDoing
    <3> QED BY <2>1, <2>3, <3>2
  <2> QED BY <2>2, <2>3
<1> QED BY <1>1, <1>2

LEMMA ActingSettles ==
    ASSUME TypeOK, NEW s \in Soldier, NEW d, NEW told, Deciding(s, d, told),
           NEW t \in Soldier, NEW x \in ViewsOf(t),
           \/ t # s /\ Settled(x)
           \/ t = s /\ x.behavior = behavior[s] /\ (x.untaken \/ x.order = order[s])
           \/ t = s /\ order[s].kind = "Engage" /\ ~IsMove(x.behavior)
    PROVE  Settled(Applied(x, Acting(s, d, told)))
<1> DEFINE y1 == Applied(x, OwnPart(s, d))
           y2 == Applied(y1, ToldPart(told))
           y3 == Applied(y2, DoingPart(s, d))
<1>0. d \in Routine(s) \cup Decisions(s) /\ d.behavior \in Behavior /\ told \in PartialOrders
      /\ order[s] \in Order
  BY DecidedBehavior, ToldFits DEF Deciding, TypeOK
<1>1. Applied(x, Acting(s, d, told)) = y3
  BY ActingAhead
<1>2. /\ y1 \in ViewsOf(t) /\ y1.behavior = x.behavior /\ (t # s => y1 = x)
      /\ \A o \in Order : d = Change(o) /\ t = s => y1.order = o
      /\ \A b : d = Keep(b) => y1 = x
  BY <1>0, OwnPartAhead
<1> HIDE DEF y1
<1>3. y2 \in ViewsOf(t) /\ y2.behavior = y1.behavior /\ (y2 = y1 \/ y2.untaken)
  BY <1>0, <1>2, ToldPartAhead
<1> HIDE DEF y2
<1>4. /\ y3.order = y2.order /\ y3.untaken = y2.untaken /\ y3.ended = y2.ended
      /\ y3.behavior = IF t = s /\ Changes(s, d) THEN d.behavior ELSE y2.behavior
  BY <1>0, <1>3, DoingPartAhead
<1> HIDE DEF y3
<1>5. CASE y2.untaken
  BY <1>1, <1>4, <1>5, Zenon DEF Settled
<1>6. CASE ~y2.untaken /\ t # s
  <2>1. y2 = x /\ Settled(x)
    BY <1>2, <1>3, <1>6
  <2>2. y3.behavior = x.behavior /\ y3.order = x.order /\ y3.untaken = x.untaken
        /\ y3.ended = x.ended
    BY <1>4, <1>6, <2>1
  <2> QED BY <1>1, <2>1, <2>2, Zenon DEF Settled
<1>7. CASE ~y2.untaken /\ t = s
  <2>0. y2 = y1 /\ y3.order = y1.order
    BY <1>3, <1>4, <1>7
  <2> SUFFICES Agree(y3.order, y3.behavior)
    BY <1>1, Zenon DEF Settled
  <2>1. CASE \E o \in Order : d = Change(o)
    <3>1. PICK o \in Order : d = Change(o)
      BY <2>1
    <3>2. d.orders # {} /\ d.behavior = FromOrder(o)
      BY <3>1, DecisionParts
    <3>3. y3.order = o /\ y3.behavior = FromOrder(o)
      BY <1>2, <1>4, <1>7, <2>0, <3>1, <3>2 DEF Changes
    <3> QED BY <3>3, MadeFromItsOrder
  <2>2. CASE \E b : d = Keep(b) /\ (b = FromOrder(order[s]) \/ \E k \in Still : b = Does(k))
    <3>1. PICK b : d = Keep(b) /\ (b = FromOrder(order[s]) \/ \E k \in Still : b = Does(k))
      BY <2>2
    <3>2. d.orders = {} /\ d.behavior = b /\ y1 = x
      BY <1>2, <3>1, DecisionParts
    <3>3. ~x.untaken
      BY <1>7, <2>0, <3>2
    <3>4. CASE x.behavior = behavior[s] /\ x.order = order[s]
      <4>1. y3.order = order[s] /\ y3.behavior = b
        BY <1>4, <1>7, <2>0, <3>2, <3>4 DEF Changes
      <4>2. CASE b = FromOrder(order[s])
        BY <1>0, <4>1, <4>2, MadeFromItsOrder
      <4>3. CASE \E k \in Still : b = Does(k)
        BY <4>1, <4>3, Stills DEF Agree
      <4> QED BY <3>1, <4>2, <4>3
    <3>5. CASE order[s].kind = "Engage" /\ ~IsMove(x.behavior)
      <4>1. y3.behavior = b \/ y3.behavior = x.behavior
        BY <1>4, <1>7, <2>0, <3>2
      <4>2. ~IsMove(b)
        <5>1. CASE b = FromOrder(order[s])
          BY <3>5, <5>1, <1>0, OrderParts DEF IsMove
        <5>2. CASE \E k \in Still : b = Does(k)
          BY <5>2, Stills
        <5> QED BY <3>1, <5>1, <5>2
      <4>3. ~IsMove(y3.behavior)
        BY <3>5, <4>1, <4>2
      <4> QED BY <4>3 DEF Agree
    <3> QED BY <1>7, <3>3, <3>4, <3>5
  <2> QED BY <1>0, <2>1, <2>2, DecisionsFit
<1> QED BY <1>5, <1>6, <1>7

LEMMA ViewMade ==
    ASSUME NEW s \in Soldier, NEW o \in Order, NEW b \in Behavior, NEW u \in BOOLEAN,
           NEW e \in BOOLEAN
    PROVE  LET y == [soldier |-> s, order |-> o, behavior |-> b, untaken |-> u, ended |-> e] IN
           y \in ViewsOf(s) /\ y.order = o /\ y.behavior = b
BY Zenon DEF ViewsOf, View

LEMMA AnimateAgrees ==
    ASSUME TypeOK, StagesAreDone, Orderly, NEW s \in Soldier, Animate(s),
           NEW d, NEW told, Deciding(s, d, told), pending' = pending \o Acting(s, d, told)
    PROVE  WillAgree'
<1> SUFFICES ASSUME NEW t \in alive' PROVE Settled(Foreseen(t))'
  BY DEF WillAgree
<1>0. t \in alive /\ t \in Soldier /\ pending \in Seq(Message)
      /\ Acting(s, d, told) \in Seq(Message)
  <2>1. Acting(s, d, told) \in Seq(Sent(s)) /\ Sent(s) \subseteq Message
    BY ActingIsSent DEF Sent
  <2> QED BY <2>1 DEF TypeOK, Animate, soldierVars
<1>1. order' = order /\ behavior' = behavior /\ sideEffects' = sideEffects
      /\ untaken' = untaken \ {s} /\ stage = "animate" /\ turn = s
  BY DEF Animate, soldierVars
<1> DEFINE x == Applied(Now(t)', pending)
<1>2. Foreseen(t)' = Applied(x, Acting(s, d, told))
  <2>1. Foreseen(t)' = Applied(Now(t)', pending \o Acting(s, d, told))
    BY DEF Foreseen
  <2>2. \A p, q \in Seq(Message) : Applied(Now(t)', p \o q) = Applied(Applied(Now(t)', p), q)
    BY AppliedFurther
  <2> QED BY <1>0, <2>1, <2>2
<1>3. x \in ViewsOf(t) /\ \/ t # s /\ Settled(x)
                          \/ t = s /\ x.behavior = behavior[s] /\ (x.untaken \/ x.order = order[s])
                          \/ t = s /\ order[s].kind = "Engage" /\ ~IsMove(x.behavior)
  <2>1. CASE t # s
    <3>1. order'[t] = order[t] /\ behavior'[t] = behavior[t]
          /\ (t \in untaken') = (t \in untaken) /\ Ended(t)' = Ended(t)
      BY <1>1, <2>1 DEF Ended
    <3>2. Now(t)' = Now(t)
      BY <3>1, Zenon DEF Now
    <3>3. x = Foreseen(t)
      BY <3>2 DEF Foreseen
    <3> QED BY <1>0, <2>1, <3>3, NowIsAView DEF Orderly, WillAgree
  <2>2. CASE t = s
    <3>1. (t \in untaken') = FALSE /\ Ended(t)' = Ended(t)
      BY <1>1, <2>2 DEF Ended
    <3>2. Now(t)' = [soldier |-> t, order |-> order[t], behavior |-> behavior[t],
                     untaken |-> FALSE, ended |-> Ended(t)]
      BY <1>1, <3>1, Zenon DEF Now
    <3>3. /\ Now(t)' \in ViewsOf(t) /\ Now(t)'.behavior = behavior[s]
          /\ Now(t)'.order = order[s]
      <4>1. /\ order[t] \in Order /\ behavior[t] \in Behavior /\ FALSE \in BOOLEAN
            /\ Ended(t) \in BOOLEAN
        BY <1>0 DEF TypeOK, Ended
      <4>2. LET y == [soldier |-> t, order |-> order[t], behavior |-> behavior[t],
                      untaken |-> FALSE, ended |-> Ended(t)] IN
            y \in ViewsOf(t) /\ y.order = order[t] /\ y.behavior = behavior[t]
        BY <1>0, <4>1, ViewMade
      <4> QED BY <2>2, <3>2, <4>2, Zenon
    <3> DEFINE engages == order[s].kind = "Engage"
    <3>4. \A i \in DOMAIN pending : OnlyToldTo(pending[i], t, engages)
      <4> SUFFICES ASSUME NEW i \in DOMAIN pending PROVE OnlyToldTo(pending[i], t, engages)
        OBVIOUS
      <4>1. Timely(pending[i])
        BY DEF Orderly, InTurn
      <4>2. t \notin 1..(turn - 1)
        <5>1. t = turn /\ turn \in Nat
          BY <1>0, <1>1, <2>2, NumbersFit
        <5> QED BY <5>1
      <4>3. pending[i].kind = "MakeIdle" /\ Engaged(pending[i].soldiers) /\ t \in pending[i].soldiers
              => engages
        BY <2>2 DEF Engaged
      <4>4. pending[i].kind = "MakeIdle" => TouchedBy(pending[i]) = pending[i].soldiers
        BY DEF TouchedBy
      <4> QED BY <1>1, <4>1, <4>2, <4>3, <4>4 DEF Timely, OnlyToldTo
    <3> DEFINE n == Now(t)'
    <3> HIDE DEF n, engages
    <3>5. LET y == Applied(n, pending) IN
          /\ y \in ViewsOf(t)
          /\ \/ y.behavior = n.behavior /\ (y.untaken \/ y = n)
             \/ engages /\ ~IsMove(y.behavior)
      <4>1. n \in ViewsOf(t)
        BY <3>3 DEF n
      <4> QED BY <1>0, <3>4, <4>1, OnlyTold
    <3>6. x = Applied(n, pending)
      BY Zenon DEF n
    <3> HIDE DEF x
    <3>7. \/ x.behavior = behavior[s] /\ (x.untaken \/ x.order = order[s])
          \/ engages /\ ~IsMove(x.behavior)
      BY <3>3, <3>5, <3>6 DEF n
    <3> QED BY <2>2, <3>5, <3>6, <3>7 DEF engages
  <2> QED BY <2>1, <2>2
<1> HIDE DEF x
<1>4. Settled(Applied(x, Acting(s, d, told)))
  BY <1>0, <1>3, ActingSettles
<1>5. \E y : Foreseen(t)' = y /\ Settled(y)
  BY <1>2, <1>4
<1> QED BY <1>5, Zenon DEF Settled, Agree, IsMove

(* What is sent in the turn of a soldier is in time.                       *)
InItsTurn(m) ==
    \/ /\ m.kind \in {"SetOrders", "SetBehavior"}
       /\ stage = "animate" => \/ m.kind = "SetOrders" /\ ~m.own
                               \/ TouchedBy(m) = {turn}
    \/ stage = "update" /\ m = ReachStep(turn)

LEMMA TurnIsInTime ==
    ASSUME TypeOK, InTurn, NEW next, NextTurn(next),
           (stage = "animate" /\ next = "update") \/ (stage = "update" /\ next = "leaders"),
           order' = order,
           NEW msgs \in Seq(Message), pending' = pending \o msgs,
           \A i \in DOMAIN msgs : InItsTurn(msgs[i])
    PROVE  InTurn' /\ \A i \in DOMAIN pending' : pending'[i].kind # "SetAlive"
<1>1. /\ turn \in Nat /\ (stage' = stage => turn' = turn + 1)
      /\ stage' = stage \/ stage' = next
  BY TurnsPass
<1>2. 1..(turn - 1) \subseteq 1..(turn + 1 - 1) /\ turn \in 1..(turn + 1 - 1)
  <2>1. turn \in Soldier
    BY DEF TypeOK
  <2> QED BY <1>1, <2>1, NumbersFit
<1>3. ASSUME NEW i \in DOMAIN pending'
      PROVE  Timely(pending[i])' /\ pending'[i].kind # "SetAlive"
  <2>0. PICK m : m = pending'[i]
    OBVIOUS
  <2>1. \/ i \in DOMAIN pending /\ m = pending[i]
        \/ i - Len(pending) \in DOMAIN msgs /\ m = msgs[i - Len(pending)]
    BY <1>3, <2>0, Appended DEF TypeOK
  <2>2. CASE Timely(m)
    <3>1. m.kind # "SetAlive"
      BY <2>2 DEF Timely
    <3>2. m.kind = "ReachBehaviorStep" => stage = "update" /\ m.soldier < turn
      BY <2>2 DEF Timely
    <3>3. stage' = "animate" => \/ m.kind = "SetOrders" /\ ~m.own
                                \/ TouchedBy(m) \subseteq 1..(turn' - 1)
                                \/ m.kind = "MakeIdle" /\ Engaged(m.soldiers)
      BY <1>1, <1>2, <2>2 DEF Timely
    <3>4. m.kind = "ReachBehaviorStep" => m \in Message
      <4>1. \A j \in DOMAIN pending : pending[j] \in Message
        BY ElementOfSeq DEF TypeOK
      <4>2. \A j \in DOMAIN msgs : msgs[j] \in Message
        BY ElementOfSeq
      <4> QED BY <2>1, <4>1, <4>2
    <3>5. m.kind = "ReachBehaviorStep" =>
            stage' # "animate" /\ (stage' = "update" => m.soldier < turn')
      <4>1. m.kind = "ReachBehaviorStep" => m.soldier \in Nat
        BY <3>4, ReachStepParts, NumbersFit
      <4> QED BY <1>1, <3>2, <4>1
    <3> QED BY <2>0, <3>1, <3>3, <3>5 DEF Timely, TouchedBy, Engaged
  <2>3. CASE InItsTurn(m)
    <3>1. CASE m.kind \in {"SetOrders", "SetBehavior"}
      <4>1. stage' = "animate" => \/ m.kind = "SetOrders" /\ ~m.own
                                  \/ TouchedBy(m) \subseteq 1..(turn' - 1)
        <5>1. stage' = "animate" => stage = "animate" /\ turn' = turn + 1
          BY <1>1
        <5>2. InItsTurn(m) /\ stage = "animate" => \/ m.kind = "SetOrders" /\ ~m.own
                                                   \/ TouchedBy(m) = {turn}
          BY <3>1 DEF InItsTurn, ReachStep
        <5> QED BY <1>2, <2>3, <5>1, <5>2
      <4> QED BY <2>0, <3>1, <4>1 DEF Timely, TouchedBy
    <3>2. CASE stage = "update" /\ m = ReachStep(turn)
      <4>1. m.kind = "ReachBehaviorStep" /\ m.soldier = turn
        BY <3>2 DEF ReachStep
      <4> QED BY <1>1, <2>0, <3>2, <4>1 DEF Timely
    <3> QED BY <2>3, <3>1, <3>2 DEF InItsTurn
  <2> QED BY <2>1, <2>2, <2>3 DEF InTurn
<1> QED BY <1>3 DEF InTurn

LEMMA AnimateIsOrderly ==
    ASSUME TypeOK, StagesAreDone, Orderly, NEW s \in Soldier, Animate(s)
    PROVE  Orderly'
<1>1. PICK d, told : Deciding(s, d, told) /\ pending' = pending \o Acting(s, d, told)
  BY AnimateActs
<1> DEFINE msgs == Acting(s, d, told)
           M == {m \in Sent(s) : Fits(m)}
<1>2. msgs \in Seq(M)
  BY <1>1, ActingFits
<1> HIDE DEF msgs
<1>3. \A i \in DOMAIN msgs : msgs[i] \in M
  <2> HIDE DEF M
  <2> QED BY <1>2, ElementOfSeq
<1>4. msgs \in Seq(Message)
  <2>1. M \subseteq Message
    BY DEF Sent
  <2> HIDE DEF M
  <2> QED BY <1>2, <2>1
<1>5. /\ stage = "animate" /\ turn = s /\ NextTurn("update") /\ stage' # "panicked"
      /\ UNCHANGED <<alive, leader, order, behavior, sideEffects>>
  BY DEF Animate, NextTurn, soldierVars
<1>6. ASSUME NEW i \in DOMAIN msgs
      PROVE  Fits(msgs[i]) /\ InItsTurn(msgs[i]) /\ msgs[i].kind # "ReachBehaviorStep"
  BY <1>3, <1>5 DEF Sent, InItsTurn
<1>7. pending' = pending \o msgs
  BY <1>1 DEF msgs
<1>8. InTurn' /\ \A i \in DOMAIN pending' : pending'[i].kind # "SetAlive"
  BY <1>4, <1>5, <1>6, <1>7, TurnIsInTime DEF Orderly
<1>9. OneStepEach' /\ DeadLast'
  BY <1>4, <1>6, <1>7, <1>8, OneStepFurther, NobodyDies DEF Orderly
<1>10. DeadStandStill' /\ PathsHavePoints' /\ MessagesFit'
  BY <1>4, <1>5, <1>6, <1>7, FitFurther DEF Orderly
<1>11. WillAgree'
  BY <1>1, AnimateAgrees
<1> QED BY <1>5, <1>8, <1>9, <1>10, <1>11 DEF Orderly

-----------------------------------------------------------------------------
(* Up to the first merge: soldiers take a step, squads lose their leader,  *)
(* and some are hit.                                                       *)

LEMMA SettlingLists ==
    /\ Settling(<<>>)
    /\ \A s \in Soldier : Settling(<<ReachStep(s)>>)
    /\ \A q, s : Settling(<<SetSquadLeader(q, s)>>)
<1>1. Settling(<<>>)
  BY AppliedNone DEF Settling
<1>2. ASSUME NEW s \in Soldier PROVE Settling(<<ReachStep(s)>>)
  BY AppliedOnce, StepIsSettled DEF Settling
<1>3. ASSUME NEW q, NEW s PROVE Settling(<<SetSquadLeader(q, s)>>)
  BY AppliedOnce, RemainsAtElection DEF Settling
<1> QED BY <1>1, <1>2, <1>3

LEMMA AppliedTwice ==
    ASSUME NEW x, NEW m, NEW n
    PROVE  Applied(x, <<m, n>>) = Becomes(Becomes(x, m), n)
<1> DEFINE p == <<m, n>>
<1>1. p \in Seq({m, n}) /\ p # <<>> /\ Head(p) = m /\ Tail(p) = <<n>>
  OBVIOUS
<1> HIDE DEF p
<1>2. Applied(Becomes(x, Head(p)), Tail(p)) = Applied(x, p)
  BY <1>1, AppliedHead
<1>3. Applied(Becomes(x, m), <<n>>) = Becomes(Becomes(x, m), n)
  BY AppliedOnce
<1> QED BY <1>1, <1>2, <1>3 DEF p

LEMMA SettlingPairs ==
    ASSUME NEW s \in Soldier, NEW o \in Order
    PROVE  /\ Settling(<<SetBehavior(s, FromOrder(o)), SetOrder(s, o, TRUE)>>)
           /\ Settling(<<SetOrder(s, o, TRUE), SetBehavior(s, FromOrder(o))>>)
<1> DEFINE b == SetBehavior(s, FromOrder(o))
           c == SetOrder(s, o, TRUE)
<1>1. \A z, m, n : Applied(z, <<m, n>>) = Becomes(Becomes(z, m), n)
  BY AppliedTwice
<1>2. \A t \in Soldier : \A x \in ViewsOf(t) : Settled(x) =>
         Settled(Becomes(Becomes(x, b), c)) /\ Settled(Becomes(Becomes(x, c), b))
  BY PairsAreSettled
<1> HIDE DEF b, c
<1>3. Settling(<<b, c>>) /\ Settling(<<c, b>>)
  BY <1>1, <1>2 DEF Settling
<1> QED BY <1>3 DEF b, c

LEMMA SettlingCall ==
    ASSUME NEW f \in PartialOrders, NEW S \in SUBSET Soldier
    PROVE  Settling(<<MakeIdle(S), SetOrders(f, FALSE)>>)
<1> DEFINE b == MakeIdle(S)
           c == SetOrders(f, FALSE)
<1>1. \A z, m, n : Applied(z, <<m, n>>) = Becomes(Becomes(z, m), n)
  BY AppliedTwice
<1>2. ASSUME NEW t \in Soldier, NEW x \in ViewsOf(t), Settled(x)
      PROVE  Settled(Becomes(Becomes(x, b), c))
  <2>1. Becomes(x, b) \in ViewsOf(t) /\ Settled(Becomes(x, b))
    BY <1>2, MessagesMade, BecomesAView, IdleIsSettled
  <2> HIDE DEF b
  <2> QED BY <2>1, ToldIsSettled
<1> HIDE DEF b, c
<1>3. Settling(<<b, c>>)
  BY <1>1, <1>2 DEF Settling
<1> QED BY <1>3 DEF b, c

LEMMA SettlingOrders ==
    ASSUME NEW f \in PartialOrders
    PROVE  Settling(<<SetOrders(f, FALSE)>>)
BY AppliedOnce, ToldIsSettled DEF Settling

LEMMA OneOrder ==
    ASSUME NEW s \in Soldier, NEW o \in Order
    PROVE  [x \in {s} |-> o] \in PartialOrders
<1>1. [x \in {s} |-> o] \in [{s} -> Order] /\ {s} \in SUBSET Soldier
  OBVIOUS
<1> QED BY <1>1 DEF PartialOrders

LEMMA SettlingHalts ==
    ASSUME NEW s \in Soldier, NEW b \in Behavior, ~IsMove(b), NEW m \in {Die(s), Faint(s)}
    PROVE  Settling(<<SetBehavior(s, b), m>>)
<1>1. \A x : Becomes(x, m) = x
  BY RemainsAtDeath, RemainsAtFaint
<1>2. \A x : Applied(x, <<SetBehavior(s, b), m>>) = Becomes(x, SetBehavior(s, b))
  BY <1>1, AppliedTwice
<1> QED BY <1>2, StandingIsSettled DEF Settling

LEMMA SentIsOrderly ==
    ASSUME TypeOK, Orderly, NEW msgs \in Seq(Message), pending' = pending \o msgs,
           UNCHANGED <<alive, leader, order, behavior, sideEffects, untaken>>,
           Settling(msgs), \A i \in DOMAIN msgs : Fits(msgs[i]),
           stage' # "panicked", InTurn', OneStepEach', DeadLast'
    PROVE  Orderly'
<1>1. WillAgree'
  BY AgreeFurther DEF Orderly
<1>2. DeadStandStill' /\ PathsHavePoints' /\ MessagesFit'
  BY FitFurther DEF Orderly
<1> QED BY <1>1, <1>2 DEF Orderly

LEMMA OneLong == \A m : DOMAIN <<m>> = {1} /\ <<m>>[1] = m
OBVIOUS

(* A point reached once, in the turn of who reaches it.                    *)
LEMMA ReachedOnce ==
    ASSUME TypeOK, Orderly, NEW s \in Soldier, stage = "update", turn = s,
           pending' = pending \o <<ReachStep(s)>>
    PROVE  OneStepEach'
<1> DEFINE msgs == <<ReachStep(s)>>
<1>1. msgs \in Seq(Message) /\ DOMAIN msgs = {1} /\ msgs[1] = ReachStep(s)
  BY MessagesOfAWalk, OneLong
<1>2. pending \in Seq(Message) /\ Len(pending) \in Nat
  BY DEF TypeOK
<1>3. \A i \in DOMAIN pending' : \/ i \in DOMAIN pending /\ pending'[i] = pending[i]
                                 \/ i = Len(pending) + 1 /\ pending'[i] = ReachStep(s)
  <2> HIDE DEF msgs
  <2>1. pending' = pending \o msgs
    BY DEF msgs
  <2>2. DOMAIN (pending \o msgs) \subseteq Nat
    BY <1>1, <1>2
  <2> QED BY <1>1, <1>2, <2>1, <2>2, Appended
<1>4. \A i \in DOMAIN pending : pending[i] # ReachStep(s)
  <2> SUFFICES ASSUME NEW i \in DOMAIN pending, pending[i] = ReachStep(s) PROVE FALSE
    OBVIOUS
  <2>1. Timely(pending[i])
    BY DEF Orderly, InTurn
  <2>2. s < turn
    BY <2>1 DEF Timely, ReachStep
  <2> QED BY <2>2, NumbersFit
<1> SUFFICES ASSUME NEW i \in DOMAIN pending', NEW j \in DOMAIN pending',
                    pending'[i].kind = "ReachBehaviorStep", pending'[j] = pending'[i]
             PROVE  i = j
  BY DEF OneStepEach
<1> QED BY <1>3, <1>4 DEF Orderly, OneStepEach

LEMMA UpdateIsOrderly ==
    ASSUME TypeOK, StagesAreDone, Orderly, NEW s \in Soldier, Update(s)
    PROVE  Orderly'
<1>0. ASSUME NEW msgs \in Seq(Message), Updated(s, msgs), Settling(msgs),
             \A i \in DOMAIN msgs : Fits(msgs[i]) /\ InItsTurn(msgs[i]),
             OneStepEach'
      PROVE  Orderly'
  <2>1. /\ stage = "update" /\ turn = s /\ NextTurn("leaders") /\ stage' # "panicked"
        /\ pending' = pending \o msgs
        /\ UNCHANGED <<alive, leader, order, behavior, sideEffects, untaken>>
    BY <1>0 DEF Updated, NextTurn, soldierVars
  <2>2. InTurn' /\ \A i \in DOMAIN pending' : pending'[i].kind # "SetAlive"
    BY <1>0, <2>1, TurnIsInTime DEF Orderly
  <2> QED BY <1>0, <2>1, <2>2, NobodyDies, SentIsOrderly
<1>1. /\ Update(s) => stage = "update" /\ turn = s
      /\ Walking(s) => s \in alive /\ ~Ended(s)
  <2>1. Update(s) => stage = "update" /\ turn = s
    BY DEF Update, EndOfPath, PointReached, ReturnToMap, NoStep, Updated
  <2> QED BY <2>1 DEF StagesAreDone, Ended, Orderly, DeadStandStill
<1>2. CASE Updated(s, <<>>)
  <2>1. <<>> \in Seq(Message) /\ DOMAIN <<>> = {} /\ pending' = pending \o <<>>
    BY <1>2 DEF Updated
  <2>2. OneStepEach'
    BY <2>1, OneStepFurther DEF Orderly
  <2> QED BY <1>0, <1>2, <2>1, <2>2, SettlingLists
<1>3. CASE Walking(s) /\ Updated(s, <<ReachStep(s)>>)
  <2>1. <<ReachStep(s)>> \in Seq(Message) /\ DOMAIN <<ReachStep(s)>> = {1}
        /\ <<ReachStep(s)>>[1] = ReachStep(s)
    BY MessagesOfAWalk, OneLong
  <2>2. OneStepEach'
    BY <1>1, <1>3, ReachedOnce DEF Updated
  <2>3. Fits(ReachStep(s)) /\ InItsTurn(ReachStep(s))
    BY <1>1, <1>3 DEF Fits, ReachStep, InItsTurn
  <2> QED BY <1>0, <1>3, <2>1, <2>2, <2>3, SettlingLists
<1>4. ASSUME NEW o \in Order, HasPoints(o), Walking(s) \/ ~IsMove(o),
             \/ Updated(s, <<SetBehavior(s, FromOrder(o)), SetOrder(s, o, TRUE)>>)
             \/ Updated(s, <<SetOrder(s, o, TRUE), SetBehavior(s, FromOrder(o))>>)
      PROVE  Orderly'
  <2> DEFINE b == SetBehavior(s, FromOrder(o))
             c == SetOrder(s, o, TRUE)
  <2>1. /\ HasPoints(FromOrder(o)) /\ (IsMove(FromOrder(o)) => s \in alive)
    BY <1>1, <1>4, OrderParts DEF HasPoints, IsMove
  <2>2. Fits(b) /\ InItsTurn(b) /\ b.kind = "SetBehavior"
    BY <1>1, <2>1 DEF Fits, SetBehavior, InItsTurn
  <2>3. Fits(c) /\ InItsTurn(c) /\ c.kind = "SetOrders"
    BY <1>1, <1>4 DEF Fits, SetOrder, SetOrders, InItsTurn
  <2>4. \/ Updated(s, <<b, c>>) /\ <<b, c>> \in Seq(Message) /\ Settling(<<b, c>>)
        \/ Updated(s, <<c, b>>) /\ <<c, b>> \in Seq(Message) /\ Settling(<<c, b>>)
    BY <1>4, MessagesOfAWalk, SettlingPairs
  <2> HIDE DEF b, c
  <2>5. PICK msgs \in Seq(Message) :
          /\ Updated(s, msgs) /\ Settling(msgs) /\ (msgs = <<b, c>> \/ msgs = <<c, b>>)
    BY <2>4, Zenon
  <2>6. \A i \in DOMAIN msgs : msgs[i] \in {b, c}
    BY <2>5
  <2>7. \A i \in DOMAIN msgs : /\ Fits(msgs[i]) /\ InItsTurn(msgs[i])
                               /\ msgs[i].kind # "ReachBehaviorStep"
    BY <2>2, <2>3, <2>6
  <2>8. OneStepEach'
    BY <2>5, <2>7, OneStepFurther DEF Updated, Orderly
  <2> QED BY <1>0, <2>5, <2>7, <2>8
<1> QED BY <1>2, <1>3, <1>4, StepsOfAWalk

(* "Must have point in path".                                              *)
LEMMA NobodyLacksAPoint ==
    ASSUME TypeOK, StagesAreDone, Orderly, NEW s \in Soldier, NoPointInPath(s)
    PROVE  FALSE
<1>1. s \in alive /\ ~Ended(s)
  BY DEF NoPointInPath, StagesAreDone, Ended, Orderly, DeadStandStill
<1>2. HasPoints(behavior[s])
  BY <1>1 DEF Orderly, PathsHavePoints
<1> QED BY <1>2 DEF NoPointInPath, HasPoints, Walking

(* What squad leaders send.                                                *)
LEMMA SentByLeaders ==
    ASSUME TypeOK, Orderly, NEW msgs \in Seq(Message), pending' = pending \o msgs,
           UNCHANGED <<alive, leader, order, behavior, sideEffects, untaken>>,
           Settling(msgs), stage \in {"leaders", "relief"}, stage' \in {"leaders", "relief"},
           \A i \in DOMAIN msgs : /\ Fits(msgs[i])
                                  /\ msgs[i].kind \notin {"ReachBehaviorStep", "SetAlive"}
    PROVE  Orderly'
<1>1. \A i \in DOMAIN pending' : pending'[i].kind # "SetAlive"
  <2>1. \A i \in DOMAIN pending : pending[i].kind # "SetAlive"
    BY DEF Orderly, InTurn, Timely
  <2> QED BY <2>1, Appended DEF TypeOK
<1>2. InTurn'
  BY <1>1 DEF InTurn, Timely
<1>3. OneStepEach'
  BY OneStepFurther DEF Orderly
<1> QED BY <1>1, <1>2, <1>3, NobodyDies, SentIsOrderly

LEMMA ElectIsOrderly ==
    ASSUME TypeOK, StagesAreDone, Orderly, NEW q \in Soldier, NEW s \in Soldier, Elect(q, s)
    PROVE  Orderly'
<1> DEFINE msgs == <<SetSquadLeader(q, s)>>
<1>1. msgs \in Seq(Message) /\ \A i \in DOMAIN msgs : msgs[i] = SetSquadLeader(q, s)
  BY MessagesMade, ShortLists
<1>2. Fits(SetSquadLeader(q, s)) /\ SetSquadLeader(q, s).kind = "SetSquadLeader"
  BY DEF Elect, Headless, Squads, Fits, SetSquadLeader
<1>3. Settling(msgs)
  BY SettlingLists
<1>4. /\ stage = "leaders" /\ stage' = stage /\ pending' = pending \o msgs
      /\ UNCHANGED <<alive, leader, order, behavior, sideEffects, untaken>>
  BY DEF Elect, Produce, soldierVars
<1> HIDE DEF msgs
<1>5. \A i \in DOMAIN msgs : /\ Fits(msgs[i])
                             /\ msgs[i].kind \notin {"ReachBehaviorStep", "SetAlive"}
  BY <1>1, <1>2
<1> QED BY <1>1, <1>3, <1>4, <1>5, SentByLeaders

LEMMA TwoLong == \A m, n : DOMAIN <<m, n>> = {1, 2} /\ <<m, n>>[1] = m /\ <<m, n>>[2] = n
OBVIOUS

(* Two messages at once.                                                   *)
LEMMA TwoFit ==
    ASSUME NEW S, NEW f, \A s \in DOMAIN f : HasPoints(f[s])
    PROVE  LET msgs == <<MakeIdle(S), SetOrders(f, FALSE)>> IN
           \A i \in DOMAIN msgs : /\ Fits(msgs[i])
                                  /\ msgs[i].kind \in {"MakeIdle", "SetOrders"}
<1> DEFINE b == MakeIdle(S)
           c == SetOrders(f, FALSE)
<1>1. Fits(b) /\ b.kind = "MakeIdle" /\ Fits(c) /\ c.kind = "SetOrders"
  BY DEF Fits, MakeIdle, SetOrders
<1> HIDE DEF b, c
<1>2. \A i \in DOMAIN <<b, c>> : /\ Fits(<<b, c>>[i])
                                /\ <<b, c>>[i].kind \in {"MakeIdle", "SetOrders"}
  BY <1>1, TwoLong
<1> QED BY <1>2 DEF b, c

LEMMA CallSupportIsOrderly ==
    ASSUME TypeOK, StagesAreDone, Orderly, NEW q \in Soldier, CallSupport(q)
    PROVE  Orderly'
<1>1. PICK o \in NewMoves({"Hold"}) :
        Produce(<<MakeIdle(SquadOf(q)), SetOrder(q, o, FALSE)>>, stage)
  BY DEF CallSupport
<1>2. o \in Order /\ HasPoints(o)
  BY NewMovesFit DEF Thens
<1> DEFINE f == [x \in {q} |-> o]
           b == MakeIdle(SquadOf(q))
           c == SetOrders(f, FALSE)
           msgs == <<b, c>>
<1>3. f \in PartialOrders /\ (\A s \in DOMAIN f : HasPoints(f[s]))
      /\ SquadOf(q) \in SUBSET Soldier
  BY <1>2, OneOrder DEF SquadOf
<1> HIDE DEF f
<1>4. b \in Message /\ c \in Message /\ Settling(msgs)
      /\ \A i \in DOMAIN msgs : /\ Fits(msgs[i])
                                /\ msgs[i].kind \notin {"ReachBehaviorStep", "SetAlive"}
  BY <1>3, MessagesMade, SettlingCall, TwoFit
<1>5. /\ stage = "leaders" /\ stage' = stage /\ pending' = pending \o msgs
      /\ UNCHANGED <<alive, leader, order, behavior, sideEffects, untaken>>
  BY <1>1 DEF CallSupport, Produce, soldierVars, SetOrder, f
<1> HIDE DEF b, c
<1>6. msgs \in Seq(Message)
  BY <1>4
<1> HIDE DEF msgs
<1> QED BY <1>4, <1>5, <1>6, SentByLeaders

LEMMA LoseSightIsOrderly ==
    ASSUME TypeOK, StagesAreDone, Orderly, NEW q \in Soldier, LoseSight(q)
    PROVE  Orderly'
<1> DEFINE f == [x \in {q} |-> Be("Idle")]
           m == SetOrders(f, FALSE)
           msgs == <<m>>
<1>1. f \in PartialOrders /\ \A t \in DOMAIN f : HasPoints(f[t])
  BY OneOrder, Stills DEF Still
<1>2. /\ pending' = pending \o msgs
      /\ stage \in {"leaders", "relief"} /\ stage' \in {"leaders", "relief"}
      /\ UNCHANGED <<alive, leader, order, behavior, sideEffects, untaken>>
  BY DEF LoseSight, LeadersHaveSent, Produce, soldierVars, SetOrder
<1> HIDE DEF f
<1>3. m \in Message /\ Fits(m) /\ m.kind = "SetOrders" /\ Settling(msgs)
  BY <1>1, MessagesMade, SettlingOrders DEF Fits, SetOrders
<1> HIDE DEF m
<1>4. msgs \in Seq(Message) /\ \A i \in DOMAIN msgs : msgs[i] = m
  BY <1>3, ShortLists, OneLong
<1> HIDE DEF msgs
<1>5. \A i \in DOMAIN msgs : /\ Fits(msgs[i])
                             /\ msgs[i].kind \notin {"ReachBehaviorStep", "SetAlive"}
  BY <1>3, <1>4
<1> QED BY <1>2, <1>3, <1>4, <1>5, SentByLeaders

(* A flag taken makes the first messages of a tick.                        *)
LEMMA FlagTakenIsOrderly ==
    ASSUME TypeOK, StagesAreDone, Orderly, NEW animate \in BOOLEAN, FlagTaken(animate)
    PROVE  Orderly'
<1>1. PICK R \in SUBSET Soldier, f \in PartialOrders :
        /\ Engaged(R) /\ \A s \in DOMAIN f : HasPoints(f[s])
        /\ pending' = <<MakeIdle(R), SetOrders(f, FALSE)>>
        /\ MakeIdle(R) \in Message /\ SetOrders(f, FALSE) \in Message
  BY FlagMessages
<1> DEFINE b == MakeIdle(R)
           c == SetOrders(f, FALSE)
           msgs == <<b, c>>
<1>2. /\ pending = <<>> /\ stage' \in {"animate", "update"}
      /\ UNCHANGED <<alive, leader, order, behavior, sideEffects, untaken>>
  BY DEF StagesAreDone, FlagTaken, soldierVars
<1>3. Settling(msgs) /\ \A i \in DOMAIN msgs : /\ Fits(msgs[i])
                                              /\ msgs[i].kind \in {"MakeIdle", "SetOrders"}
  BY <1>1, SettlingCall, TwoFit
<1>4. /\ b.kind = "MakeIdle" /\ b.soldiers = R /\ c.kind = "SetOrders" /\ ~c.own
  BY DEF MakeIdle, SetOrders
<1>5. b \in Message /\ c \in Message /\ pending' = msgs
  BY <1>1
<1> HIDE DEF b, c
<1>6. msgs \in Seq(Message) /\ <<>> \o msgs = msgs
  BY <1>5
<1>7. \A i \in DOMAIN msgs : msgs[i] = b \/ msgs[i] = c
  BY TwoLong
<1> HIDE DEF msgs
<1>8. \A i \in DOMAIN pending' : pending'[i].kind \notin {"SetAlive", "ReachBehaviorStep"}
  BY <1>3, <1>5
<1>9. InTurn'
  <2>1. Engaged(R)'
    BY <1>1, <1>2 DEF Engaged
  <2>2. \A i \in DOMAIN pending' : pending'[i] = b \/ pending'[i] = c
    BY <1>5, <1>7
  <2>3. \A i \in DOMAIN pending' : Timely(pending[i])'
    BY <1>4, <1>8, <2>1, <2>2 DEF Timely
  <2> QED BY <2>3 DEF InTurn
<1>10. OneStepEach' /\ DeadLast'
  BY <1>8, NobodyDies DEF OneStepEach
<1>11. pending' = pending \o msgs /\ stage' # "panicked"
  BY <1>2, <1>5, <1>6
<1> QED BY <1>2, <1>3, <1>6, <1>9, <1>10, <1>11, SentIsOrderly

(* What is sent for who is hit: it halts everyone it is about, and a death *)
(* comes right after its behavior.                                         *)
HitList(msgs) ==
    /\ msgs \in Seq(Message)
    /\ Settling(msgs)
    /\ \A i \in DOMAIN msgs :
          /\ Fits(msgs[i]) /\ Halts(msgs[i])
          /\ msgs[i].kind = "SetAlive" =>
                i - 1 \in DOMAIN msgs /\ msgs[i - 1] = SetBehavior(msgs[i].soldier, Does("Dead"))

LEMMA HitPair ==
    ASSUME NEW m \in Message, NEW n \in Message, Settling(<<m, n>>),
           Fits(m), Halts(m), Fits(n), Halts(n), m.kind # "SetAlive",
           n.kind = "SetAlive" => m = SetBehavior(n.soldier, Does("Dead"))
    PROVE  HitList(<<m, n>>)
<1> DEFINE p == <<m, n>>
<1>1. p \in Seq(Message) /\ DOMAIN p = {1, 2} /\ p[1] = m /\ p[2] = n
  OBVIOUS
<1>2. Settling(p)
  OBVIOUS
<1> HIDE DEF p
<1>3. HitList(p)
  BY <1>1, <1>2 DEF HitList
<1> QED BY <1>3 DEF p

LEMMA HitLists ==
    /\ HitList(<<>>)
    /\ \A s \in Soldier : HitList(Death(s)) /\ HitList(Stun(s)) /\ HitList(TakeCover(s))
<1>1. HitList(<<>>)
  BY SettlingLists DEF HitList
<1>2. ASSUME NEW s \in Soldier, NEW k \in {"Dead", "Unconscious", "Hold"}
      PROVE  LET m == SetBehavior(s, Does(k)) IN
             m \in Message /\ Fits(m) /\ Halts(m) /\ m.kind = "SetBehavior"
  <2>1. Does(k) \in Behavior /\ ~IsMove(Does(k)) /\ HasPoints(Does(k))
    BY Stills DEF Still
  <2> QED BY <2>1, MessagesMade DEF Fits, Halts, SetBehavior
<1>3. ASSUME NEW s \in Soldier PROVE HitList(Death(s))
  <2> DEFINE m == SetBehavior(s, Does("Dead"))
             n == Die(s)
  <2>1. m \in Message /\ Fits(m) /\ Halts(m) /\ m.kind = "SetBehavior"
    BY <1>2
  <2>2. n \in Message /\ Fits(n) /\ Halts(n) /\ n.soldier = s
    BY MessagesMade DEF Fits, Halts, Die
  <2>3. Settling(<<m, n>>)
    BY Stills, SettlingHalts
  <2> QED BY <2>1, <2>2, <2>3, HitPair DEF Death
<1>4. ASSUME NEW s \in Soldier PROVE HitList(Stun(s))
  <2> DEFINE m == SetBehavior(s, Does("Unconscious"))
             n == Faint(s)
  <2>1. m \in Message /\ Fits(m) /\ Halts(m) /\ m.kind = "SetBehavior"
    BY <1>2
  <2>2. n \in Message /\ Fits(n) /\ Halts(n) /\ n.kind = "SetUnconscious"
    BY MessagesMade DEF Fits, Halts, Faint
  <2>3. Settling(<<m, n>>)
    BY Stills, SettlingHalts
  <2> QED BY <2>1, <2>2, <2>3, HitPair DEF Stun
<1>5. ASSUME NEW s \in Soldier PROVE HitList(TakeCover(s))
  <2> DEFINE m == SetOrder(s, Be("Hold"), TRUE)
             n == SetBehavior(s, Does("Hold"))
  <2>1. n \in Message /\ Fits(n) /\ Halts(n) /\ n.kind = "SetBehavior"
    BY <1>2
  <2>2. Be("Hold") \in Order /\ HasPoints(Be("Hold")) /\ FromOrder(Be("Hold")) = Does("Hold")
    BY Stills DEF Still
  <2>3. m \in Message /\ Fits(m) /\ Halts(m) /\ m.kind = "SetOrders"
    BY <2>2, MessagesMade DEF Fits, Halts, SetOrder, SetOrders
  <2>4. Settling(<<m, n>>)
    BY <2>2, SettlingPairs
  <2> QED BY <2>1, <2>3, <2>4, HitPair DEF TakeCover
<1> QED BY <1>1, <1>3, <1>4, <1>5

LEMMA HitsJoined ==
    ASSUME NEW p, NEW q, HitList(p), HitList(q)
    PROVE  HitList(p \o q)
<1> DEFINE r == p \o q
           n == Len(p)
<1>1. p \in Seq(Message) /\ q \in Seq(Message) /\ r \in Seq(Message) /\ n \in Nat
  BY Appended DEF HitList
<1>2. Settling(r)
  <2> SUFFICES ASSUME NEW s \in Soldier, NEW x \in ViewsOf(s), Settled(x)
               PROVE  Settled(Applied(x, r))
    BY DEF Settling
  <2>1. Applied(x, p) \in ViewsOf(s) /\ Settled(Applied(x, p))
    BY <1>1, ViewsAhead DEF HitList, Settling
  <2>2. Settled(Applied(Applied(x, p), q))
    BY <2>1 DEF HitList, Settling
  <2> QED BY <1>1, <2>2, AppliedFurther
<1>3. /\ \A i \in DOMAIN p : i \in DOMAIN r /\ r[i] = p[i]
      /\ \A i \in DOMAIN q : i + n \in DOMAIN r /\ r[i + n] = q[i] /\ i \in Nat
      /\ \A i \in DOMAIN r : \/ i \in DOMAIN p
                             \/ i \in Nat /\ i - n \in DOMAIN q
  BY <1>1
<1> HIDE DEF r, n
<1>4. ASSUME NEW i \in DOMAIN r
      PROVE  /\ Fits(r[i]) /\ Halts(r[i])
             /\ r[i].kind = "SetAlive" =>
                   i - 1 \in DOMAIN r /\ r[i - 1] = SetBehavior(r[i].soldier, Does("Dead"))
  <2>1. CASE i \in DOMAIN p
    <3>1. /\ Fits(p[i]) /\ Halts(p[i])
          /\ p[i].kind = "SetAlive" =>
                i - 1 \in DOMAIN p /\ p[i - 1] = SetBehavior(p[i].soldier, Does("Dead"))
      BY <2>1 DEF HitList
    <3> QED BY <1>3, <2>1, <3>1
  <2>2. CASE i \in Nat /\ i - n \in DOMAIN q
    <3> DEFINE j == i - n
    <3>1. /\ Fits(q[j]) /\ Halts(q[j])
          /\ q[j].kind = "SetAlive" =>
                j - 1 \in DOMAIN q /\ q[j - 1] = SetBehavior(q[j].soldier, Does("Dead"))
      BY <2>2 DEF HitList
    <3>2. j \in DOMAIN q /\ j + n = i /\ (j - 1) + n = i - 1
      BY <1>1, <2>2
    <3> HIDE DEF j
    <3>3. r[i] = q[j]
      BY <1>3, <3>2
    <3>4. j - 1 \in DOMAIN q => i - 1 \in DOMAIN r /\ r[i - 1] = q[j - 1]
      BY <1>3, <3>2
    <3> QED BY <3>1, <3>3, <3>4
  <2> QED BY <1>3, <2>1, <2>2
<1>5. HitList(r)
  BY <1>1, <1>2, <1>4 DEF HitList, r
<1> QED BY <1>5 DEF r

LEMMA HitIsOrderly ==
    ASSUME TypeOK, StagesAreDone, Orderly, NEW msgs, HitList(msgs),
           NEW next \in {"hits", "blasts"}, Produce(msgs, next)
    PROVE  Orderly'
<1> DEFINE n == Len(pending)
<1>1. /\ stage' = next /\ pending' = pending \o msgs /\ msgs \in Seq(Message)
      /\ Settling(msgs) /\ UNCHANGED <<alive, leader, order, behavior, sideEffects, untaken>>
  BY DEF Produce, soldierVars, HitList
<1>2. \A i \in DOMAIN msgs : Fits(msgs[i]) /\ Halts(msgs[i])
                             /\ msgs[i].kind # "ReachBehaviorStep"
  BY DEF HitList, Halts
<1>3. InTurn'
  BY <1>1, LateIsInTime
<1>4. OneStepEach'
  BY <1>1, <1>2, OneStepFurther DEF Orderly
<1>5. /\ n \in Nat
      /\ \A i \in DOMAIN pending : i \in 1..n /\ i \in DOMAIN pending' /\ pending'[i] = pending[i]
      /\ \A i \in DOMAIN pending' : \/ i \in DOMAIN pending /\ pending'[i] = pending[i]
                                    \/ i \in Nat /\ i - n \in DOMAIN msgs
                                       /\ pending'[i] = msgs[i - n]
      /\ \A i \in DOMAIN msgs : /\ i \in Nat \ {0} /\ n + i \in DOMAIN pending'
                                /\ pending'[n + i] = msgs[i]
  <2>1. pending \in Seq(Message)
    BY DEF TypeOK
  <2> QED BY <1>1, <2>1
<1> HIDE DEF n
<1>6. DeadLast'
  <2> SUFFICES ASSUME NEW i \in DOMAIN pending', pending'[i].kind = "SetAlive"
               PROVE  /\ \A j \in DOMAIN pending' : j > i => Halts(pending'[j])
                      /\ IF i = 1 THEN ~Walking(pending[i].soldier)'
                         ELSE pending'[i - 1] = SetBehavior(pending'[i].soldier, Does("Dead"))
    BY DEF DeadLast, Walking, Halts, IsMove
  <2>1. CASE i \in DOMAIN pending
    <3>1. pending'[i] = pending[i]
      BY <1>5, <2>1
    <3>2. \A j \in DOMAIN pending' : j > i => Halts(pending'[j])
      <4> SUFFICES ASSUME NEW j \in DOMAIN pending', j > i PROVE Halts(pending'[j])
        OBVIOUS
      <4>1. CASE j \in DOMAIN pending
        <5>1. Halts(pending[j])
          BY <2>1, <3>1, <4>1 DEF Orderly, DeadLast
        <5> QED BY <1>5, <4>1, <5>1
      <4>2. CASE j \notin DOMAIN pending
        BY <1>2, <1>5, <4>2
      <4> QED BY <4>1, <4>2
    <3>3. CASE i = 1
      <4>1. ~Walking(pending[i].soldier)
        BY <2>1, <3>1, <3>3 DEF Orderly, DeadLast
      <4> QED BY <1>1, <3>1, <3>2, <3>3, <4>1 DEF Walking
    <3>4. CASE i # 1
      <4>1. i - 1 \in DOMAIN pending
        <5>1. pending \in Seq(Message)
          BY DEF TypeOK
        <5> QED BY <2>1, <3>4, <5>1
      <4>2. pending[i - 1] = SetBehavior(pending[i].soldier, Does("Dead"))
        BY <2>1, <3>1, <3>4 DEF Orderly, DeadLast
      <4> QED BY <1>5, <3>1, <3>2, <3>4, <4>1, <4>2
    <3> QED BY <3>3, <3>4
  <2>2. CASE i \notin DOMAIN pending
    <3> DEFINE k == i - n
    <3>1. i \in Nat /\ k \in DOMAIN msgs /\ pending'[i] = msgs[k]
      BY <1>5, <2>2
    <3>2. k - 1 \in DOMAIN msgs /\ msgs[k - 1] = SetBehavior(msgs[k].soldier, Does("Dead"))
      BY <2>2, <3>1 DEF HitList
    <3>3. n + (k - 1) = i - 1 /\ i # 1
      <4>1. k - 1 \in Nat \ {0}
        BY <1>5, <3>2
      <4> QED BY <1>5, <3>1, <4>1
    <3> HIDE DEF k
    <3>4. pending'[i - 1] = SetBehavior(pending'[i].soldier, Does("Dead"))
      BY <1>5, <3>1, <3>2, <3>3
    <3>5. \A j \in DOMAIN pending' : j > i => Halts(pending'[j])
      <4> SUFFICES ASSUME NEW j \in DOMAIN pending', j > i PROVE Halts(pending'[j])
        OBVIOUS
      <4>1. j \notin DOMAIN pending
        <5>2. DOMAIN pending = 1..n
          BY DEF TypeOK, n
        <5>3. j \in Nat
          BY <1>1 DEF TypeOK
        <5> QED BY <1>5, <2>2, <3>1, <5>2, <5>3
      <4> QED BY <1>2, <1>5, <4>1
    <3> QED BY <3>3, <3>4, <3>5
  <2> QED BY <2>1, <2>2
<1>7. stage' # "panicked"
  BY <1>1
<1> QED BY <1>1, <1>2, <1>3, <1>4, <1>6, <1>7, SentIsOrderly

LEMMA HitsAreOrderly ==
    ASSUME TypeOK, StagesAreDone, Orderly, NEW s \in Soldier, Killed(s) \/ Blasted(s)
    PROVE  Orderly'
<1>1. CASE Killed(s)
  <2>1. Produce(Death(s), "hits")
    BY <1>1 DEF Killed
  <2> QED BY <2>1, HitLists, HitIsOrderly
<1>2. CASE Blasted(s)
  <2>1. PICK cover \in {<<>>, TakeCover(s)}, harm \in {<<>>, Death(s), Stun(s)} :
          Produce(cover \o harm, "blasts")
    BY <1>2 DEF Blasted
  <2>2. HitList(cover) /\ HitList(harm)
    BY <2>1, HitLists
  <2> QED BY <2>1, <2>2, HitsJoined, HitIsOrderly
<1> QED BY <1>1, <1>2

-----------------------------------------------------------------------------
(* Up to the first merge: messages are applied.                            *)

LEMMA AppliedIsInOrder ==
    ASSUME TypeOK, Orderly, NEW k, React(k)
    PROVE  /\ OneStepEach'
           /\ stage' = stage => InTurn'
           /\ \A i \in DOMAIN pending' :
                /\ i \in Nat \ {0} /\ i + 1 \in DOMAIN pending /\ pending'[i] = pending[i + 1]
           /\ 1 \in DOMAIN pending /\ pending[1] = Head(pending) /\ pending[1].kind = k
<1>1. /\ \A i \in DOMAIN pending' :
                /\ i \in Nat \ {0} /\ i + 1 \in DOMAIN pending /\ pending'[i] = pending[i + 1]
      /\ 1 \in DOMAIN pending /\ pending[1] = Head(pending) /\ pending[1].kind = k
  BY Taken DEF React, TypeOK
<1>2. OneStepEach'
  <2> SUFFICES ASSUME NEW i \in DOMAIN pending', NEW j \in DOMAIN pending',
                      pending'[i].kind = "ReachBehaviorStep", pending'[j] = pending'[i]
               PROVE  i = j
    BY DEF OneStepEach
  <2>1. i + 1 = j + 1
    BY <1>1 DEF Orderly, OneStepEach
  <2> QED BY <1>1, <2>1
<1>3. stage' = stage => InTurn'
  BY LateIsInTime DEF React
<1> QED BY <1>1, <1>2, <1>3

(* The dead stay behind the others, and where they stand.                  *)
LEMMA DeadStayLast ==
    ASSUME TypeOK, Orderly, NEW k, React(k),
           \A s \in Soldier : Walking(s)' => Walking(s) \/ k = "SetBehavior",
           k = "SetBehavior" => ReactSetBehavior
    PROVE  DeadLast'
<1>1. /\ \A i \in DOMAIN pending' :
                /\ i \in Nat \ {0} /\ i + 1 \in DOMAIN pending /\ pending'[i] = pending[i + 1]
      /\ 1 \in DOMAIN pending /\ pending[1] = Head(pending) /\ pending[1].kind = k
  BY AppliedIsInOrder
<1> SUFFICES ASSUME NEW i \in DOMAIN pending', pending'[i].kind = "SetAlive"
             PROVE  /\ \A j \in DOMAIN pending' : j > i => Halts(pending'[j])
                    /\ IF i = 1 THEN ~Walking(pending[i].soldier)'
                       ELSE pending'[i - 1] = SetBehavior(pending'[i].soldier, Does("Dead"))
  BY DEF DeadLast, Walking, Halts, IsMove
<1>2. i + 1 \in DOMAIN pending /\ pending[i + 1].kind = "SetAlive" /\ i \in Nat \ {0}
  BY <1>1
<1>3. /\ \A j \in DOMAIN pending : j > i + 1 => Halts(pending[j])
      /\ pending[i] = SetBehavior(pending[i + 1].soldier, Does("Dead"))
  <2>1. i + 1 # 1 /\ i + 1 - 1 = i
    BY <1>2
  <2> QED BY <1>2, <2>1 DEF Orderly, DeadLast
<1>4. ASSUME NEW j \in DOMAIN pending', j > i
      PROVE  Halts(pending'[j])
  <2>1. j + 1 > i + 1 /\ j + 1 \in DOMAIN pending /\ pending'[j] = pending[j + 1]
    BY <1>1, <1>2, <1>4
  <2> QED BY <1>3, <2>1
<1>5. CASE i = 1
  <2>0. pending[i + 1].soldier \in Soldier
    <3>1. pending[i + 1] \in Message
      BY <1>2, ElementOfSeq DEF TypeOK
    <3> QED BY <1>2, <3>1, DieParts
  <2> DEFINE s == pending[i + 1].soldier
  <2>1. k = "SetBehavior" /\ Head(pending) = SetBehavior(s, Does("Dead"))
    BY <1>1, <1>3, <1>5 DEF SetBehavior
  <2>2. behavior'[s] = Does("Dead")
    BY <2>0, <2>1 DEF ReactSetBehavior, SetBehavior, TypeOK
  <2>3. ~IsMove(behavior'[s])
    BY <2>2, Stills
  <2>4. pending'[i] = pending[i + 1]
    BY <1>1
  <2> QED BY <1>4, <1>5, <2>3, <2>4 DEF Walking
<1>6. CASE i # 1
  <2>1. i - 1 \in DOMAIN pending' /\ pending'[i - 1] = pending[i]
    <3>1. pending \in Seq(Message) /\ pending' = Tail(pending)
      BY DEF TypeOK, React
    <3> QED BY <1>2, <1>6, <3>1
  <2> QED BY <1>1, <1>3, <1>4, <1>6, <2>1
<1> QED BY <1>5, <1>6

(* What a soldier becomes is what it is next when the parts agree.         *)
LEMMA SameView ==
    ASSUME NEW s, NEW x \in ViewsOf(s), NEW y \in ViewsOf(s), x.order = y.order,
           x.behavior = y.behavior, x.untaken <=> y.untaken, x.ended <=> y.ended
    PROVE  x = y
BY DEF ViewsOf, View

LEMMA NowNext ==
    ASSUME TypeOK', NEW s \in Soldier
    PROVE  /\ Now(s)' \in ViewsOf(s) /\ Now(s)'.order = order'[s]
           /\ Now(s)'.behavior = behavior'[s] /\ (Now(s)'.untaken <=> s \in untaken')
           /\ (Now(s)'.ended <=> Ended(s)')
<1>1. order'[s] \in Order /\ behavior'[s] \in Behavior
  BY DEF TypeOK
<1>2. Ended(s)' \in BOOLEAN /\ (s \in untaken') \in BOOLEAN
  BY DEF Ended
<1>3. Now(s)' \in ViewsOf(s)
  BY <1>1, <1>2, Zenon DEF Now, ViewsOf, View
<1> QED BY <1>3, Zenon DEF Now

LEMMA BecomesNext ==
    ASSUME TypeOK, TypeOK', NEW s \in Soldier, NEW m \in Message,
           LET y == Becomes(Now(s), m) IN
             /\ y.order = order'[s] /\ y.behavior = behavior'[s]
             /\ y.untaken <=> s \in untaken'
             /\ y.ended <=> Ended(s)'
    PROVE  Now(s)' = Becomes(Now(s), m)
<1> DEFINE y == Becomes(Now(s), m)
           n == Now(s)'
<1>1. y \in ViewsOf(s)
  BY NowIsAView, BecomesAView
<1>2. /\ n \in ViewsOf(s) /\ n.order = order'[s] /\ n.behavior = behavior'[s]
      /\ (n.untaken <=> s \in untaken') /\ (n.ended <=> Ended(s)')
  BY NowNext
<1>3. /\ n.order = y.order /\ n.behavior = y.behavior /\ (n.untaken <=> y.untaken)
      /\ (n.ended <=> y.ended)
  BY <1>2, Zenon
<1> HIDE DEF y, n
<1>4. n = y
  BY <1>1, <1>2, <1>3, SameView
<1> QED BY <1>4 DEF y, n

LEMMA OrderedFields ==
    ASSUME NEW s, NEW x \in ViewsOf(s), NEW f \in PartialOrders, NEW own \in BOOLEAN
    PROVE  LET y == Becomes(x, SetOrders(f, own)) IN
           /\ y.behavior = x.behavior /\ y.ended = x.ended
           /\ s \in DOMAIN f => y.order = f[s] /\ (y.untaken <=> ~own)
           /\ s \notin DOMAIN f => y = x
<1>0. x.soldier = s
  BY ViewParts
<1>1. CASE s \in DOMAIN f
  <2> DEFINE t == ~own
             o == f[s]
  <2>1. t \in BOOLEAN /\ o \in Order
    BY <1>1, PartialOrderParts
  <2>2. Becomes(x, SetOrders(f, own)) = [x EXCEPT !.order = o, !.untaken = t]
    BY <1>0, <1>1, BecomesTold
  <2> HIDE DEF t, o
  <2>3. LET y == [x EXCEPT !.order = o, !.untaken = t] IN
        y.order = o /\ y.untaken = t /\ y.behavior = x.behavior /\ y.ended = x.ended
    BY <2>1, Zenon DEF ViewsOf, View
  <2> QED BY <1>1, <2>2, <2>3, Zenon DEF t, o
<1>2. CASE s \notin DOMAIN f
  <2>1. Becomes(x, SetOrders(f, own)) = x
    BY <1>0, <1>2, BecomesTold
  <2> QED BY <1>2, <2>1
<1> QED BY <1>1, <1>2

LEMMA IdleFields ==
    ASSUME NEW s, NEW x \in ViewsOf(s), NEW S
    PROVE  LET y == Becomes(x, MakeIdle(S)) IN
           /\ y.ended = x.ended
           /\ s \in S => y.order = Be("Idle") /\ y.behavior = Does("Idle") /\ y.untaken = FALSE
           /\ s \notin S => y = x
<1>0. x.soldier = s
  BY ViewParts
<1>1. CASE s \in S
  <2> DEFINE b == Does("Idle")
             o == Be("Idle")
  <2>2. Becomes(x, MakeIdle(S)) = [x EXCEPT !.order = o, !.behavior = b, !.untaken = FALSE]
    BY <1>0, <1>1, BecomesIdle
  <2> HIDE DEF b, o
  <2>3. LET y == [x EXCEPT !.order = o, !.behavior = b, !.untaken = FALSE] IN
        y.order = o /\ y.untaken = FALSE /\ y.behavior = b /\ y.ended = x.ended
    BY Zenon DEF ViewsOf, View
  <2> QED BY <1>1, <2>2, <2>3, Zenon DEF b, o
<1>2. CASE s \notin S
  <2>1. Becomes(x, MakeIdle(S)) = x
    BY <1>0, <1>2, BecomesIdle
  <2> QED BY <1>2, <2>1
<1> QED BY <1>1, <1>2

LEMMA AppliedIsOrderly ==
    ASSUME TypeOK, Orderly, NEW k, React(k), stage' = stage,
           UNCHANGED <<alive, leader, sideEffects>>,
           \A s \in alive : Now(s)' = Becomes(Now(s), Head(pending)),
           DeadLast', DeadStandStill', PathsHavePoints'
    PROVE  Orderly'
<1>1. pending # <<>> /\ pending' = Tail(pending) /\ stage' # "panicked"
  BY DEF React, Orderly
<1>2. WillAgree'
  BY <1>1, AgreeWhenApplied DEF Orderly
<1>3. MessagesFit'
  <2> SUFFICES ASSUME NEW i \in DOMAIN pending' PROVE Fits(pending[i])'
    BY DEF MessagesFit
  <2>1. \E m : pending'[i] = m /\ Fits(m)
    BY AppliedIsInOrder DEF Orderly, MessagesFit
  <2> QED BY <2>1 DEF Fits, Ended, Leads
<1>4. OneStepEach' /\ InTurn'
  BY AppliedIsInOrder
<1> QED BY <1>1, <1>2, <1>3, <1>4 DEF Orderly

LEMMA SetOrdersIsOrderly ==
    ASSUME TypeOK, Orderly, ReactSetOrders
    PROVE  Orderly'
<1> DEFINE m == Head(pending)
           f == m.orders
<1>1. React("SetOrders") /\ stage' = stage
      /\ UNCHANGED <<alive, leader, sideEffects, behavior>>
  BY DEF ReactSetOrders
<1>2. /\ m \in Message /\ m.kind = "SetOrders" /\ f \in PartialOrders /\ m.own \in BOOLEAN
      /\ \A s \in DOMAIN f : HasPoints(f[s])
  <2>1. m \in Message /\ m.kind = "SetOrders" /\ Fits(m)
    BY <1>1, ReactParts, AppliedIsInOrder DEF Orderly, MessagesFit
  <2> QED BY <2>1, OrdersParts DEF Fits
<1>3. /\ order' = [s \in Soldier |-> IF s \in DOMAIN f THEN f[s] ELSE order[s]]
      /\ untaken' = IF m.own THEN untaken \ DOMAIN f ELSE untaken \cup DOMAIN f
  BY DEF ReactSetOrders
<1> HIDE DEF m
<1>4. ASSUME NEW s \in alive PROVE Now(s)' = Becomes(Now(s), m)
  <2>0. s \in Soldier /\ behavior'[s] = behavior[s] /\ Ended(s)' = Ended(s) /\ TypeOK'
        /\ m = SetOrders(f, m.own)
    BY <1>1, <1>2, SetOrdersTypes, OrdersParts DEF TypeOK, Ended
  <2>1. /\ Now(s) \in ViewsOf(s) /\ Now(s).order = order[s] /\ Now(s).behavior = behavior[s]
        /\ (Now(s).untaken <=> s \in untaken) /\ (Now(s).ended <=> Ended(s))
    BY <2>0, NowIsAView
  <2> DEFINE y == Becomes(Now(s), m)
  <2>2. /\ y.behavior = behavior[s] /\ (y.ended <=> Ended(s))
        /\ s \in DOMAIN f => y.order = f[s] /\ (y.untaken <=> ~m.own)
        /\ s \notin DOMAIN f => y.order = order[s] /\ (y.untaken <=> s \in untaken)
    <3>1. LET z == Becomes(Now(s), SetOrders(f, m.own)) IN
          /\ z.behavior = Now(s).behavior /\ z.ended = Now(s).ended
          /\ s \in DOMAIN f => z.order = f[s] /\ (z.untaken <=> ~m.own)
          /\ s \notin DOMAIN f => z = Now(s)
      BY <1>2, <2>1, OrderedFields
    <3> QED BY <2>0, <2>1, <3>1, Zenon
  <2> HIDE DEF y
  <2>3. order'[s] = (IF s \in DOMAIN f THEN f[s] ELSE order[s])
        /\ (s \in untaken' <=> IF s \in DOMAIN f THEN ~m.own ELSE s \in untaken)
    BY <1>2, <1>3, <2>0
  <2>4. /\ y.order = order'[s] /\ y.behavior = behavior'[s]
        /\ (y.untaken <=> s \in untaken') /\ (y.ended <=> Ended(s)')
    BY <2>0, <2>2, <2>3
  <2> QED BY <1>2, <2>0, <2>4, BecomesNext DEF y
<1>5. DeadStandStill'
  BY <1>1 DEF Orderly, DeadStandStill, Walking
<1>6. PathsHavePoints'
  <2>1. alive \subseteq Soldier
    BY DEF TypeOK
  <2> QED BY <1>1, <1>2, <1>3, <2>1 DEF Orderly, PathsHavePoints, Ended, HasPoints, IsMove
<1>7. DeadLast'
  BY <1>1, DeadStayLast DEF Walking
<1> QED BY <1>1, <1>4, <1>5, <1>6, <1>7, AppliedIsOrderly DEF m

LEMMA SetBehaviorIsOrderly ==
    ASSUME TypeOK, Orderly, ReactSetBehavior
    PROVE  Orderly'
<1> DEFINE m == Head(pending)
           b == m.behavior
<1>1. React("SetBehavior") /\ stage' = stage
      /\ UNCHANGED <<alive, leader, sideEffects, order, untaken>>
  BY DEF ReactSetBehavior
<1>2. /\ m \in Message /\ m.kind = "SetBehavior" /\ m.soldier \in Soldier /\ b \in Behavior
      /\ HasPoints(b) /\ (IsMove(b) => m.soldier \in alive)
  <2>1. m \in Message /\ m.kind = "SetBehavior" /\ Fits(m)
    BY <1>1, ReactParts, AppliedIsInOrder DEF Orderly, MessagesFit
  <2> QED BY <2>1, SetBehaviorParts DEF Fits
<1>3. behavior' = [behavior EXCEPT ![m.soldier] = b]
  BY DEF ReactSetBehavior
<1>4. \A s \in Soldier : behavior'[s] = IF s = m.soldier THEN b ELSE behavior[s]
  BY <1>3 DEF TypeOK
<1> HIDE DEF m
<1>5. ASSUME NEW s \in alive PROVE Now(s)' = Becomes(Now(s), m)
  <2>0. s \in Soldier /\ order'[s] = order[s] /\ (s \in untaken' <=> s \in untaken)
        /\ Ended(s)' = Ended(s) /\ TypeOK' /\ m = SetBehavior(m.soldier, b)
    BY <1>1, <1>2, SetBehaviorTypes, SetBehaviorParts DEF TypeOK, Ended
  <2>1. /\ Now(s) \in ViewsOf(s) /\ Now(s).order = order[s] /\ Now(s).behavior = behavior[s]
        /\ (Now(s).untaken <=> s \in untaken) /\ (Now(s).ended <=> Ended(s))
        /\ Now(s).soldier = s
    BY <2>0, NowIsAView
  <2> DEFINE y == Becomes(Now(s), m)
  <2>2. /\ y.order = order[s] /\ (y.untaken <=> s \in untaken) /\ (y.ended <=> Ended(s))
        /\ y.behavior = IF s = m.soldier THEN b ELSE behavior[s]
    <3>1. CASE s = m.soldier
      <4>1. LET z == Becomes(Now(s), SetBehavior(s, b)) IN
            /\ z.behavior = b /\ z.order = Now(s).order /\ z.untaken = Now(s).untaken
            /\ z.ended = Now(s).ended
        BY <1>2, <2>1, OwnBehavior
      <4> QED BY <2>0, <2>1, <3>1, <4>1, Zenon
    <3>2. CASE s # m.soldier
      <4>1. y = Now(s)
        BY <2>0, <2>1, <3>2, BecomesDoing
      <4> QED BY <2>1, <3>2, <4>1, Zenon
    <3> QED BY <3>1, <3>2
  <2> HIDE DEF y
  <2>4. /\ y.order = order'[s] /\ y.behavior = behavior'[s]
        /\ (y.untaken <=> s \in untaken') /\ (y.ended <=> Ended(s)')
    BY <1>4, <2>0, <2>2
  <2> QED BY <1>2, <2>0, <2>4, BecomesNext DEF y
<1>6. DeadStandStill'
  BY <1>1, <1>2, <1>4 DEF Orderly, DeadStandStill, Walking
<1>7. PathsHavePoints'
  <2>1. alive \subseteq Soldier
    BY DEF TypeOK
  <2> QED BY <1>1, <1>2, <1>4, <2>1 DEF Orderly, PathsHavePoints, Ended, HasPoints, IsMove
<1>8. DeadLast'
  BY <1>1, DeadStayLast
<1> QED BY <1>1, <1>5, <1>6, <1>7, <1>8, AppliedIsOrderly DEF m

LEMMA MakeIdleIsOrderly ==
    ASSUME TypeOK, Orderly, ReactMakeIdle
    PROVE  Orderly'
<1> DEFINE m == Head(pending)
           S == m.soldiers
<1>1. React("MakeIdle") /\ stage' = stage /\ UNCHANGED <<alive, leader, sideEffects>>
      /\ untaken' = untaken \ S
  BY DEF ReactMakeIdle
<1>2. m \in Message /\ m.kind = "MakeIdle"
  BY <1>1, ReactParts
<1>3. \A s \in Soldier : /\ order'[s] = IF s \in S THEN Be("Idle") ELSE order[s]
                         /\ behavior'[s] = IF s \in S THEN Does("Idle") ELSE behavior[s]
  BY DEF ReactMakeIdle
<1> HIDE DEF m
<1>4. ASSUME NEW s \in alive PROVE Now(s)' = Becomes(Now(s), m)
  <2>0. s \in Soldier /\ Ended(s)' = Ended(s) /\ TypeOK' /\ m = MakeIdle(S)
    BY <1>1, <1>2, MakeIdleTypes, MakeIdleParts DEF TypeOK, Ended
  <2>1. /\ Now(s) \in ViewsOf(s) /\ Now(s).order = order[s] /\ Now(s).behavior = behavior[s]
        /\ (Now(s).untaken <=> s \in untaken) /\ (Now(s).ended <=> Ended(s))
    BY <2>0, NowIsAView
  <2> DEFINE y == Becomes(Now(s), m)
  <2>2. /\ (y.ended <=> Ended(s))
        /\ s \in S => y.order = Be("Idle") /\ y.behavior = Does("Idle") /\ ~y.untaken
        /\ s \notin S => /\ y.order = order[s] /\ y.behavior = behavior[s]
                         /\ (y.untaken <=> s \in untaken)
    <3>1. LET z == Becomes(Now(s), MakeIdle(S)) IN
          /\ z.ended = Now(s).ended
          /\ s \in S => z.order = Be("Idle") /\ z.behavior = Does("Idle") /\ z.untaken = FALSE
          /\ s \notin S => z = Now(s)
      BY <2>1, IdleFields
    <3> QED BY <2>0, <2>1, <3>1, Zenon
  <2> HIDE DEF y
  <2>4. /\ y.order = order'[s] /\ y.behavior = behavior'[s]
        /\ (y.untaken <=> s \in untaken') /\ (y.ended <=> Ended(s)')
    BY <1>1, <1>3, <2>0, <2>2
  <2> QED BY <1>2, <2>0, <2>4, BecomesNext DEF y
<1>0. ~IsMove(Does("Idle")) /\ HasPoints(Does("Idle")) /\ HasPoints(Be("Idle"))
  BY Stills DEF Still
<1>5. \A s \in Soldier : Walking(s)' => Walking(s)
  BY <1>0, <1>3 DEF Walking
<1>6. DeadStandStill'
  BY <1>1, <1>5 DEF Orderly, DeadStandStill
<1>7. PathsHavePoints'
  <2>1. alive \subseteq Soldier
    BY DEF TypeOK
  <2> QED BY <1>0, <1>1, <1>3, <2>1 DEF Orderly, PathsHavePoints, Ended, HasPoints, IsMove
<1>8. DeadLast'
  BY <1>1, <1>5, DeadStayLast
<1> QED BY <1>1, <1>4, <1>6, <1>7, <1>8, AppliedIsOrderly DEF m

LEMMA ReachStepIsOrderly ==
    ASSUME TypeOK, Orderly, ReactReachStep
    PROVE  Orderly'
<1> DEFINE m == Head(pending)
           r == m.soldier
           o == order[r]
           b == behavior[r]
           ends == OrderEnds(o) \/ (IsMove(b) /\ b.left <= 1)
<1>1. React("ReachBehaviorStep") /\ UNCHANGED <<alive, leader, untaken>>
  BY DEF ReactReachStep
<1>2. /\ m \in Message /\ m.kind = "ReachBehaviorStep" /\ m = ReachStep(r)
      /\ r \in Soldier /\ r \in alive /\ ~Ended(r) /\ pending[1] = m /\ 1 \in DOMAIN pending
  <2>1. m \in Message /\ m.kind = "ReachBehaviorStep" /\ Fits(m) /\ pending[1] = m
        /\ 1 \in DOMAIN pending
    BY <1>1, ReactParts, AppliedIsInOrder DEF Orderly, MessagesFit
  <2> QED BY <2>1, ReachStepParts DEF Fits
<1>3. o \in Order /\ b \in Behavior /\ HasPoints(o) /\ HasPoints(b)
      /\ o.left \in Nat /\ b.left \in Nat
  <2>1. HasPoints(o) /\ HasPoints(b)
    BY <1>2 DEF Orderly, PathsHavePoints
  <2>2. o \in Order /\ b \in Behavior
    BY <1>2 DEF TypeOK
  <2> QED BY <2>1, <2>2, OrderParts, BehaviorParts, NumbersFit
<1>4. /\ order' = IF IsMove(o) THEN [order EXCEPT ![r] = Step(o)] ELSE order
      /\ behavior' = IF OrderEnds(o) \/ ~IsMove(b) THEN behavior
                     ELSE [behavior EXCEPT ![r] = Step(b)]
      /\ sideEffects' = IF ends THEN Append(sideEffects, [soldier |-> r, then |-> o.then])
                        ELSE sideEffects
      /\ stage' = IF ~OrderEnds(o) /\ b = [kind |-> "Move", left |-> 0]
                  THEN "panicked" ELSE stage
  BY DEF ReactReachStep
<1>5. stage' = stage
  <2>1. b # [kind |-> "Move", left |-> 0]
    BY <1>3 DEF HasPoints, IsMove
  <2> QED BY <1>4, <2>1
<1> HIDE DEF m, r
<1>6. /\ order'[r] = IF IsMove(o) THEN Step(o) ELSE o
      /\ behavior'[r] = IF OrderEnds(o) \/ ~IsMove(b) THEN b ELSE Step(b)
      /\ \A s \in Soldier : s # r => order'[s] = order[s] /\ behavior'[s] = behavior[s]
  <2>1. order \in [Soldier -> Order] /\ behavior \in [Soldier -> Behavior]
    BY DEF TypeOK
  <2> QED BY <1>2, <1>4, <2>1
<1>7. \A s : Ended(s)' <=> Ended(s) \/ (s = r /\ ends)
  <2>1. CASE ends
    <3> DEFINE e == [soldier |-> r, then |-> o.then]
    <3>1. sideEffects' = Append(sideEffects, e) /\ e.soldier = r
      BY <1>4, <2>1
    <3> HIDE DEF e
    <3>2. sideEffects \in Seq([soldier : Soldier, then : Thens])
      BY DEF TypeOK
    <3>3. /\ \A i \in DOMAIN sideEffects' : \/ i \in DOMAIN sideEffects /\ sideEffects'[i] = sideEffects[i]
                                            \/ sideEffects'[i] = e
          /\ \A i \in DOMAIN sideEffects : i \in DOMAIN sideEffects' /\ sideEffects'[i] = sideEffects[i]
          /\ \E i \in DOMAIN sideEffects' : sideEffects'[i] = e
      <4>1. Len(sideEffects) + 1 \in DOMAIN sideEffects' /\ sideEffects'[Len(sideEffects) + 1] = e
        BY <3>1, <3>2
      <4> QED BY <3>1, <3>2, <4>1
    <3> QED BY <2>1, <3>1, <3>3 DEF Ended
  <2>2. CASE ~ends
    BY <1>4, <2>2 DEF Ended
  <2> QED BY <2>1, <2>2
<1>8. ASSUME NEW s \in alive PROVE Now(s)' = Becomes(Now(s), m)
  <2>0. s \in Soldier /\ (s \in untaken' <=> s \in untaken) /\ TypeOK'
    BY <1>1, ReachStepTypes DEF TypeOK
  <2>1. /\ Now(s) \in ViewsOf(s) /\ Now(s).order = order[s] /\ Now(s).behavior = behavior[s]
        /\ (Now(s).untaken <=> s \in untaken) /\ (Now(s).ended <=> Ended(s))
        /\ Now(s).soldier = s
    BY <2>0, NowIsAView
  <2> DEFINE y == Becomes(Now(s), m)
  <2>2. /\ y.order = order'[s] /\ y.behavior = behavior'[s]
        /\ (y.untaken <=> s \in untaken') /\ (y.ended <=> Ended(s)')
    <3>1. CASE s = r
      <4> DEFINE x == Now(s)
                 z == Reached(x)
      <4> HIDE DEF x
      <4>0. x \in ViewsOf(s) /\ m = ReachStep(s)
        BY <1>2, <2>1, <3>1 DEF x
      <4>5. /\ Becomes(x, ReachStep(s)) = z
            /\ z.order = IF IsMove(x.order) THEN Step(x.order) ELSE x.order
            /\ z.behavior = IF OrderEnds(x.order) \/ ~IsMove(x.behavior)
                            THEN x.behavior ELSE Step(x.behavior)
            /\ z.untaken = x.untaken
            /\ z.ended <=> \/ x.ended \/ OrderEnds(x.order)
                           \/ IsMove(x.behavior) /\ x.behavior.left <= 1
        BY <4>0, Reaching, Zenon
      <4>6. y = z
        BY <4>0, <4>5 DEF x
      <4>1. /\ y = z /\ z.untaken = Now(s).untaken
            /\ z.order = IF IsMove(order[s]) THEN Step(order[s]) ELSE order[s]
            /\ z.behavior = IF OrderEnds(order[s]) \/ ~IsMove(behavior[s])
                            THEN behavior[s] ELSE Step(behavior[s])
            /\ z.ended <=> \/ Now(s).ended \/ OrderEnds(order[s])
                           \/ IsMove(behavior[s]) /\ behavior[s].left <= 1
        BY <2>1, <4>5, <4>6, Zenon DEF x
      <4> HIDE DEF y, z
      <4>2. z.order = order'[s] /\ z.behavior = behavior'[s]
        BY <1>6, <2>1, <3>1, <4>1
      <4>3. z.ended <=> Ended(s)'
        BY <1>7, <2>1, <3>1, <4>1
      <4>4. z.untaken <=> s \in untaken'
        BY <2>0, <2>1, <4>1, Zenon
      <4> QED BY <4>1, <4>2, <4>3, <4>4, Zenon
    <3>2. CASE s # r
      <4>1. y = Now(s)
        BY <1>2, <2>1, <3>2, RemainsAtStep
      <4> HIDE DEF y
      <4>2. order'[s] = order[s] /\ behavior'[s] = behavior[s] /\ (Ended(s)' <=> Ended(s))
        BY <1>6, <1>7, <2>0, <3>2
      <4> QED BY <2>0, <2>1, <4>1, <4>2, Zenon
    <3> QED BY <3>1, <3>2
  <2> HIDE DEF y
  <2> QED BY <1>2, <2>0, <2>2, BecomesNext DEF y
<1>9. WillAgree'
  BY <1>1, <1>8, AgreeWhenApplied DEF Orderly, React, m
<1>10. \A s \in Soldier : Walking(s)' => Walking(s)
  <2>1. IsMove(behavior'[r]) => IsMove(b)
    BY <1>3, <1>6
  <2> QED BY <1>6, <2>1 DEF Walking
<1>11. DeadStandStill'
  BY <1>1, <1>10 DEF Orderly, DeadStandStill
<1>12. PathsHavePoints'
  <2> SUFFICES ASSUME NEW s \in alive, ~Ended(s)'
               PROVE  HasPoints(order'[s]) /\ HasPoints(behavior'[s])
    BY <1>1 DEF PathsHavePoints, HasPoints, IsMove
  <2>1. s \in Soldier /\ ~Ended(s) /\ ~(s = r /\ ends)
    BY <1>7 DEF TypeOK
  <2>2. CASE s # r
    BY <1>6, <2>1, <2>2 DEF Orderly, PathsHavePoints
  <2>3. CASE s = r
    <3>1. ~OrderEnds(o) /\ ~(IsMove(b) /\ b.left <= 1)
      BY <2>1, <2>3
    <3>2. IsMove(o) => Step(o).left = o.left - 1 /\ o.left > 1
      BY <1>3, <3>1, StepFits DEF OrderEnds, HasPoints
    <3>3. IsMove(b) => Step(b).left = b.left - 1 /\ b.left > 1
      BY <1>3, <3>1, StepFits DEF HasPoints
    <3>4. HasPoints(order'[s])
      BY <1>3, <1>6, <2>3, <3>2 DEF HasPoints
    <3>5. HasPoints(behavior'[s])
      BY <1>3, <1>6, <2>3, <3>3 DEF HasPoints
    <3> QED BY <3>4, <3>5
  <2> QED BY <2>2, <2>3
<1>13. MessagesFit'
  <2> SUFFICES ASSUME NEW i \in DOMAIN pending' PROVE Fits(pending[i])'
    BY DEF MessagesFit
  <2>1. i + 1 \in DOMAIN pending /\ pending'[i] = pending[i + 1] /\ i \in Nat \ {0}
    BY <1>1, AppliedIsInOrder
  <2>2. pending[i + 1] # pending[1]
    BY <1>2, <2>1 DEF Orderly, OneStepEach
  <2>3. PICK n \in Message : n = pending'[i] /\ Fits(n) /\ n # m
    <3>1. pending[i + 1] \in Message
      BY <2>1, ElementOfSeq DEF TypeOK
    <3> QED BY <1>2, <2>1, <2>2, <3>1 DEF Orderly, MessagesFit
  <2>4. n.kind = "ReachBehaviorStep" => n.soldier # r
    BY <1>2, <2>3, ReachStepParts
  <2> QED BY <1>1, <1>7, <2>3, <2>4 DEF Fits, Leads
<1>14. DeadLast'
  BY <1>1, <1>10, DeadStayLast
<1>15. InTurn' /\ OneStepEach' /\ stage' # "panicked"
  BY <1>1, <1>5, AppliedIsInOrder DEF Orderly
<1> QED BY <1>9, <1>11, <1>12, <1>13, <1>14, <1>15 DEF Orderly

LEMMA SetAliveIsOrderly ==
    ASSUME TypeOK, Orderly, ReactSetAlive
    PROVE  Orderly'
<1> DEFINE m == Head(pending)
           d == m.soldier
<1>1. React("SetAlive") /\ alive' = alive \ {d} /\ stage' = stage
      /\ UNCHANGED <<leader, order, behavior, sideEffects, untaken>>
  BY DEF ReactSetAlive
<1>2. m \in Message /\ m = Die(d) /\ d \in Soldier /\ pending[1] = m /\ 1 \in DOMAIN pending
      /\ pending[1].kind = "SetAlive"
  BY <1>1, ReactParts, AppliedIsInOrder, DieParts
<1>3. /\ ~Walking(d)
      /\ \A i \in DOMAIN pending : i > 1 => Halts(pending[i])
  BY <1>2 DEF Orderly, DeadLast
<1>4. \A s \in Soldier : Walking(s)' <=> Walking(s)
  BY <1>1 DEF Walking
<1>5. DeadStandStill'
  BY <1>1, <1>3, <1>4 DEF Orderly, DeadStandStill
<1>6. PathsHavePoints'
  BY <1>1 DEF Orderly, PathsHavePoints, Ended, HasPoints, IsMove
<1>7. WillAgree'
  <2>1. ASSUME NEW s \in alive' PROVE Now(s)' = Becomes(Now(s), m)
    <3>1. Now(s)' = Now(s)
      BY <1>1 DEF Now, Ended
    <3> QED BY <1>2, <3>1, RemainsAtDeath
  <2> QED BY <1>1, <2>1, AgreeWhenApplied DEF Orderly, React
<1>8. MessagesFit'
  <2> SUFFICES ASSUME NEW i \in DOMAIN pending' PROVE Fits(pending[i])'
    BY DEF MessagesFit
  <2>1. i + 1 \in DOMAIN pending /\ pending'[i] = pending[i + 1] /\ i + 1 > 1
    BY <1>1, AppliedIsInOrder
  <2>2. \E x : pending'[i] = x /\ Halts(x) /\ Fits(x)
    BY <1>3, <2>1 DEF Orderly, MessagesFit
  <2> QED BY <2>2 DEF Fits, Halts
<1>9. DeadLast'
  BY <1>1, <1>4, DeadStayLast
<1>10. InTurn' /\ OneStepEach' /\ stage' # "panicked"
  BY <1>1, AppliedIsInOrder DEF Orderly
<1> QED BY <1>5, <1>6, <1>7, <1>8, <1>9, <1>10 DEF Orderly

LEMMA SetUnconsciousIsOrderly ==
    ASSUME TypeOK, Orderly, ReactSetUnconscious
    PROVE  Orderly'
<1> DEFINE m == Head(pending)
<1>1. React("SetUnconscious") /\ stage' = stage
      /\ UNCHANGED <<alive, leader, order, behavior, sideEffects, untaken>>
  BY DEF ReactSetUnconscious
<1>2. m = Faint(m.soldier)
  BY <1>1, ReactParts, AppliedIsInOrder, FaintParts
<1> HIDE DEF m
<1>3. ASSUME NEW s \in alive PROVE Now(s)' = Becomes(Now(s), m)
  <2>1. Now(s)' = Now(s)
    BY <1>1 DEF Now, Ended
  <2> QED BY <1>2, <2>1, RemainsAtFaint
<1>4. DeadStandStill'
  BY <1>1 DEF Orderly, DeadStandStill, Walking
<1>5. PathsHavePoints'
  BY <1>1 DEF Orderly, PathsHavePoints, Ended, HasPoints, IsMove
<1>6. DeadLast'
  BY <1>1, DeadStayLast DEF Walking
<1> QED BY <1>1, <1>3, <1>4, <1>5, <1>6, AppliedIsOrderly DEF m

(* Until a squad is merged every elected leader has a squad to lead.       *)
LEMMA ElectionMerges ==
    ASSUME TypeOK, Orderly, ReactSetSquadLeader
    PROVE  merged'
<1>1. React("SetSquadLeader")
  BY DEF ReactSetSquadLeader
<1>2. Head(pending).kind = "SetSquadLeader" /\ Fits(Head(pending))
  BY <1>1, AppliedIsInOrder, ReactParts DEF Orderly, MessagesFit
<1>3. Leads(Head(pending).squad)
  BY <1>2 DEF Fits
<1> QED BY <1>3 DEF ReactSetSquadLeader

-----------------------------------------------------------------------------
(* At the end of a tick, who came to an end of its walk goes on with what  *)
(* its order says comes next.                                              *)

LEMMA FinishIsOrderly ==
    ASSUME TypeOK, StagesAreDone, Orderly, FinishBehavior
    PROVE  Orderly'
<1> DEFINE e == Head(sideEffects)
           s == e.soldier
           next == After(e.then)
<1>1. /\ stage = "sideEffects" /\ stage' = stage /\ sideEffects # <<>>
      /\ sideEffects' = Tail(sideEffects) /\ UNCHANGED <<alive, leader, pending>>
  BY DEF FinishBehavior
<1>2. /\ s \in alive => /\ order' = [order EXCEPT ![s] = next]
                        /\ behavior' = [behavior EXCEPT ![s] = FromOrder(next)]
                        /\ untaken' = untaken \ {s}
      /\ s \notin alive => order' = order /\ behavior' = behavior /\ untaken' = untaken
  BY DEF FinishBehavior
<1>3. pending = <<>> /\ pending' = <<>>
  BY <1>1 DEF StagesAreDone
<1>4. /\ s \in Soldier /\ next \in Order /\ HasPoints(next) /\ HasPoints(FromOrder(next))
      /\ Agree(next, FromOrder(next)) /\ e.then \in Thens
  <2>1. e \in [soldier : Soldier, then : Thens]
    <3> DEFINE R == [soldier : Soldier, then : Thens]
    <3>1. sideEffects \in Seq(R)
      BY DEF TypeOK
    <3> HIDE DEF R
    <3>2. Head(sideEffects) \in R
      BY <1>1, <3>1
    <3> QED BY <3>2 DEF R
  <2> HIDE DEF e
  <2>2. s \in Soldier /\ e.then \in Thens
    BY <2>1
  <2>3. next \in Order /\ HasPoints(next) /\ HasPoints(FromOrder(next))
    BY <2>2, AfterFits
  <2> HIDE DEF next
  <2>4. Agree(next, FromOrder(next))
    BY <2>3, MadeFromItsOrder
  <2> QED BY <2>2, <2>3, <2>4
<1>5. \A x : x # s => (Ended(x)' <=> Ended(x))
  <2> DEFINE R == [soldier : Soldier, then : Thens]
  <2> SUFFICES ASSUME NEW x, x # s PROVE Ended(x)' <=> Ended(x)
    OBVIOUS
  <2>1. /\ sideEffects \in Seq(R) /\ e = sideEffects[1] /\ 1 \in DOMAIN sideEffects
        /\ \A i \in DOMAIN sideEffects' : /\ i + 1 \in DOMAIN sideEffects
                                          /\ sideEffects'[i] = sideEffects[i + 1]
        /\ \A i \in DOMAIN sideEffects : i # 1 => /\ i - 1 \in DOMAIN sideEffects'
                                                  /\ sideEffects'[i - 1] = sideEffects[i]
    BY <1>1 DEF TypeOK
  <2> HIDE DEF e, R
  <2>2. ASSUME NEW i \in DOMAIN sideEffects', sideEffects'[i].soldier = x
        PROVE  Ended(x)
    BY <2>1, <2>2 DEF Ended
  <2>3. ASSUME NEW i \in DOMAIN sideEffects, sideEffects[i].soldier = x
        PROVE  \E j \in DOMAIN sideEffects' : sideEffects'[j].soldier = x
    BY <2>1, <2>3
  <2> QED BY <2>2, <2>3 DEF Ended
<1> HIDE DEF e, next
<1>6. \A x \in alive : x # s => /\ order'[x] = order[x] /\ behavior'[x] = behavior[x]
                                /\ (x \in untaken' <=> x \in untaken)
  <2> SUFFICES ASSUME NEW x \in alive, x # s
               PROVE  /\ order'[x] = order[x] /\ behavior'[x] = behavior[x]
                      /\ (x \in untaken' <=> x \in untaken)
    OBVIOUS
  <2>1. /\ order \in [Soldier -> Order] /\ behavior \in [Soldier -> Behavior]
        /\ alive \subseteq Soldier
    BY DEF TypeOK
  <2>2. CASE s \in alive
    BY <1>2, <2>1, <2>2
  <2>3. CASE s \notin alive
    BY <1>2, <2>3
  <2> QED BY <2>2, <2>3
<1>7. s \in alive => order'[s] = next /\ behavior'[s] = FromOrder(next)
  <2>1. order \in [Soldier -> Order] /\ behavior \in [Soldier -> Behavior]
    BY DEF TypeOK
  <2> QED BY <1>2, <1>4, <2>1
<1>8. TypeOK'
  BY FinishTypes
<1>9. WillAgree'
  <2> SUFFICES ASSUME NEW x \in alive PROVE Settled(Now(x)')
    BY <1>1, <1>3, AgreeAtOnce DEF Settled
  <2>0. x \in Soldier
    BY DEF TypeOK
  <2> DEFINE n == Now(x)
             v == Now(x)'
  <2>1. /\ v.order = order'[x] /\ v.behavior = behavior'[x]
        /\ (v.untaken <=> x \in untaken') /\ (v.ended <=> Ended(x)')
    BY <1>8, <2>0, NowNext
  <2>2. /\ n.order = order[x] /\ n.behavior = behavior[x]
        /\ (n.untaken <=> x \in untaken) /\ (n.ended <=> Ended(x))
    BY <2>0, NowIsAView
  <2>3. Settled(n)
    <3>1. Settled(Foreseen(x))
      BY DEF Orderly, WillAgree
    <3>2. Foreseen(x) = n
      BY <1>3, AppliedNone DEF Foreseen
    <3> QED BY <3>1, <3>2
  <2> HIDE DEF n, v
  <2>4. CASE x = s
    <3>1. Agree(v.order, v.behavior)
      BY <1>4, <1>7, <2>1, <2>4
    <3> QED BY <3>1 DEF Settled, v
  <2>5. CASE x # s
    <3>1. v.order = n.order /\ v.behavior = n.behavior /\ (v.untaken <=> n.untaken)
          /\ (v.ended <=> n.ended)
      <4>1. order'[x] = order[x] /\ behavior'[x] = behavior[x]
            /\ (x \in untaken' <=> x \in untaken) /\ (Ended(x)' <=> Ended(x))
        BY <1>5, <1>6, <2>5
      <4> QED BY <2>1, <2>2, <4>1, Zenon
    <3>2. Settled(v)
      BY <2>3, <3>1, Zenon DEF Settled
    <3> QED BY <3>2 DEF v
  <2> QED BY <2>4, <2>5
<1>10. DeadStandStill'
  <2>1. ASSUME NEW x \in Soldier, IsMove(behavior'[x]) PROVE x \in alive
    <3>1. CASE x = s /\ s \in alive
      BY <3>1
    <3>2. CASE ~(x = s /\ s \in alive)
      <4>1. behavior'[x] = behavior[x]
        BY <1>2, <3>2 DEF TypeOK
      <4> QED BY <2>1, <4>1 DEF Orderly, DeadStandStill, Walking
    <3> QED BY <3>1, <3>2
  <2> QED BY <1>1, <2>1 DEF DeadStandStill, Walking
<1>11. PathsHavePoints'
  <2>1. ASSUME NEW x \in alive PROVE Ended(x)' \/ (HasPoints(order'[x]) /\ HasPoints(behavior'[x]))
    <3>1. CASE x = s
      BY <1>4, <1>7, <3>1
    <3>2. CASE x # s
      BY <1>5, <1>6, <3>2 DEF Orderly, PathsHavePoints
    <3> QED BY <3>1, <3>2
  <2> QED BY <1>1, <2>1 DEF PathsHavePoints, HasPoints, IsMove
<1>12. InTurn' /\ OneStepEach' /\ DeadLast' /\ MessagesFit'
  BY <1>3, NothingLeftIsInTime
<1>13. stage' # "panicked"
  BY <1>1
<1> QED BY <1>9, <1>10, <1>11, <1>12, <1>13 DEF Orderly

LEMMA UnchangedIsOrderly ==
    ASSUME TypeOK, Orderly, UNCHANGED vars
    PROVE  Orderly'
<1>1. /\ UNCHANGED <<alive, leader, order, behavior, pending, sideEffects, untaken>>
      /\ stage' = stage /\ turn' = turn
  BY DEF vars, soldierVars, tickVars
<1>2. WillAgree' /\ OneStepEach' /\ DeadLast' /\ DeadStandStill' /\ PathsHavePoints' /\ MessagesFit'
  BY <1>1, NothingHappens DEF Orderly
<1>3. InTurn'
  BY <1>1 DEF Orderly, InTurn, Timely, TouchedBy, Engaged
<1> QED BY <1>1, <1>2, <1>3 DEF Orderly

(* Once a squad has been merged, it has.                                   *)
LEMMA MergedStays ==
    ASSUME TypeOK, [Next]_vars, merged
    PROVE  merged'
<1>1. CASE UNCHANGED vars
  BY <1>1 DEF vars
<1>2. CASE Next
  <2>1. CASE Input
    BY <2>1 DEF Input, Begin, ReceiveControl, ReceiveOrder, ChatOrder
  <2>2. CASE SoldiersTurn
    BY <2>2 DEF SoldiersTurn, Animate, NotAnimated, Update, EndOfPath, PointReached,
                ReturnToMap, NoStep, Updated, NoPointInPath
  <2>3. CASE \E s \in Soldier : LateSending(s)
    BY <2>3 DEF LateSending, CallSupport, LoseSight, Killed, Blasted, Produce
  <2>4. CASE \E q, s \in Soldier : Elect(q, s)
    BY <2>4 DEF Elect, Produce
  <2>5. CASE \/ \E animate \in BOOLEAN : StartTick(animate) \/ FlagTaken(animate)
             \/ LeadersDone \/ HitsDone \/ AllApplied \/ TickEnds \/ Stopped
    BY <2>5 DEF StartTick, FlagTaken, LeadersDone, HitsDone, AllApplied, TickEnds, Stopped, vars
  <2>6. CASE Reaction
    <3>1. CASE ReactSetSquadLeader
      BY <3>1 DEF ReactSetSquadLeader
    <3> QED BY <2>6, <3>1 DEF Reaction, ReactSetOrders, ReactSetBehavior, ReactMakeIdle,
                              ReactSetAlive, ReactSetUnconscious, ReactReachStep,
                              FinishBehavior
  <2> QED BY <1>2, <2>1, <2>2, <2>3, <2>4, <2>5, <2>6, Zenon DEF Next, Ticking, LateSending
<1> QED BY <1>1, <1>2

LEMMA OrderStep == OrderInv /\ [Next]_vars => OrderInv'
<1> SUFFICES ASSUME OrderInv, [Next]_vars PROVE OrderInv'
  OBVIOUS
<1>1. TypeOK /\ StagesAreDone /\ TypeOK' /\ StagesAreDone'
  BY TypeStep, StagesStep DEF OrderInv
<1>2. ASSUME ~merged' PROVE Orderly'
  <2>1. Orderly
    BY <1>1, <1>2, MergedStays DEF OrderInv
  <2>2. CASE UNCHANGED vars \/ Stopped
    BY <1>1, <2>1, <2>2, UnchangedIsOrderly DEF Stopped
  <2>3. CASE Input
    BY <1>1, <2>1, <2>3, InputIsOrderly
  <2>4. CASE SoldiersTurn
    <3>1. PICK s \in Soldier : Animate(s) \/ NotAnimated(s) \/ Update(s) \/ NoPointInPath(s)
      BY <2>4 DEF SoldiersTurn
    <3>2. CASE Animate(s)
      BY <1>1, <2>1, <3>2, AnimateIsOrderly
    <3>3. CASE NotAnimated(s)
      BY <1>1, <2>1, <3>3, StagesAreOrderly
    <3>4. CASE Update(s)
      BY <1>1, <2>1, <3>4, UpdateIsOrderly
    <3>5. CASE NoPointInPath(s)
      BY <1>1, <2>1, <3>5, NobodyLacksAPoint
    <3> QED BY <3>1, <3>2, <3>3, <3>4, <3>5
  <2>5. CASE \E q, s \in Soldier : Elect(q, s)
    BY <1>1, <2>1, <2>5, ElectIsOrderly
  <2>6. CASE \E s \in Soldier : LateSending(s)
    BY <1>1, <2>1, <2>6, CallSupportIsOrderly, LoseSightIsOrderly, HitsAreOrderly DEF LateSending
  <2>7. CASE \/ \E animate \in BOOLEAN : StartTick(animate)
             \/ LeadersDone \/ HitsDone \/ AllApplied \/ TickEnds
    BY <1>1, <2>1, <2>7, StagesAreOrderly
  <2>8. CASE \E animate \in BOOLEAN : FlagTaken(animate)
    BY <1>1, <2>1, <2>8, FlagTakenIsOrderly
  <2>9. CASE Reaction
    <3>1. ~ReactSetSquadLeader
      BY <1>1, <1>2, <2>1, ElectionMerges
    <3> QED BY <1>1, <2>1, <2>9, <3>1, SetOrdersIsOrderly, SetBehaviorIsOrderly,
               MakeIdleIsOrderly, SetAliveIsOrderly, SetUnconsciousIsOrderly,
               ReachStepIsOrderly, FinishIsOrderly
            DEF Reaction
  <2> QED BY <2>2, <2>3, <2>4, <2>5, <2>6, <2>7, <2>8, <2>9, Zenon
          DEF Next, Ticking, LateSending
<1> QED BY <1>1, <1>2 DEF OrderInv

LEMMA OrderInit == Init => OrderInv
<1> SUFFICES ASSUME Init PROVE OrderInv
  OBVIOUS
<1>0. /\ battle = FALSE /\ alive = Soldier /\ stunned = {} /\ leader = StartLeader
      /\ order = [s \in Soldier |-> Be("Idle")] /\ behavior = [s \in Soldier |-> Does("Idle")]
      /\ controlled = {} /\ inbound = {} /\ pending = <<>> /\ sideEffects = <<>>
      /\ stage = "inputs" /\ turn = 1 /\ events = [k \in Kinds |-> 0] /\ untaken = {}
      /\ merged = FALSE
  BY DEF Init
<1>1. Be("Idle") \in Order /\ Does("Idle") \in Behavior
      /\ ~IsMove(Be("Idle")) /\ ~IsMove(Does("Idle"))
      /\ HasPoints(Be("Idle")) /\ HasPoints(Does("Idle"))
  BY Stills DEF Still
<1>2. TypeOK
  <2>1. /\ order \in [Soldier -> Order] /\ behavior \in [Soldier -> Behavior]
        /\ leader \in [Soldier -> Soldier]
    BY <1>0, <1>1, SoldierAssumption
  <2>2. pending \in Seq(Message) /\ sideEffects \in Seq([soldier : Soldier, then : Thens])
    BY <1>0
  <2>3. turn \in Soldier
    BY <1>0, NumbersFit
  <2>4. events \in [Kinds -> Nat] /\ \A k \in Kinds : events[k] <= Limit[k]
    BY <1>0, NumbersFit
  <2> QED BY <1>0, <2>1, <2>2, <2>3, <2>4 DEF TypeOK
<1>3. \A s \in Soldier : ~IsMove(behavior[s]) /\ HasPoints(behavior[s]) /\ HasPoints(order[s])
  BY <1>0, <1>1
<1>4. WillAgree
  <2> SUFFICES ASSUME NEW s \in Soldier PROVE Settled(Foreseen(s))
    BY <1>0 DEF WillAgree
  <2> DEFINE n == Now(s)
  <2>1. Foreseen(s) = n
    BY <1>0, AppliedNone DEF Foreseen
  <2>2. n.behavior = behavior[s]
    BY <1>2, NowIsAView
  <2> HIDE DEF n
  <2>3. Settled(n)
    BY <1>3, <2>2 DEF Settled, Agree
  <2> QED BY <2>1, <2>3
<1>5. InTurn /\ OneStepEach /\ DeadLast /\ MessagesFit
  BY <1>0 DEF InTurn, OneStepEach, DeadLast, MessagesFit
<1>6. DeadStandStill /\ PathsHavePoints
  BY <1>0, <1>3 DEF DeadStandStill, PathsHavePoints, Walking
<1> QED BY <1>0, <1>2, <1>4, <1>5, <1>6 DEF OrderInv, StagesAreDone, Orderly

-----------------------------------------------------------------------------
(* The invariant: the types and, as long as no squad has been merged, that *)
(* every living soldier, looked at as the messages under way will leave    *)
(* it, walks what it was told, has an order it has not looked at, or is at *)
(* the end of its walk; and that these messages come in their order.       *)
THEOREM OrderInvariant == Spec => []OrderInv
  BY OrderInit, OrderStep, PTL DEF Spec

(* Every state has the types of the program, whatever is in the queue of   *)
(* messages, and counts no more events than the bounds allow.              *)
THEOREM TypesKept == Spec => []TypeOK
<1>1. OrderInv => TypeOK
  BY DEF OrderInv
<1> QED BY <1>1, OrderInvariant, PTL

(* Neither expect() of movement_updates and of reach_step fails unless a   *)
(* squad was merged: orders and behaviors lose their points by separate    *)
(* messages, and yet nobody walks a path that has none left.               *)
THEOREM PanicsOnlyAfterMerges == Spec => []OnlyMergesPanic
<1>1. OrderInv => OnlyMergesPanic
  BY DEF OrderInv, Orderly, OnlyMergesPanic
<1> QED BY <1>1, OrderInvariant, PTL

(* Between two ticks, and before the first merge, a living soldier walks   *)
(* its order point for point unless it has not looked at it yet.           *)
THEOREM WalksAsOrdered == Spec => []WalksItsOrder
<1>1. ASSUME OrderInv PROVE WalksItsOrder
  <2> SUFFICES ASSUME stage = "inputs", ~merged, NEW s \in alive \ untaken, Walking(s)
               PROVE  IsMove(order[s]) /\ order[s].left = behavior[s].left
    BY DEF WalksItsOrder
  <2>1. pending = <<>> /\ sideEffects = <<>> /\ s \in Soldier
    BY <1>1 DEF OrderInv, StagesAreDone, TypeOK
  <2> DEFINE n == Now(s)
  <2>2. /\ n.order = order[s] /\ n.behavior = behavior[s]
        /\ (n.untaken <=> s \in untaken) /\ (n.ended <=> Ended(s))
    BY <1>1, <2>1, NowIsAView DEF OrderInv
  <2>3. Foreseen(s) = n
    BY <2>1, AppliedNone DEF Foreseen
  <2>4. Settled(n)
    BY <1>1, <2>3 DEF OrderInv, Orderly, WillAgree
  <2>5. ~Ended(s)
    BY <2>1 DEF Ended
  <2> HIDE DEF n
  <2>6. ~n.untaken /\ ~n.ended
    BY <2>2, <2>5, Zenon
  <2>7. Agree(n.order, n.behavior)
    BY <2>4, <2>6, Zenon DEF Settled
  <2> QED BY <2>2, <2>7 DEF Agree, Walking
<1> QED BY <1>1, OrderInvariant, PTL
=============================================================================
