----------------------------- MODULE CombatProofs -----------------------------
(***************************************************************************)
(* For any magazines, bursts and supplies: the rounds and the grenades of  *)
(* a soldier add up, and it fires with nothing to fire only after a        *)
(* reloading that left its weapon so.                                      *)
(*                                                                         *)
(* A tick folds React over the messages of up to three handlers.  The      *)
(* first section takes such a fold apart into steps, and a fold over a     *)
(* concatenation into the folds over its parts; the second types the       *)
(* messages each handler sends; the others follow the weapon and the       *)
(* grenades through them.                                                  *)
(***************************************************************************)
EXTENDS Combat, SequenceTheorems, WellFoundedInduction, TLAPS

-----------------------------------------------------------------------------
(* Messages one after the other.                                           *)

(* The function FoldLeft computes, over the sets of places it goes down.   *)
IsFold(g, m, s, P) ==
    g = [p \in SUBSET P |-> IF p = {} THEN m ELSE React(g[p \ {Max(p)}], s[Max(p)])]

LEMMA MaxOfPlaces ==
    ASSUME NEW k \in Nat, NEW p, p \subseteq 1..k, k \in p
    PROVE  Max(p) = k
<1>1. \A x \in p : x \in Nat /\ k >= x
  OBVIOUS
<1>2. \E x \in p : \A y \in p : x >= y
  BY <1>1
<1>3. PICK z \in p : z = Max(p) /\ \A y \in p : z >= y
  BY <1>2 DEF Max
<1>4. z \in Nat /\ k >= z /\ z >= k
  BY <1>1, <1>3
<1> QED BY <1>3, <1>4

LEMMA FoldExists ==
    ASSUME NEW m, NEW s, NEW n \in Nat
    PROVE  \E g : IsFold(g, m, s, 1..n)
<1> DEFINE T == {k \in Nat : ~ \E g : IsFold(g, m, s, 1..k)}
<1> SUFFICES ASSUME T # {} PROVE FALSE
  OBVIOUS
<1>1. PICK k \in T : \A j \in T : ~ (<<j, k>> \in OpToRel(<, Nat))
  BY NatLessThanWellFounded, WFMin
<1>2. k # 0
  <2>1. SUBSET (1..0) = {{}}
    OBVIOUS
  <2>2. IsFold([p \in SUBSET (1..0) |-> m], m, s, 1..0)
    <3> DEFINE f == [p \in SUBSET (1..0) |-> m]
               f2 == [p \in SUBSET (1..0) |->
                       IF p = {} THEN m ELSE React(f[p \ {Max(p)}], s[Max(p)])]
    <3>1. f = f2
      BY <2>1
    <3> HIDE DEF f
    <3> QED BY <3>1 DEF IsFold
  <2> QED BY <1>1, <2>2
<1>3. k \in Nat \ {0}
  <2>1. T \subseteq Nat
    OBVIOUS
  <2> HIDE DEF T
  <2> QED BY <1>1, <1>2, <2>1
<1>4. PICK g : IsFold(g, m, s, 1..(k - 1))
  <2>1. k \in Nat /\ k - 1 \in Nat /\ k - 1 < k
    BY <1>3
  <2>2. <<k - 1, k>> \in OpToRel(<, Nat)
    BY <2>1 DEF OpToRel
  <2>3. k - 1 \notin T
    BY <1>1, <2>2
  <2> QED BY <2>1, <2>3
<1> DEFINE h == [p \in SUBSET (1..k) |->
                   IF p \in SUBSET (1..(k - 1)) THEN g[p]
                   ELSE React(g[p \ {k}], s[k])]
<1>5. ASSUME NEW p \in SUBSET (1..k)
      PROVE  h[p] = IF p = {} THEN m ELSE React(h[p \ {Max(p)}], s[Max(p)])
  <2>1. CASE p \in SUBSET (1..(k - 1))
    <3>1. h[p] = g[p] /\ p \ {Max(p)} \in SUBSET (1..(k - 1))
          /\ p \ {Max(p)} \in SUBSET (1..k)
      BY <2>1, <1>5
    <3>2. h[p \ {Max(p)}] = g[p \ {Max(p)}]
      BY <3>1
    <3>3. g[p] = IF p = {} THEN m ELSE React(g[p \ {Max(p)}], s[Max(p)])
      BY <1>4, <2>1 DEF IsFold
    <3> QED BY <3>1, <3>2, <3>3
  <2>2. CASE p \notin SUBSET (1..(k - 1))
    <3>0. 1..k = (1..(k - 1)) \cup {k}
      BY <1>3
    <3>1. k \in p /\ p # {}
      BY <2>2, <1>3, <1>5, <3>0
    <3>2. Max(p) = k
      BY <3>1, <1>5, <1>3, MaxOfPlaces
    <3>3. p \ {k} \in SUBSET (1..(k - 1)) /\ p \ {k} \in SUBSET (1..k)
      BY <1>3, <1>5, <3>0
    <3>4. h[p \ {k}] = g[p \ {k}]
      BY <3>3
    <3> QED BY <2>2, <3>1, <3>2, <3>4, <1>5
  <2> QED BY <2>1, <2>2
<1>6. IsFold(h, m, s, 1..k)
  <2> DEFINE f == [p \in SUBSET (1..k) |->
                     IF p = {} THEN m ELSE React(h[p \ {Max(p)}], s[Max(p)])]
  <2>1. \A p \in SUBSET (1..k) : h[p] = f[p]
    BY <1>5
  <2>2. h = f
    BY <2>1
  <2> HIDE DEF h
  <2> QED BY <2>2 DEF IsFold
<1> QED BY <1>1, <1>6

(* From m, the messages s lead to n.                                       *)
Leads(m, s, n) ==
    \E A : /\ A[0] = m /\ A[Len(s)] = n
           /\ \A k \in 1..Len(s) : A[k] = React(A[k - 1], s[k])

LEMMA FoldLeads ==
    ASSUME NEW m, NEW S, NEW s \in Seq(S)
    PROVE  Leads(m, s, FoldLeft(React, m, s))
<1> DEFINE n == Len(s)
           iter == CHOOSE g : IsFold(g, m, s, 1..n)
           A == [k \in 0..n |-> iter[1..k]]
<1>1. n \in Nat /\ DOMAIN s = 1..n
  OBVIOUS
<1> HIDE DEF n
<1>2. IsFold(iter, m, s, 1..n)
  BY <1>1, FoldExists
<1>3. FoldLeft(React, m, s) = iter[1..n]
  BY <1>1 DEF FoldLeft, MapThenFoldSet, IsFold
<1>4. \A p \in SUBSET (1..n) :
        iter[p] = IF p = {} THEN m ELSE React(iter[p \ {Max(p)}], s[Max(p)])
  <2> HIDE DEF iter
  <2> QED BY <1>2 DEF IsFold
<1> HIDE DEF iter
<1>5. A[0] = m
  <2>1. 1..0 = {} /\ 0 \in 0..n
    BY <1>1
  <2> QED BY <2>1, <1>4
<1>6. ASSUME NEW k \in 1..n PROVE A[k] = React(A[k - 1], s[k])
  <2>1. k \in Nat /\ k \in 1..k /\ 1..k \in SUBSET (1..n) /\ (1..k) \ {k} = 1..(k - 1)
        /\ k - 1 \in 0..n /\ k \in 0..n
    BY <1>1
  <2>2. Max(1..k) = k
    BY <2>1, MaxOfPlaces
  <2> QED BY <2>1, <2>2, <1>4
<1>7. A[n] = iter[1..n]
  BY <1>1
<1> HIDE DEF A
<1> QED BY <1>3, <1>5, <1>6, <1>7 DEF Leads, n

(* Part by part.                                                           *)
LEMMA LeadsThrough ==
    ASSUME NEW S, NEW s \in Seq(S), NEW t \in Seq(S), NEW m, NEW n, Leads(m, s \o t, n)
    PROVE  \E x : Leads(m, s, x) /\ Leads(x, t, n)
<1> DEFINE a == Len(s)
           b == Len(t)
           u == s \o t
<1>1. /\ a \in Nat /\ b \in Nat /\ Len(u) = a + b
      /\ \A i \in 1..a : u[i] = s[i]
      /\ \A i \in 1..b : u[a + i] = t[i]
  <2>1. \A i \in 1..(Len(s) + Len(t)) :
          (s \o t)[i] = IF i <= Len(s) THEN s[i] ELSE t[i - Len(s)]
    BY ConcatProperties
  <2>2. Len(s) \in Nat /\ Len(t) \in Nat /\ Len(s \o t) = Len(s) + Len(t)
    BY ConcatProperties
  <2>3. \A i \in 1..Len(t) : Len(s) + i \in 1..(Len(s) + Len(t))
            /\ ~(Len(s) + i <= Len(s)) /\ Len(s) + i - Len(s) = i
    BY <2>2
  <2>4. \A i \in 1..Len(s) : i \in 1..(Len(s) + Len(t)) /\ i <= Len(s)
    BY <2>2
  <2> QED BY <2>1, <2>2, <2>3, <2>4
<1> HIDE DEF u
<1>2. PICK A : /\ A[0] = m /\ A[a + b] = n
               /\ \A k \in 1..(a + b) : A[k] = React(A[k - 1], u[k])
  BY <1>1 DEF Leads, u
<1> HIDE DEF a, b
<1>3. Leads(m, s, A[a])
  <2>1. \A k \in 1..a : A[k] = React(A[k - 1], s[k])
    <3> TAKE k \in 1..a
    <3>1. k \in 1..(a + b)
      BY <1>1
    <3> QED BY <3>1, <1>1, <1>2
  <2> QED BY <2>1, <1>2 DEF Leads, a
<1>4. Leads(A[a], t, n)
  <2> DEFINE B == [k \in 0..b |-> A[a + k]]
  <2>1. B[0] = A[a] /\ B[b] = n
    BY <1>1, <1>2
  <2>2. ASSUME NEW k \in 1..b PROVE B[k] = React(B[k - 1], t[k])
    <3>1. a + k \in 1..(a + b) /\ k \in 0..b /\ k - 1 \in 0..b /\ a + k - 1 = a + (k - 1)
      BY <1>1
    <3> QED BY <3>1, <1>1, <1>2
  <2> HIDE DEF B
  <2> QED BY <2>1, <2>2 DEF Leads, b
<1> QED BY <1>3, <1>4

LEMMA LeadsShortly ==
    ASSUME NEW m, NEW n
    PROVE  /\ Leads(m, <<>>, n) => n = m
           /\ \A a : Leads(m, <<a>>, n) => n = React(m, a)
           /\ \A a, b : Leads(m, <<a, b>>, n) => n = React(React(m, a), b)
<1>1. Leads(m, <<>>, n) => n = m
  BY DEF Leads
<1>2. ASSUME NEW a, Leads(m, <<a>>, n) PROVE n = React(m, a)
  <2>1. Len(<<a>>) = 1 /\ <<a>>[1] = a
    OBVIOUS
  <2>2. PICK A : A[0] = m /\ A[1] = n /\ A[1] = React(A[1 - 1], a)
    BY <1>2, <2>1 DEF Leads
  <2> QED BY <2>2
<1>3. ASSUME NEW a, NEW b, Leads(m, <<a, b>>, n) PROVE n = React(React(m, a), b)
  <2>1. Len(<<a, b>>) = 2 /\ <<a, b>>[1] = a /\ <<a, b>>[2] = b
    OBVIOUS
  <2>2. PICK A : A[0] = m /\ A[2] = n /\ A[1] = React(A[1 - 1], a) /\ A[2] = React(A[2 - 1], b)
    BY <1>3, <2>1 DEF Leads
  <2> QED BY <2>2
<1> QED BY <1>1, <1>2, <1>3

LEMMA LeadsOnce ==
    ASSUME NEW m, NEW n, NEW a, Leads(m, <<a>>, n)
    PROVE  n = React(m, a)
<1>1. \A c : Leads(m, <<c>>, n) => n = React(m, c)
  BY LeadsShortly
<1> QED BY <1>1

LEMMA LeadsTwice ==
    ASSUME NEW m, NEW n, NEW a, NEW b, Leads(m, <<a, b>>, n)
    PROVE  n = React(React(m, a), b)
<1>1. \A c, d : Leads(m, <<c, d>>, n) => n = React(React(m, c), d)
  BY LeadsShortly
<1> QED BY <1>1

(* What each message keeps, they keep together.                            *)
LEMMA LeadsWithin ==
    ASSUME NEW M, NEW s \in Seq(M), NEW Q,
           \A q \in Q, e \in M : React(q, e) \in Q,
           NEW m \in Q, NEW n, Leads(m, s, n)
    PROVE  n \in Q
<1>1. PICK A : /\ A[0] = m /\ A[Len(s)] = n
               /\ \A k \in 1..Len(s) : A[k] = React(A[k - 1], s[k])
  BY DEF Leads
<1>2. Len(s) \in Nat /\ \A k \in 1..Len(s) : s[k] \in M
  BY ElementOfSeq
<1> DEFINE T == {k \in 0..Len(s) : A[k] \notin Q}
<1>3. T = {}
  <2> SUFFICES ASSUME T # {} PROVE FALSE
    OBVIOUS
  <2>1. T \subseteq Nat
    BY <1>2
  <2>2. PICK k \in T : \A j \in T : ~ (<<j, k>> \in OpToRel(<, Nat))
    BY <2>1, NatLessThanWellFounded, WFMin
  <2>3. k # 0 /\ k \in 0..Len(s)
    BY <1>1, <2>2
  <2>9. k \in 1..Len(s) /\ k - 1 \in 0..Len(s) /\ k - 1 < k
    BY <1>2, <2>3
  <2>4. A[k - 1] \in Q
    <3>1. <<k - 1, k>> \in OpToRel(<, Nat)
      BY <2>9, <1>2 DEF OpToRel
    <3> QED BY <2>2, <2>9, <3>1
  <2>5. A[k] = React(A[k - 1], s[k]) /\ s[k] \in M
    BY <1>1, <1>2, <2>9
  <2> QED BY <2>2, <2>4, <2>5
<1> QED BY <1>1, <1>2, <1>3

-----------------------------------------------------------------------------
(* The messages of a tick.                                                 *)

DecisionMessages ==
    {SetGesture("Throwing"), SetGesture("Reloading"), Message("ConsumeGrenade"),
     Message("SetLastGrenade")}
    \cup {SetBehavior(b) : b \in Behaviors}
    \cup (IF supplies = MaxSupplies THEN {} ELSE {Message("Replenish")})

GestureCalls ==
    {SetGesture(g) : g \in Gestures \ {"Throwing"}} \cup {Shot(n) : n \in Nat}
    \cup {Message("ReloadWeapon"), SetBehavior("Engage")}

EndMessages ==
    {Message("PushExplosion"), SetGesture("Idle"), Message("SetLastGrenade"),
     Message("SetAlive"), SetBehavior("Dead")}

LEMMA Reactions ==
    ASSUME NEW m
    PROVE  /\ \A g : React(m, SetGesture(g)) = Gesture(m, g)
           /\ \A b : React(m, SetBehavior(b)) = [m EXCEPT !.behavior = b]
           /\ \A n : React(m, Shot(n)) = WeaponShot(m, n)
           /\ React(m, Message("ReloadWeapon")) = ReloadWeapon(m)
           /\ React(m, Message("ConsumeGrenade")) = Consume(m)
           /\ React(m, Message("Replenish")) = Replenish(m)
           /\ React(m, Message("PushExplosion")) = [m EXCEPT !.exploded = @ + 1]
           /\ React(m, Message("SetAlive")) = [m EXCEPT !.alive = FALSE]
           /\ React(m, Message("SetLastGrenade")) = m
BY DEF React, SetGesture, SetBehavior, Shot, Message

LEMMA Products ==
    /\ \A a, b \in Nat : a * b \in Nat
    /\ \A a, b, c \in Int : a * (b - c) = a * b - a * c
    /\ \A a, b \in Int : a * (b - 1) = a * b - a
<1>1. \A a, b \in Nat : a * b \in Nat
  OBVIOUS
<1>2. \A a, b, c \in Int : a * (b - c) = a * b - a * c
  OBVIOUS
<1>3. \A a, b \in Int : a * (b - 1) = a * b - a
  OBVIOUS
<1> QED BY <1>1, <1>2, <1>3

LEMMA SuppliesAreNumbers ==
    /\ Rounds \in Nat \ {0} /\ Spares \in Nat /\ Grenades \in Nat /\ MaxSupplies \in Nat
    /\ \A b \in Bursts : b \in Nat \ {0}
BY SupplyAssumption

LEMMA ManParts ==
    ASSUME NEW m \in Man
    PROVE  /\ m.kind \in Kinds /\ m.gesture \in Gestures /\ m.ready \in BOOLEAN
           /\ m.magazine \in 0..Rounds /\ m.stock \in 0..Spares /\ m.grenades \in 0..Grenades
           /\ m.magazine \in Nat /\ m.stock \in Nat /\ m.grenades \in Nat
           /\ m.issued \in Nat /\ m.fired \in Nat /\ m.unloaded \in Nat
           /\ m.blanks \in Nat /\ m.spent \in Nat /\ m.exploded \in Nat
BY SuppliesAreNumbers DEF Man

(* A soldier with some of its fields set is one still.                     *)
LEMMA FieldsSet ==
    ASSUME NEW m \in Man
    PROVE  /\ \A g \in Gestures, n \in Nat : [m EXCEPT !.gesture = g, !.blanks = n] \in Man
           /\ \A b \in Behaviors \cup {"Dead"} : [m EXCEPT !.behavior = b] \in Man
           /\ [m EXCEPT !.alive = FALSE] \in Man /\ [m EXCEPT !.player = TRUE] \in Man
           /\ \A n \in Nat : [m EXCEPT !.exploded = n] \in Man
           /\ \A r \in BOOLEAN, k \in 0..Rounds : [m EXCEPT !.ready = r, !.magazine = k] \in Man
           /\ \A k \in 0..Rounds, l \in 0..Spares : [m EXCEPT !.magazine = k, !.stock = l] \in Man
           /\ [m EXCEPT !.ready = FALSE] \in Man
           /\ \A k \in 0..Rounds : [m EXCEPT !.magazine = k] \in Man
           /\ \A k \in Nat, l \in Nat : [m EXCEPT !.fired = k, !.unloaded = l] \in Man
           /\ \A k \in 0..Grenades, l \in Nat : [m EXCEPT !.grenades = k, !.spent = l] \in Man
           /\ \A n \in Nat, k \in 0..Spares, l \in 0..Grenades :
                 [m EXCEPT !.issued = n, !.stock = k, !.grenades = l] \in Man
<1>1. \A g \in Gestures, n \in Nat : [m EXCEPT !.gesture = g, !.blanks = n] \in Man
  BY Zenon DEF Man
<1>2. \A b \in Behaviors \cup {"Dead"} : [m EXCEPT !.behavior = b] \in Man
  BY Zenon DEF Man
<1>3. [m EXCEPT !.alive = FALSE] \in Man /\ [m EXCEPT !.player = TRUE] \in Man
  BY Zenon DEF Man
<1>4. \A n \in Nat : [m EXCEPT !.exploded = n] \in Man
  BY Zenon DEF Man
<1>5. \A r \in BOOLEAN, k \in 0..Rounds : [m EXCEPT !.ready = r, !.magazine = k] \in Man
  BY Zenon DEF Man
<1>6. \A k \in 0..Rounds, l \in 0..Spares : [m EXCEPT !.magazine = k, !.stock = l] \in Man
  BY Zenon DEF Man
<1>7. [m EXCEPT !.ready = FALSE] \in Man
  BY Zenon DEF Man
<1>8. \A k \in 0..Rounds : [m EXCEPT !.magazine = k] \in Man
  BY Zenon DEF Man
<1>9. \A k \in Nat, l \in Nat : [m EXCEPT !.fired = k, !.unloaded = l] \in Man
  BY Zenon DEF Man
<1>10. \A k \in 0..Grenades, l \in Nat : [m EXCEPT !.grenades = k, !.spent = l] \in Man
  BY Zenon DEF Man
<1>11. \A n \in Nat, k \in 0..Spares, l \in 0..Grenades :
         [m EXCEPT !.issued = n, !.stock = k, !.grenades = l] \in Man
  BY Zenon DEF Man
<1> QED BY <1>1, <1>2, <1>3, <1>4, <1>5, <1>6, <1>7, <1>8, <1>9, <1>10, <1>11

(* What each message leaves of a soldier.                                  *)
LEMMA GestureTyped ==
    ASSUME NEW m \in Man, NEW g \in Gestures
    PROVE  Gesture(m, g) \in Man
<1>1. m.blanks + (IF g = "Reloading" /\ ~CanFire(m) THEN 1 ELSE 0) \in Nat
  BY ManParts
<1> QED BY <1>1, FieldsSet DEF Gesture

LEMMA ReloadTyped ==
    ASSUME NEW m \in Man
    PROVE  ReloadWeapon(m) \in Man
<1>1. Chamber(m) \in Man
  <2>1. m.magazine > 0 => m.magazine - 1 \in 0..Rounds
    BY ManParts, SuppliesAreNumbers
  <2> QED BY <2>1, FieldsSet DEF Chamber
<1>2. ASSUME NEW c \in Man, c.stock > 0
      PROVE  [c EXCEPT !.magazine = Rounds, !.stock = @ - 1] \in Man
  <2>1. Rounds \in 0..Rounds /\ c.stock - 1 \in 0..Spares
    BY <1>2, ManParts, SuppliesAreNumbers
  <2> QED BY <2>1, FieldsSet
<1> DEFINE c == Chamber(m)
<1> HIDE DEF c
<1>3. ReloadWeapon(m) = IF c.magazine = 0 /\ c.stock > 0
                        THEN [c EXCEPT !.magazine = Rounds, !.stock = @ - 1] ELSE c
  BY DEF ReloadWeapon, c
<1> QED BY <1>1, <1>2, <1>3 DEF c

LEMMA ShotTyped ==
    ASSUME NEW m \in Man, NEW n \in Nat
    PROVE  WeaponShot(m, n) \in Man
<1> DEFINE shot == IF m.kind = "rifle" THEN [m EXCEPT !.ready = FALSE]
                   ELSE [m EXCEPT !.magazine = IF @ > n THEN @ - n ELSE 0]
<1>1. shot \in Man
  <2>1. (IF m.magazine > n THEN m.magazine - n ELSE 0) \in 0..Rounds
    BY ManParts, SuppliesAreNumbers
  <2> QED BY <2>1, FieldsSet
<1>2. WeaponShot(m, n) = [shot EXCEPT !.fired = @ + n,
                                      !.unloaded = @ + (IF CanFire(m) THEN 0 ELSE 1)]
  BY DEF WeaponShot
<1> HIDE DEF shot
<1>3. shot.fired + n \in Nat /\ shot.unloaded + (IF CanFire(m) THEN 0 ELSE 1) \in Nat
  <2>1. shot.fired \in Nat /\ shot.unloaded \in Nat
    BY <1>1, ManParts
  <2> QED BY <2>1
<1>4. \A k \in Nat, l \in Nat : [shot EXCEPT !.fired = k, !.unloaded = l] \in Man
  BY <1>1, FieldsSet
<1> QED BY <1>2, <1>3, <1>4, Zenon

LEMMA SupplyTyped ==
    ASSUME NEW m \in Man
    PROVE  Replenish(m) \in Man /\ Consume(m) \in Man
<1>1. Replenish(m) \in Man
  <2>1. m.issued + Rounds * (Spares - m.stock) \in Nat
    <3>1. Spares - m.stock \in Nat /\ m.issued \in Nat
      BY SuppliesAreNumbers, ManParts
    <3>2. Rounds * (Spares - m.stock) \in Nat
      <4> DEFINE d == Spares - m.stock
      <4>1. d \in Nat /\ Rounds \in Nat
        BY <3>1, SuppliesAreNumbers
      <4> HIDE DEF d
      <4>2. Rounds * d \in Nat
        BY <4>1, Products
      <4> QED BY <4>2 DEF d
    <3> QED BY <3>1, <3>2
  <2>2. Spares \in 0..Spares /\ Grenades \in 0..Grenades
    BY SuppliesAreNumbers
  <2> QED BY <2>1, <2>2, FieldsSet DEF Replenish
<1>2. Consume(m) \in Man
  <2>1. m.grenades # 0 => m.grenades - 1 \in 0..Grenades /\ m.spent + 1 \in Nat
    BY ManParts, SuppliesAreNumbers
  <2> QED BY <2>1, FieldsSet DEF Consume
<1> QED BY <1>1, <1>2

LEMMA MessagesAreTyped ==
    ASSUME NEW m \in Man
    PROVE  /\ \A e \in DecisionMessages : React(m, e) \in Man
           /\ \A e \in GestureCalls : React(m, e) \in Man
           /\ \A e \in EndMessages : React(m, e) \in Man
<1>1. \A g \in Gestures : React(m, SetGesture(g)) \in Man
  BY Reactions, GestureTyped
<1>2. \A b \in Behaviors \cup {"Dead"} : React(m, SetBehavior(b)) \in Man
  <2> TAKE b \in Behaviors \cup {"Dead"}
  <2>1. React(m, SetBehavior(b)) = [m EXCEPT !.behavior = b]
    BY Reactions
  <2> QED BY <2>1, FieldsSet, Zenon
<1>3. \A n \in Nat : React(m, Shot(n)) \in Man
  BY Reactions, ShotTyped
<1>4. React(m, Message("ReloadWeapon")) \in Man
  BY Reactions, ReloadTyped
<1>5. React(m, Message("ConsumeGrenade")) \in Man /\ React(m, Message("Replenish")) \in Man
  BY Reactions, SupplyTyped
<1>6. React(m, Message("PushExplosion")) \in Man
  <2>1. m.exploded + 1 \in Nat
    BY ManParts
  <2>2. React(m, Message("PushExplosion")) = [m EXCEPT !.exploded = m.exploded + 1]
    BY Reactions
  <2> QED BY <2>1, <2>2, FieldsSet, Zenon
<1>7. React(m, Message("SetAlive")) \in Man /\ React(m, Message("SetLastGrenade")) \in Man
  BY Reactions, FieldsSet
<1>8. {"Throwing", "Reloading", "Idle"} \subseteq Gestures /\ "Engage" \in Behaviors
  BY DEF Gestures, Behaviors
<1>9. \A e \in DecisionMessages : React(m, e) \in Man
  BY <1>1, <1>2, <1>5, <1>7, <1>8 DEF DecisionMessages
<1>10. \A e \in GestureCalls : React(m, e) \in Man
  BY <1>1, <1>2, <1>3, <1>4, <1>8 DEF GestureCalls
<1>11. \A e \in EndMessages : React(m, e) \in Man
  BY <1>1, <1>2, <1>6, <1>7, <1>8 DEF EndMessages
<1> QED BY <1>9, <1>10, <1>11

(* The messages of each handler, as sequences, and their parts.            *)
LEMMA DecisionParts ==
    /\ <<>> \in Seq(DecisionMessages) /\ Throw \in Seq(DecisionMessages)
    /\ <<Message("SetLastGrenade")>> \in Seq(DecisionMessages)
    /\ \A b \in Behaviors : Behave(b) \in Seq(DecisionMessages)
    /\ supplies # MaxSupplies =>
          <<Message("Replenish"), SetGesture("Reloading")>> \in Seq(DecisionMessages)
    /\ Panic \cup Breach \cup Target \cup Supply \subseteq Seq(DecisionMessages)
<1>1. /\ <<>> \in Seq(DecisionMessages) /\ Throw \in Seq(DecisionMessages)
      /\ <<Message("SetLastGrenade")>> \in Seq(DecisionMessages)
      /\ \A b \in Behaviors : Behave(b) \in Seq(DecisionMessages)
      /\ supplies # MaxSupplies =>
           <<Message("Replenish"), SetGesture("Reloading")>> \in Seq(DecisionMessages)
  <2>1. \A e \in DecisionMessages : <<e>> \in Seq(DecisionMessages)
    OBVIOUS
  <2>2. \A e, f \in DecisionMessages : <<e, f>> \in Seq(DecisionMessages)
    OBVIOUS
  <2>3. /\ {SetGesture("Throwing"), SetGesture("Reloading"), Message("ConsumeGrenade"),
             Message("SetLastGrenade")} \subseteq DecisionMessages
        /\ \A b \in Behaviors : SetBehavior(b) \in DecisionMessages
        /\ supplies # MaxSupplies => Message("Replenish") \in DecisionMessages
    BY DEF DecisionMessages
  <2> QED BY <2>1, <2>2, <2>3 DEF Throw, Behave
<1>2. \A s, t \in Seq(DecisionMessages) : s \o t \in Seq(DecisionMessages)
  BY ConcatProperties
<1>3. {"Idle", "Other"} \subseteq Behaviors
  BY DEF Behaviors
<1>4. ASSUME NEW x \in Panic PROVE x \in Seq(DecisionMessages)
  BY <1>1, <1>2, <1>3, <1>4 DEF Panic
<1>5. ASSUME NEW x \in Breach \cup Target PROVE x \in Seq(DecisionMessages)
  BY <1>1, <1>2, <1>5 DEF Breach, Target
<1>6. ASSUME NEW x \in Supply PROVE x \in Seq(DecisionMessages)
  BY <1>1, <1>2, <1>3, <1>6 DEF Supply
<1> QED BY <1>1, <1>4, <1>5, <1>6

LEMMA DecisionIs ==
    ASSUME NEW d \in Decisions
    PROVE  \/ d = <<>>
           \/ d \in Panic
           \/ \E b \in Breach, t \in Target, x \in Supply \cup {Behave(y) : y \in Behaviors} :
                 d = b \o t \o x
<1> DEFINE Calm == {b \o t \o x : b \in Breach, t \in Target,
                     x \in Supply \cup {Behave(y) : y \in Behaviors}}
<1>1. d = <<>> \/ d \in Panic \/ d \in Calm
  BY DEF Decisions
<1> QED BY <1>1

LEMMA DecisionsAre ==
    ASSUME NEW d \in Decisions
    PROVE  d \in Seq(DecisionMessages)
<1>1. \A s, t \in Seq(DecisionMessages) : s \o t \in Seq(DecisionMessages)
  BY ConcatProperties
<1>2. ASSUME NEW b \in Breach, NEW t \in Target,
             NEW x \in Supply \cup {Behave(y) : y \in Behaviors}, d = b \o t \o x
      PROVE  d \in Seq(DecisionMessages)
  BY <1>1, <1>2, DecisionParts
<1>3. d = <<>> \/ d \in Panic => d \in Seq(DecisionMessages)
  BY DecisionParts
<1> QED BY <1>2, <1>3, DecisionIs

LEMMA EndsAre ==
    /\ ThrowEnds \in Seq(EndMessages) /\ Death \in Seq(EndMessages)
    /\ ThrowEnds \o Death \in Seq(EndMessages)
<1>1. ThrowEnds \in Seq(EndMessages) /\ Death \in Seq(EndMessages)
  <2>1. /\ Message("PushExplosion") \in EndMessages /\ SetGesture("Idle") \in EndMessages
        /\ Message("SetLastGrenade") \in EndMessages
        /\ Message("SetAlive") \in EndMessages /\ SetBehavior("Dead") \in EndMessages
    BY DEF EndMessages
  <2>2. /\ <<>> \in Seq(EndMessages)
        /\ \A a, b, c \in EndMessages : <<a, b>> \in Seq(EndMessages)
                                        /\ <<a, b, c>> \in Seq(EndMessages)
    OBVIOUS
  <2> QED BY <2>1, <2>2 DEF ThrowEnds, Explosion, Death
<1> QED BY <1>1, ConcatProperties

(* One of the five things soldier_gesture does.                            *)
LEMMA GestureMessagesAre ==
    ASSUME man \in Man, NEW s \in GestureMessages
    PROVE  \/ s = <<>>
           \/ s = <<SetBehavior("Engage")>>
           \/ /\ ~man.player /\ man.gesture # "Throwing"
              /\ \E g \in NewGestures : g # man.gesture /\ s \in ToGesture(g)
<1>1. CASE man.player \/ man.gesture = "Throwing"
  BY <1>1 DEF GestureMessages
<1>2. CASE ~(man.player \/ man.gesture = "Throwing")
  <2>1. \/ \E g \in NewGestures : s \in ToGesture(g)
        \/ s = <<SetBehavior("Engage")>>
    <3>1. s \in Gesturing \/ s \in Spotting
      BY <1>2 DEF GestureMessages
    <3>2. s \in Gesturing => \E g \in NewGestures : s \in ToGesture(g)
      BY DEF Gesturing
    <3>3. s \in Spotting => s = <<SetBehavior("Engage")>>
      BY DEF Spotting
    <3> QED BY <3>1, <3>2, <3>3
  <2>2. ASSUME NEW g \in NewGestures, s \in ToGesture(g), g = man.gesture
        PROVE  s = <<>>
    BY <2>2 DEF ToGesture
  <2> QED BY <1>2, <2>1, <2>2
<1> QED BY <1>1, <1>2

-----------------------------------------------------------------------------
(* What the messages do to the weapon and its rounds.                      *)

Balance(m) ==
    m.fired + (IF m.ready THEN 1 ELSE 0) + m.magazine + Rounds * m.stock
        = m.issued + m.unloaded

Owed(m) ==
    /\ m.unloaded <= m.blanks
    /\ m.gesture \in {"Reloading", "Aiming"} /\ ~CanFire(m) => m.unloaded < m.blanks

SameWeapon(m, n) == n.kind = m.kind /\ n.ready = m.ready /\ n.magazine = m.magazine

SameRounds(m, n) == /\ SameWeapon(m, n) /\ n.stock = m.stock
                    /\ n.issued = m.issued /\ n.fired = m.fired /\ n.unloaded = m.unloaded

LEMMA SameWeaponFires == \A m, n : SameWeapon(m, n) => CanFire(n) = CanFire(m)
BY DEF SameWeapon, CanFire

LEMMA SameRoundsBalance == \A m, n : SameRounds(m, n) /\ Balance(m) => Balance(n)
BY DEF SameRounds, SameWeapon, Balance

LEMMA GestureFields ==
    ASSUME NEW m \in Man, NEW g \in Gestures
    PROVE  LET n == Gesture(m, g) IN
           /\ SameRounds(m, n) /\ n.gesture = g
           /\ n.blanks = m.blanks + (IF g = "Reloading" /\ ~CanFire(m) THEN 1 ELSE 0)
           /\ n.spent = m.spent /\ n.exploded = m.exploded /\ n.grenades = m.grenades
BY DEF Gesture, Man, SameRounds, SameWeapon

LEMMA SupplyFields ==
    ASSUME NEW m \in Man
    PROVE  /\ LET n == Replenish(m) IN
              /\ SameWeapon(m, n) /\ n.gesture = m.gesture /\ n.blanks = m.blanks
              /\ n.fired = m.fired /\ n.unloaded = m.unloaded
              /\ n.stock = Spares /\ n.issued = m.issued + Rounds * (Spares - m.stock)
              /\ n.spent = m.spent /\ n.exploded = m.exploded /\ n.grenades = Grenades
           /\ LET n == Consume(m) IN
              /\ SameRounds(m, n) /\ n.gesture = m.gesture /\ n.blanks = m.blanks
              /\ n.exploded = m.exploded
              /\ m.grenades = 0 => n.spent = m.spent /\ n.grenades = m.grenades
              /\ m.grenades # 0 => n.spent = m.spent + 1 /\ n.grenades = m.grenades - 1
BY DEF Replenish, Consume, Man, SameRounds, SameWeapon

LEMMA OtherFields ==
    ASSUME NEW m \in Man
    PROVE  /\ \A b : LET n == [m EXCEPT !.behavior = b] IN
                /\ SameRounds(m, n) /\ n.gesture = m.gesture /\ n.blanks = m.blanks
                /\ n.spent = m.spent /\ n.exploded = m.exploded /\ n.grenades = m.grenades
           /\ LET n == [m EXCEPT !.alive = FALSE] IN
                /\ SameRounds(m, n) /\ n.gesture = m.gesture /\ n.blanks = m.blanks
                /\ n.spent = m.spent /\ n.exploded = m.exploded /\ n.grenades = m.grenades
           /\ LET n == [m EXCEPT !.player = TRUE] IN
                /\ SameRounds(m, n) /\ n.gesture = m.gesture /\ n.blanks = m.blanks
                /\ n.spent = m.spent /\ n.exploded = m.exploded /\ n.grenades = m.grenades
           /\ LET n == [m EXCEPT !.exploded = @ + 1] IN
                /\ SameRounds(m, n) /\ n.gesture = m.gesture /\ n.blanks = m.blanks
                /\ n.spent = m.spent /\ n.exploded = m.exploded + 1 /\ n.grenades = m.grenades
BY DEF Man, SameRounds, SameWeapon

LEMMA ReplenishBalances ==
    ASSUME NEW m \in Man, Balance(m)
    PROVE  Balance(Replenish(m))
<1> DEFINE n == Replenish(m)
<1>1. /\ n.ready = m.ready /\ n.magazine = m.magazine
      /\ n.fired = m.fired /\ n.unloaded = m.unloaded
      /\ n.stock = Spares /\ n.issued = m.issued + Rounds * (Spares - m.stock)
  BY SupplyFields DEF SameWeapon
<1>2. Rounds * (Spares - m.stock) = Rounds * Spares - Rounds * m.stock
  <2>1. Rounds \in Int /\ Spares \in Int /\ m.stock \in Int
    BY SuppliesAreNumbers, ManParts
  <2> QED BY <2>1, Products
<1>3. Rounds * Spares \in Nat /\ Rounds * m.stock \in Nat
  <2>1. Rounds \in Nat /\ Spares \in Nat /\ m.stock \in Nat
    BY SuppliesAreNumbers, ManParts
  <2> QED BY <2>1, Products
<1> HIDE DEF n
<1> DEFINE a == Rounds * Spares
           b == Rounds * m.stock
<1>4. /\ a \in Nat /\ b \in Nat
      /\ n.issued = m.issued + (a - b)
      /\ m.fired + (IF m.ready THEN 1 ELSE 0) + m.magazine + b = m.issued + m.unloaded
  BY <1>1, <1>2, <1>3 DEF Balance
<1>5. Balance(n) <=>
        m.fired + (IF m.ready THEN 1 ELSE 0) + m.magazine + a = m.issued + (a - b) + m.unloaded
  BY <1>1, <1>2 DEF Balance
<1> HIDE DEF a, b
<1>6. /\ m.fired \in Nat /\ m.magazine \in Nat /\ m.issued \in Nat /\ m.unloaded \in Nat
  BY ManParts
<1> QED BY <1>4, <1>5, <1>6 DEF n

(* What the decisions of soldier_behavior leave of the weapon: all but     *)
(* what is in stock, and no shot is owed without a reloading.              *)
Undecided(m) ==
    {x \in Man : /\ SameWeapon(m, x) /\ x.unloaded = m.unloaded /\ x.blanks >= m.blanks
                 /\ Balance(x) /\ Owed(x)}

LEMMA DuringDecisions ==
    ASSUME man \in Man, Balance(man), Owed(man),
           NEW d \in Decisions, NEW x, Leads(man, d, x)
    PROVE  x \in Undecided(man)
<1>1. man \in Undecided(man)
  BY ManParts DEF Undecided, SameWeapon
<1>2. ASSUME NEW q \in Undecided(man), NEW e \in DecisionMessages
      PROVE  React(q, e) \in Undecided(man)
  <2> DEFINE n == React(q, e)
  <2>1. /\ q \in Man /\ SameWeapon(man, q) /\ q.unloaded = man.unloaded
        /\ q.blanks >= man.blanks /\ Balance(q) /\ Owed(q)
    BY DEF Undecided
  <2>2. n \in Man
    BY <2>1, MessagesAreTyped
  <2>3. q.blanks \in Nat /\ q.unloaded \in Nat /\ man.blanks \in Nat
    BY <2>1, ManParts
  <2>4. ASSUME NEW g \in {"Throwing", "Reloading"}, e = SetGesture(g)
        PROVE  n \in Undecided(man)
    <3>1. n = Gesture(q, g) /\ g \in Gestures
      BY <2>4, Reactions DEF Gestures
    <3>2. /\ SameRounds(q, n) /\ n.gesture = g
          /\ n.blanks = q.blanks + (IF g = "Reloading" /\ ~CanFire(q) THEN 1 ELSE 0)
      BY <2>1, <3>1, GestureFields
    <3> HIDE DEF n
    <3>3. SameWeapon(man, n) /\ n.unloaded = man.unloaded /\ Balance(n)
          /\ CanFire(n) = CanFire(q)
      BY <2>1, <3>2, SameRoundsBalance, SameWeaponFires DEF SameRounds, SameWeapon
    <3>4. n.blanks >= man.blanks /\ Owed(n)
      BY <2>1, <2>3, <3>2, <3>3 DEF Owed, SameRounds
    <3> QED BY <2>2, <3>3, <3>4 DEF Undecided, n
  <2>5. ASSUME SameRounds(q, n) \/ (SameWeapon(q, n) /\ n.unloaded = q.unloaded /\ Balance(n)),
               n.gesture = q.gesture, n.blanks = q.blanks
        PROVE  n \in Undecided(man)
    <3> HIDE DEF n
    <3>1. SameWeapon(q, n) /\ n.unloaded = q.unloaded /\ Balance(n)
      BY <2>1, <2>5, SameRoundsBalance DEF SameRounds
    <3>2. CanFire(n) = CanFire(q) /\ SameWeapon(man, n)
      BY <2>1, <3>1, SameWeaponFires DEF SameWeapon
    <3>3. Owed(n) /\ n.blanks >= man.blanks
      BY <2>1, <2>5, <3>1, <3>2 DEF Owed
    <3> QED BY <2>1, <2>2, <3>1, <3>2, <3>3 DEF Undecided, n
  <2>6. CASE e = Message("ConsumeGrenade")
    BY <2>1, <2>5, <2>6, Reactions, SupplyFields
  <2>7. CASE e = Message("Replenish")
    <3>1. n = Replenish(q)
      BY <2>7, Reactions
    <3>2. Balance(n)
      BY <2>1, <3>1, ReplenishBalances
    <3> QED BY <2>1, <2>5, <3>1, <3>2, SupplyFields
  <2>8. CASE e = Message("SetLastGrenade")
    <3>1. n = q
      BY <2>8, Reactions
    <3> QED BY <3>1, <1>2
  <2>9. ASSUME NEW b \in Behaviors, e = SetBehavior(b)
        PROVE  n \in Undecided(man)
    <3>1. n = [q EXCEPT !.behavior = b]
      BY <2>9, Reactions
    <3>2. SameRounds(q, n) /\ n.gesture = q.gesture /\ n.blanks = q.blanks
      <4> HIDE DEF n
      <4> QED BY <2>1, <3>1, OtherFields
    <3> QED BY <2>5, <3>2
  <2> QED BY <1>2, <2>4, <2>6, <2>7, <2>8, <2>9 DEF DecisionMessages
<1>3. d \in Seq(DecisionMessages)
  BY DecisionsAre
<1> QED BY <1>1, <1>2, <1>3, LeadsWithin

(* What may happen at the end of a tick leaves the weapon alone.           *)
Sound == {x \in Man : Balance(x) /\ Owed(x)}

LEMMA DuringEnds ==
    ASSUME NEW m \in Sound, NEW s \in Seq(EndMessages), NEW x, Leads(m, s, x)
    PROVE  x \in Sound
<1>1. ASSUME NEW q \in Sound, NEW e \in EndMessages
      PROVE  React(q, e) \in Sound
  <2> DEFINE n == React(q, e)
  <2>1. q \in Man /\ Balance(q) /\ Owed(q) /\ n \in Man
    BY MessagesAreTyped DEF Sound
  <2>2. ASSUME SameRounds(q, n), n.gesture \in {q.gesture, "Idle"}, n.blanks = q.blanks
        PROVE  n \in Sound
    <3> HIDE DEF n
    <3>1. Balance(n) /\ CanFire(n) = CanFire(q)
      BY <2>1, <2>2, SameRoundsBalance, SameWeaponFires DEF SameRounds
    <3>2. Owed(n)
      BY <2>1, <2>2, <3>1 DEF Owed, SameRounds
    <3> QED BY <2>1, <3>1, <3>2 DEF Sound, n
  <2>3. CASE e = SetGesture("Idle")
    <3>1. n = Gesture(q, "Idle") /\ "Idle" \in Gestures
      BY <2>3, Reactions DEF Gestures
    <3>2. SameRounds(q, n) /\ n.gesture = "Idle" /\ n.blanks = q.blanks + 0
      BY <2>1, <3>1, GestureFields
    <3>3. q.blanks \in Nat
      BY <2>1, ManParts
    <3> QED BY <2>2, <3>2, <3>3
  <2>4. CASE e = Message("PushExplosion")
    BY <2>1, <2>2, <2>4, Reactions, OtherFields
  <2>5. CASE e = Message("SetLastGrenade")
    <3>1. n = q
      BY <2>5, Reactions
    <3> QED BY <3>1
  <2>6. CASE e = Message("SetAlive")
    BY <2>1, <2>2, <2>6, Reactions, OtherFields
  <2>7. CASE e = SetBehavior("Dead")
    <3>1. n = [q EXCEPT !.behavior = "Dead"]
      BY <2>7, Reactions
    <3>2. SameRounds(q, n) /\ n.gesture = q.gesture /\ n.blanks = q.blanks
      <4> HIDE DEF n
      <4> QED BY <2>1, <3>1, OtherFields
    <3> QED BY <2>2, <3>2
  <2> QED BY <2>3, <2>4, <2>5, <2>6, <2>7 DEF EndMessages
<1> QED BY <1>1, LeadsWithin

(* A reloading moves rounds from the magazine to the chamber, and from the *)
(* stock to the magazine.                                                  *)
LEMMA ReloadBalances ==
    ASSUME NEW m \in Man, Balance(m)
    PROVE  LET n == ReloadWeapon(m) IN
           /\ Balance(n) /\ n.unloaded = m.unloaded /\ n.blanks = m.blanks
<1> DEFINE c == Chamber(m)
           n == ReloadWeapon(m)
<1>1. c \in Man /\ n \in Man
  <2>1. m.magazine > 0 => m.magazine - 1 \in 0..Rounds
    BY ManParts, SuppliesAreNumbers
  <2> QED BY <2>1, FieldsSet, ReloadTyped DEF Chamber
<1>2. /\ c.fired = m.fired /\ c.issued = m.issued /\ c.unloaded = m.unloaded
      /\ c.blanks = m.blanks /\ c.stock = m.stock
      /\ \/ c.ready = m.ready /\ c.magazine = m.magazine
         \/ m.ready = FALSE /\ c.ready = TRUE /\ c.magazine = m.magazine - 1
  <2>1. CASE m.kind = "rifle" /\ ~m.ready /\ m.magazine > 0
    <3>1. c = [m EXCEPT !.ready = TRUE, !.magazine = @ - 1]
      BY <2>1 DEF Chamber
    <3>2. m.ready = FALSE
      BY <2>1, ManParts
    <3> QED BY <3>1, <3>2 DEF Man
  <2>2. CASE ~(m.kind = "rifle" /\ ~m.ready /\ m.magazine > 0)
    BY <2>2 DEF Chamber
  <2> QED BY <2>1, <2>2
<1>3. n = IF c.magazine = 0 /\ c.stock > 0
          THEN [c EXCEPT !.magazine = Rounds, !.stock = @ - 1] ELSE c
  BY DEF ReloadWeapon
<1> HIDE DEF c, n
<1>4. /\ n.fired = c.fired /\ n.issued = c.issued /\ n.unloaded = c.unloaded
      /\ n.blanks = c.blanks /\ n.ready = c.ready
      /\ \/ n.magazine = c.magazine /\ n.stock = c.stock
         \/ c.magazine = 0 /\ n.magazine = Rounds /\ n.stock = c.stock - 1
  BY <1>1, <1>3 DEF Man
<1>5. Rounds * (c.stock - 1) = Rounds * c.stock - Rounds
  <2>1. Rounds \in Int /\ c.stock \in Int
    BY <1>1, SuppliesAreNumbers, ManParts
  <2> QED BY <2>1, Products
<1> DEFINE b == Rounds * c.stock
<1>6. b \in Nat /\ Rounds \in Nat
  <2>1. Rounds \in Nat /\ c.stock \in Nat
    BY <1>1, SuppliesAreNumbers, ManParts
  <2> QED BY <2>1, Products
<1>7. /\ m.fired \in Nat /\ m.magazine \in Nat /\ m.issued \in Nat /\ m.unloaded \in Nat
      /\ m.ready \in BOOLEAN
  BY ManParts
<1>8. c.fired + (IF c.ready THEN 1 ELSE 0) + c.magazine + b = c.issued + c.unloaded
  <2>1. m.fired + (IF m.ready THEN 1 ELSE 0) + m.magazine + b = m.issued + m.unloaded
    BY <1>2 DEF Balance
  <2> HIDE DEF b
  <2>2. CASE c.ready = m.ready /\ c.magazine = m.magazine
    BY <1>2, <2>1, <2>2
  <2>3. CASE m.ready = FALSE /\ c.ready = TRUE /\ c.magazine = m.magazine - 1
    BY <1>2, <1>6, <1>7, <2>1, <2>3
  <2> QED BY <1>2, <2>2, <2>3
<1>9. Balance(n)
  <2>1. CASE n.magazine = c.magazine /\ n.stock = c.stock
    BY <1>4, <1>8, <2>1 DEF Balance
  <2>2. CASE c.magazine = 0 /\ n.magazine = Rounds /\ n.stock = c.stock - 1
    <3>1. Rounds * n.stock = b - Rounds
      BY <1>5, <2>2
    <3>2. /\ c.fired \in Nat /\ c.issued \in Nat /\ c.unloaded \in Nat
      BY <1>1, ManParts
    <3> HIDE DEF b
    <3>3. c.fired + (IF c.ready THEN 1 ELSE 0) + Rounds + (b - Rounds) = c.issued + c.unloaded
      BY <1>6, <1>8, <2>2, <3>2
    <3> QED BY <1>4, <2>2, <3>1, <3>3 DEF Balance
  <2> QED BY <1>4, <2>1, <2>2
<1> QED BY <1>2, <1>4, <1>9 DEF n

(* A shot takes its bullets from the weapon; but one with nothing in it is *)
(* a shot all the same.                                                    *)
LEMMA ShotBalances ==
    ASSUME NEW m \in Man, Balance(m), man \in Man, SameWeapon(man, m),
           NEW k \in Shots(man)
    PROVE  LET n == WeaponShot(m, k) IN
           /\ k \in Nat /\ Balance(n) /\ n.blanks = m.blanks
           /\ n.unloaded = m.unloaded + (IF CanFire(m) THEN 0 ELSE 1)
<1> DEFINE n == WeaponShot(m, k)
           shot == IF m.kind = "rifle" THEN [m EXCEPT !.ready = FALSE]
                   ELSE [m EXCEPT !.magazine = IF @ > k THEN @ - k ELSE 0]
<1>1. /\ k \in Nat
      /\ m.kind = "rifle" \/ m.magazine = 0 => k = 1
      /\ m.kind # "rifle" /\ m.magazine # 0 => k <= m.magazine
  <2>1. m.kind = man.kind /\ m.magazine = man.magazine /\ m.magazine \in Nat
    BY ManParts DEF SameWeapon
  <2> QED BY <2>1, SuppliesAreNumbers DEF Shots, Lesser
<1>2. /\ n = [shot EXCEPT !.fired = @ + k, !.unloaded = @ + (IF CanFire(m) THEN 0 ELSE 1)]
      /\ shot.fired = m.fired /\ shot.unloaded = m.unloaded /\ shot.blanks = m.blanks
      /\ shot.issued = m.issued /\ shot.stock = m.stock
      /\ m.kind = "rifle" => shot.ready = FALSE /\ shot.magazine = m.magazine
      /\ m.kind # "rifle" => /\ shot.ready = m.ready
                             /\ shot.magazine = IF m.magazine > k THEN m.magazine - k ELSE 0
  BY DEF WeaponShot, Man
<1>3. shot \in Man
  <2>1. (IF m.magazine > k THEN m.magazine - k ELSE 0) \in 0..Rounds
    BY <1>1, ManParts, SuppliesAreNumbers
  <2> QED BY <2>1, FieldsSet
<1> HIDE DEF shot, n
<1>4. /\ n.fired = m.fired + k /\ n.unloaded = m.unloaded + (IF CanFire(m) THEN 0 ELSE 1)
      /\ n.blanks = m.blanks /\ n.issued = m.issued /\ n.stock = m.stock
      /\ n.ready = shot.ready /\ n.magazine = shot.magazine
  BY <1>2, <1>3 DEF Man
<1>5. /\ m.fired \in Nat /\ m.magazine \in Nat /\ m.issued \in Nat /\ m.unloaded \in Nat
      /\ m.ready \in BOOLEAN
  BY ManParts
<1> DEFINE b == Rounds * m.stock
<1>6. b \in Nat
  <2>1. Rounds \in Nat /\ m.stock \in Nat
    BY SuppliesAreNumbers, ManParts
  <2> QED BY <2>1, Products
<1>7. m.fired + (IF m.ready THEN 1 ELSE 0) + m.magazine + b = m.issued + m.unloaded
  BY DEF Balance
<1>8. Balance(n) <=> n.fired + (IF n.ready THEN 1 ELSE 0) + n.magazine + b = n.issued + n.unloaded
  BY <1>4 DEF Balance
<1> HIDE DEF b
<1>9. Balance(n)
  <2>1. CASE m.kind = "rifle"
    <3>1. CanFire(m) <=> m.ready
      BY <2>1, <1>5 DEF CanFire
    <3> QED BY <1>1, <1>2, <1>4, <1>5, <1>6, <1>7, <1>8, <2>1, <3>1
  <2>2. CASE m.kind # "rifle"
    <3>1. CanFire(m) <=> m.magazine > 0
      BY <2>2 DEF CanFire
    <3> QED BY <1>1, <1>2, <1>4, <1>5, <1>6, <1>7, <1>8, <2>2, <3>1
  <2> QED BY <2>1, <2>2
<1> QED BY <1>1, <1>4, <1>9 DEF n

(* soldier_gesture goes from one gesture to the next.                      *)
LEMMA NewGestureIs ==
    ASSUME man \in Man, NEW g \in NewGestures, g # man.gesture, man.gesture # "Throwing"
    PROVE  \/ g = "Idle"
           \/ g = "Aiming" /\ (CanFire(man) \/ man.gesture = "Reloading")
           \/ g = "Reloading"
           \/ g = "Firing" /\ man.gesture = "Aiming"
<1>1. g \in {"Idle", man.gesture, NextGesture}
  BY DEF NewGestures, Engaging
<1>2. man.gesture \in {"Idle", "Reloading", "Aiming", "Firing"}
  BY ManParts DEF Gestures
<1>3. \/ NextGesture = man.gesture
      \/ NextGesture = "Idle"
      \/ NextGesture = "Aiming" /\ (CanFire(man) \/ man.gesture = "Reloading")
      \/ NextGesture = "Reloading"
      \/ NextGesture = "Firing" /\ man.gesture = "Aiming"
  BY <1>2 DEF NextGesture
<1> QED BY <1>1, <1>3

LEMMA DuringGestures ==
    ASSUME man \in Man, Balance(man), Owed(man),
           NEW m \in Undecided(man), NEW s \in GestureMessages,
           NEW x, Leads(m, s, x)
    PROVE  x \in Sound
<1>1. /\ m \in Man /\ SameWeapon(man, m) /\ m.unloaded = man.unloaded
      /\ m.blanks >= man.blanks /\ Balance(m) /\ Owed(m) /\ CanFire(m) = CanFire(man)
  BY SameWeaponFires DEF Undecided
<1>2. /\ m.blanks \in Nat /\ m.unloaded \in Nat /\ man.blanks \in Nat /\ man.unloaded \in Nat
  BY <1>1, ManParts
(* A gesture, of a soldier about to make it.                               *)
<1>3. ASSUME NEW q \in Man, Balance(q), NEW g \in Gestures, q.unloaded <= q.blanks,
             g = "Aiming" /\ ~CanFire(q) => q.unloaded < q.blanks
      PROVE  Gesture(q, g) \in Sound
  <2> DEFINE n == Gesture(q, g)
  <2>1. /\ n \in Man /\ SameRounds(q, n) /\ n.gesture = g
        /\ n.blanks = q.blanks + (IF g = "Reloading" /\ ~CanFire(q) THEN 1 ELSE 0)
    BY <1>3, GestureFields, GestureTyped
  <2> HIDE DEF n
  <2>2. Balance(n) /\ CanFire(n) = CanFire(q) /\ n.unloaded = q.unloaded
    BY <1>3, <2>1, SameRoundsBalance, SameWeaponFires DEF SameRounds
  <2>3. q.blanks \in Nat /\ q.unloaded \in Nat
    BY <1>3, ManParts
  <2>4. Owed(n)
    BY <1>3, <2>1, <2>2, <2>3 DEF Owed
  <2> QED BY <2>1, <2>2, <2>4 DEF Sound, n
<1>4. CASE s = <<>>
  BY <1>1, <1>4, LeadsShortly DEF Sound
<1>5. CASE s = <<SetBehavior("Engage")>>
  <2>1. x = [m EXCEPT !.behavior = "Engage"] /\ "Engage" \in Behaviors
    <3>1. x = React(m, SetBehavior("Engage"))
      BY <1>5, LeadsShortly
    <3> QED BY <3>1, Reactions DEF Behaviors
  <2>2. x \in Man /\ SameRounds(m, x) /\ x.gesture = m.gesture /\ x.blanks = m.blanks
    BY <1>1, <2>1, OtherFields, FieldsSet
  <2>3. Balance(x) /\ CanFire(x) = CanFire(m) /\ x.unloaded = m.unloaded
    BY <1>1, <2>2, SameRoundsBalance, SameWeaponFires DEF SameRounds
  <2> QED BY <1>1, <2>2, <2>3 DEF Sound, Owed
<1>6. ASSUME man.gesture # "Throwing",
             NEW g \in NewGestures, g # man.gesture, s \in ToGesture(g)
      PROVE  x \in Sound
  <2>1. \/ g = "Idle"
        \/ g = "Aiming" /\ (CanFire(man) \/ man.gesture = "Reloading")
        \/ g = "Reloading"
        \/ g = "Firing" /\ man.gesture = "Aiming"
    BY <1>6, NewGestureIs
  <2>2. m.unloaded <= m.blanks /\ g \in Gestures
    BY <1>1, <2>1 DEF Owed, Gestures
  <2>3. CASE g \in {"Idle", "Aiming"}
    <3>1. s = <<SetGesture(g)>>
      BY <1>6, <2>3 DEF ToGesture
    <3>2. x = Gesture(m, g)
      <4>1. x = React(m, SetGesture(g))
        BY <3>1, LeadsShortly
      <4> QED BY <4>1, Reactions
    <3>3. g = "Aiming" /\ ~CanFire(m) => m.unloaded < m.blanks
      BY <1>1, <1>2, <2>1 DEF Owed
    <3> QED BY <1>1, <1>3, <2>2, <3>2, <3>3
  <2>4. CASE g = "Reloading"
    <3>1. s = <<Message("ReloadWeapon"), SetGesture(g)>>
      BY <1>6, <2>4 DEF ToGesture
    <3> DEFINE q == ReloadWeapon(m)
    <3>2. x = Gesture(q, g)
      <4> DEFINE e == Message("ReloadWeapon")
                 f == SetGesture(g)
      <4>1. Leads(m, <<e, f>>, x)
        BY <3>1
      <4>2. React(m, e) = q /\ React(q, f) = Gesture(q, g)
        BY Reactions
      <4> HIDE DEF e, f, q
      <4>3. x = React(React(m, e), f)
        BY <4>1, LeadsTwice
      <4> QED BY <4>2, <4>3
    <3>3. q \in Man /\ Balance(q) /\ q.unloaded = m.unloaded /\ q.blanks = m.blanks
      BY <1>1, ReloadBalances, ReloadTyped
    <3> HIDE DEF q
    <3> QED BY <1>3, <2>2, <2>4, <3>2, <3>3
  <2>5. CASE g = "Firing"
    <3>1. PICK k \in Shots(man) : s = <<Shot(k), SetGesture(g)>>
      BY <1>6, <2>5 DEF ToGesture
    <3> DEFINE q == WeaponShot(m, k)
    <3>2. x = Gesture(q, g)
      <4> DEFINE e == Shot(k)
                 f == SetGesture(g)
      <4>1. Leads(m, <<e, f>>, x)
        BY <3>1
      <4>2. React(m, e) = q /\ React(q, f) = Gesture(q, g)
        BY Reactions
      <4> HIDE DEF e, f, q
      <4>3. x = React(React(m, e), f)
        BY <4>1, LeadsTwice
      <4> QED BY <4>2, <4>3
    <3>3. k \in Nat /\ Balance(q) /\ q.blanks = m.blanks
          /\ q.unloaded = m.unloaded + (IF CanFire(m) THEN 0 ELSE 1)
      BY <1>1, ShotBalances
    <3>4. q \in Man
      BY <1>1, <3>3, ShotTyped
    <3> HIDE DEF q
    <3>5. q.unloaded <= q.blanks
      BY <1>1, <1>2, <2>1, <2>2, <2>5, <3>3 DEF Owed
    <3> QED BY <1>3, <2>2, <2>5, <3>2, <3>3, <3>4, <3>5
  <2> QED BY <2>1, <2>3, <2>4, <2>5
<1> QED BY <1>4, <1>5, <1>6, GestureMessagesAre

-----------------------------------------------------------------------------
(* What the messages do to the grenades.                                   *)

Thrown(m) == m.exploded + (IF m.gesture = "Throwing" THEN 1 ELSE 0) <= m.spent

SameGrenades(m, n) == n.spent = m.spent /\ n.exploded = m.exploded

LEMMA WeaponFields ==
    ASSUME NEW m \in Man
    PROVE  /\ LET n == ReloadWeapon(m) IN SameGrenades(m, n) /\ n.gesture = m.gesture
           /\ \A k : LET n == WeaponShot(m, k) IN SameGrenades(m, n) /\ n.gesture = m.gesture
<1>1. \A k : LET n == WeaponShot(m, k) IN SameGrenades(m, n) /\ n.gesture = m.gesture
  BY DEF Man, WeaponShot, SameGrenades
<1> DEFINE c == Chamber(m)
<1>2. c \in Man
  <2>1. m.magazine > 0 => m.magazine - 1 \in 0..Rounds
    BY ManParts, SuppliesAreNumbers
  <2> QED BY <2>1, FieldsSet DEF Chamber
<1>3. SameGrenades(m, c) /\ c.gesture = m.gesture
  BY DEF Man, Chamber, SameGrenades
<1>4. ReloadWeapon(m) = IF c.magazine = 0 /\ c.stock > 0
                        THEN [c EXCEPT !.magazine = Rounds, !.stock = @ - 1] ELSE c
  BY DEF ReloadWeapon
<1> HIDE DEF c
<1>5. LET n == ReloadWeapon(m) IN SameGrenades(c, n) /\ n.gesture = c.gesture
  BY <1>2, <1>4 DEF Man, SameGrenades
<1> QED BY <1>1, <1>3, <1>5 DEF SameGrenades

(* Before the messages of the ends: who has begun a throw has paid for it, *)
(* unless it was throwing all along.                                       *)
Paid == {x \in Man : /\ x.exploded = man.exploded /\ x.spent >= man.spent
                     /\ x.gesture = "Throwing" =>
                           man.gesture = "Throwing" \/ x.spent > man.spent}

(* And as long as no supply came, a grenade less was paid for as well.     *)
Throwing == {x \in Paid : x.grenades # man.grenades => x.spent > man.spent}

LEMMA PaidKept ==
    ASSUME man \in Man, NEW q \in Paid, NEW n \in Man, SameGrenades(q, n),
           n.gesture = "Throwing" => q.gesture = "Throwing"
    PROVE  n \in Paid
BY ManParts DEF Paid, SameGrenades

LEMMA ThrowsArePaid ==
    ASSUME man \in Man, man.grenades > 0, NEW q \in Throwing, NEW x, Leads(q, Throw, x)
    PROVE  x \in Throwing
<1> DEFINE e == SetGesture("Throwing")
           f == Message("ConsumeGrenade")
           n == Gesture(q, "Throwing")
<1>1. x = Consume(n)
  <2>1. React(q, e) = n /\ React(n, f) = Consume(n)
    BY Reactions
  <2>2. Leads(q, <<e, f>>, x)
    BY DEF Throw
  <2> HIDE DEF e, f, n
  <2>3. x = React(React(q, e), f)
    BY <2>2, LeadsTwice
  <2> QED BY <2>1, <2>3
<1>2. /\ q \in Man /\ q.exploded = man.exploded /\ q.spent >= man.spent
      /\ q.grenades # man.grenades => q.spent > man.spent
  BY DEF Throwing, Paid
<1>3. n \in Man /\ n.spent = q.spent /\ n.exploded = q.exploded /\ n.grenades = q.grenades
  <2>1. "Throwing" \in Gestures
    BY DEF Gestures
  <2> QED BY <1>2, <2>1, GestureFields, GestureTyped
<1> HIDE DEF n
<1>4. /\ x \in Man /\ x.exploded = n.exploded
      /\ n.grenades = 0 => x.spent = n.spent /\ x.grenades = n.grenades
      /\ n.grenades # 0 => x.spent = n.spent + 1 /\ x.grenades = n.grenades - 1
  BY <1>1, <1>3, SupplyFields, SupplyTyped
<1>5. /\ man.spent \in Nat /\ q.spent \in Nat /\ man.grenades \in Nat /\ q.grenades \in Nat
  BY <1>2, ManParts
<1>6. x.spent > man.spent /\ x.exploded = man.exploded
  <2>1. CASE n.grenades = 0
    BY <1>2, <1>3, <1>4, <1>5, <2>1
  <2>2. CASE n.grenades # 0
    BY <1>2, <1>3, <1>4, <1>5, <2>2
  <2> QED BY <2>1, <2>2
<1>7. x.spent >= man.spent
  BY <1>4, <1>5, <1>6, ManParts
<1> QED BY <1>4, <1>6, <1>7 DEF Throwing, Paid

(* The other messages of soldier_behavior.                                 *)
LEMMA CalmIsPaid ==
    ASSUME man \in Man, NEW q \in Paid
    PROVE  /\ React(q, Message("SetLastGrenade")) = q
           /\ \A b \in Behaviors : LET n == React(q, SetBehavior(b)) IN
                 n \in Paid /\ n.spent = q.spent /\ n.grenades = q.grenades
           /\ React(q, Message("Replenish")) \in Paid
           /\ React(q, SetGesture("Reloading")) \in Paid
<1>1. q \in Man
  BY DEF Paid
<1>2. React(q, Message("SetLastGrenade")) = q
  BY Reactions
<1>3. ASSUME NEW b \in Behaviors
      PROVE  LET n == React(q, SetBehavior(b)) IN
             n \in Paid /\ n.spent = q.spent /\ n.grenades = q.grenades
  <2> DEFINE n == React(q, SetBehavior(b))
  <2>1. n = [q EXCEPT !.behavior = b]
    BY Reactions
  <2> HIDE DEF n
  <2>2. SameGrenades(q, n) /\ n.gesture = q.gesture /\ n.grenades = q.grenades
    BY <1>1, <2>1, OtherFields DEF SameGrenades
  <2>3. n \in Man
    BY <1>1, <2>1, FieldsSet, Zenon
  <2>4. n.spent = q.spent
    BY <2>2 DEF SameGrenades
  <2> QED BY <2>2, <2>3, <2>4, PaidKept DEF n
<1>4. React(q, Message("Replenish")) \in Paid
  <2> DEFINE n == React(q, Message("Replenish"))
  <2>1. n = Replenish(q)
    BY Reactions
  <2> HIDE DEF n
  <2>2. SameGrenades(q, n) /\ n.gesture = q.gesture /\ n \in Man
    BY <1>1, <2>1, SupplyFields, SupplyTyped DEF SameGrenades
  <2> QED BY <2>2, PaidKept DEF n
<1>5. React(q, SetGesture("Reloading")) \in Paid
  <2> DEFINE n == React(q, SetGesture("Reloading"))
  <2>1. n = Gesture(q, "Reloading") /\ "Reloading" \in Gestures
    BY Reactions DEF Gestures
  <2> HIDE DEF n
  <2>2. SameGrenades(q, n) /\ n.gesture = "Reloading" /\ n \in Man
    BY <1>1, <2>1, GestureFields, GestureTyped DEF SameGrenades
  <2> QED BY <2>2, PaidKept DEF n
<1> QED BY <1>2, <1>3, <1>4, <1>5

LEMMA DecisionsPay ==
    ASSUME man \in Man, NEW d \in Decisions, NEW x, Leads(man, d, x)
    PROVE  x \in Paid
<1>1. man \in Throwing
  BY ManParts DEF Throwing, Paid
<1>2. Throwing \subseteq Paid
  BY DEF Throwing
<1>3. ASSUME NEW q \in Throwing, NEW b \in Behaviors, NEW y, Leads(q, Behave(b), y)
      PROVE  y \in Throwing
  <2>1. CASE Behave(b) = <<>>
    BY <1>3, <2>1, LeadsShortly
  <2>2. CASE Behave(b) = <<SetBehavior(b)>>
    <3>1. y = React(q, SetBehavior(b))
      <4> DEFINE e == SetBehavior(b)
      <4>1. Leads(q, <<e>>, y)
        BY <1>3, <2>2
      <4> HIDE DEF e
      <4>2. y = React(q, e)
        BY <4>1, LeadsOnce
      <4> QED BY <4>2 DEF e
    <3>2. y \in Paid /\ y.spent = q.spent /\ y.grenades = q.grenades
      BY <1>2, <1>3, <3>1, CalmIsPaid
    <3> QED BY <1>3, <3>2 DEF Throwing
  <2> QED BY <2>1, <2>2 DEF Behave
<1>4. ASSUME NEW q \in Throwing, NEW s \in Breach \cup Target, NEW y, Leads(q, s, y)
      PROVE  y \in Throwing
  <2>1. CASE s = <<>>
    BY <1>4, <2>1, LeadsShortly
  <2>2. CASE man.grenades > 0 /\ s = Throw \o <<Message("SetLastGrenade")>>
    <3>1. PICK z : Leads(q, Throw, z) /\ Leads(z, <<Message("SetLastGrenade")>>, y)
      BY <1>4, <2>2, DecisionParts, LeadsThrough
    <3>2. z \in Throwing
      BY <1>4, <2>2, <3>1, ThrowsArePaid
    <3>3. y = React(z, Message("SetLastGrenade"))
      BY <3>1, LeadsShortly
    <3> QED BY <1>2, <3>2, <3>3, CalmIsPaid
  <2> QED BY <2>1, <2>2 DEF Breach, Target
<1>5. {"Other", "Idle"} \subseteq Behaviors
  BY DEF Behaviors
<1>6. CASE d \in Panic
  <2>1. CASE d = Behave("Other")
    BY <1>1, <1>2, <1>3, <1>5, <2>1
  <2>2. CASE man.grenades > 0 /\ d = Throw \o Behave("Other")
    <3>1. PICK z : Leads(man, Throw, z) /\ Leads(z, Behave("Other"), x)
      BY <1>5, <2>2, DecisionParts, LeadsThrough
    <3>2. z \in Throwing
      BY <1>1, <2>2, <3>1, ThrowsArePaid
    <3> QED BY <1>2, <1>3, <1>5, <3>1, <3>2
  <2> QED BY <1>6, <2>1, <2>2 DEF Panic
<1>7. ASSUME NEW q \in Throwing, NEW s \in Supply, NEW y, Leads(q, s, y)
      PROVE  y \in Paid
  <2> DEFINE e == Message("Replenish")
             f == SetGesture("Reloading")
  <2>1. supplies # MaxSupplies /\ s = <<e, f>> \o Behave("Idle")
    BY <1>7 DEF Supply
  <2>2. PICK z : Leads(q, <<e, f>>, z) /\ Leads(z, Behave("Idle"), y)
    BY <1>5, <1>7, <2>1, DecisionParts, LeadsThrough
  <2>3. z = React(React(q, e), f)
    <3> HIDE DEF e, f
    <3> QED BY <2>2, LeadsTwice
  <2>4. z \in Paid
    BY <1>2, <1>7, <2>3, CalmIsPaid
  <2>5. CASE Behave("Idle") = <<>>
    BY <2>2, <2>4, <2>5, LeadsShortly
  <2>6. CASE Behave("Idle") = <<SetBehavior("Idle")>>
    <3>1. y = React(z, SetBehavior("Idle"))
      <4> DEFINE h == SetBehavior("Idle")
      <4>1. Leads(z, <<h>>, y)
        BY <2>2, <2>6
      <4> HIDE DEF h
      <4>2. y = React(z, h)
        BY <4>1, LeadsOnce
      <4> QED BY <4>2 DEF h
    <3> QED BY <1>5, <2>4, <3>1, CalmIsPaid
  <2> QED BY <2>5, <2>6 DEF Behave
<1>8. ASSUME NEW b \in Breach, NEW t \in Target,
             NEW u \in Supply \cup {Behave(y) : y \in Behaviors}, d = b \o t \o u
      PROVE  x \in Paid
  <2>1. /\ b \in Seq(DecisionMessages) /\ t \in Seq(DecisionMessages)
        /\ u \in Seq(DecisionMessages) /\ b \o t \in Seq(DecisionMessages)
    BY DecisionParts, ConcatProperties
  <2>2. PICK z : Leads(man, b \o t, z) /\ Leads(z, u, x)
    BY <1>8, <2>1, LeadsThrough
  <2>3. PICK y : Leads(man, b, y) /\ Leads(y, t, z)
    BY <2>1, <2>2, LeadsThrough
  <2>4. y \in Throwing
    BY <1>1, <1>4, <2>3
  <2>5. z \in Throwing
    BY <1>4, <2>3, <2>4
  <2>6. CASE u \in Supply
    BY <1>7, <2>2, <2>5, <2>6
  <2>7. CASE \E c \in Behaviors : u = Behave(c)
    BY <1>2, <1>3, <2>2, <2>5, <2>7
  <2> QED BY <2>6, <2>7
<1>9. CASE d = <<>>
  BY <1>1, <1>2, <1>9, LeadsShortly
<1> QED BY <1>6, <1>8, <1>9, DecisionIs

LEMMA GesturesAre ==
    ASSUME man \in Man, NEW s \in GestureMessages
    PROVE  s \in Seq(GestureCalls)
<1>1. \A e, f \in GestureCalls : <<e>> \in Seq(GestureCalls) /\ <<e, f>> \in Seq(GestureCalls)
  OBVIOUS
<1>2. /\ Message("ReloadWeapon") \in GestureCalls /\ SetBehavior("Engage") \in GestureCalls
      /\ \A g \in Gestures \ {"Throwing"} : SetGesture(g) \in GestureCalls
      /\ \A n \in Nat : Shot(n) \in GestureCalls
  BY DEF GestureCalls
<1>3. Shots(man) \subseteq Nat
  <2>1. man.magazine \in Nat
    BY ManParts
  <2> QED BY <2>1, SuppliesAreNumbers DEF Shots, Lesser
<1>4. ASSUME man.gesture # "Throwing",
             NEW g \in NewGestures, g # man.gesture, s \in ToGesture(g)
      PROVE  s \in Seq(GestureCalls)
  <2>1. g \in {"Idle", "Aiming", "Reloading", "Firing"}
    BY <1>4, NewGestureIs
  <2>2. SetGesture(g) \in GestureCalls
    BY <1>2, <2>1 DEF Gestures
  <2>3. CASE g = "Reloading"
    BY <1>1, <1>2, <1>4, <2>2, <2>3 DEF ToGesture
  <2>4. CASE g = "Firing"
    <3>1. PICK k \in Shots(man) : s = <<Shot(k), SetGesture(g)>>
      BY <1>4, <2>4 DEF ToGesture
    <3> QED BY <1>1, <1>2, <1>3, <2>2, <3>1
  <2>5. CASE g \in {"Idle", "Aiming"}
    BY <1>1, <1>4, <2>2, <2>5 DEF ToGesture
  <2> QED BY <2>1, <2>3, <2>4, <2>5
<1>5. <<>> \in Seq(GestureCalls)
  OBVIOUS
<1> QED BY <1>1, <1>2, <1>4, <1>5, GestureMessagesAre

LEMMA GesturesPay ==
    ASSUME man \in Man, NEW m \in Paid, NEW s \in GestureMessages, NEW x, Leads(m, s, x)
    PROVE  x \in Paid
<1>1. ASSUME NEW q \in Paid, NEW e \in GestureCalls
      PROVE  React(q, e) \in Paid
  <2> DEFINE n == React(q, e)
  <2>1. q \in Man
    BY DEF Paid
  <2>2. n \in Man
    BY <2>1, MessagesAreTyped
  <2>3. ASSUME SameGrenades(q, n), n.gesture = "Throwing" => q.gesture = "Throwing"
        PROVE  n \in Paid
    <3> HIDE DEF n
    <3>1. n \in Man
      BY <2>2 DEF n
    <3> QED BY <2>3, <3>1, PaidKept
  <2>4. ASSUME NEW g \in Gestures \ {"Throwing"}, e = SetGesture(g)
        PROVE  n \in Paid
    <3>1. n = Gesture(q, g)
      BY <2>4, Reactions
    <3> HIDE DEF n
    <3>2. SameGrenades(q, n) /\ n.gesture = g
      BY <2>1, <3>1, GestureFields DEF SameGrenades
    <3> QED BY <2>3, <2>4, <3>2
  <2>5. ASSUME NEW k \in Nat, e = Shot(k)
        PROVE  n \in Paid
    <3>1. n = WeaponShot(q, k)
      BY <2>5, Reactions
    <3> HIDE DEF n
    <3>2. SameGrenades(q, n) /\ n.gesture = q.gesture
      BY <2>1, <3>1, WeaponFields
    <3> QED BY <2>3, <3>2
  <2>6. CASE e = Message("ReloadWeapon")
    <3>1. n = ReloadWeapon(q)
      BY <2>6, Reactions
    <3> HIDE DEF n
    <3>2. SameGrenades(q, n) /\ n.gesture = q.gesture
      BY <2>1, <3>1, WeaponFields
    <3> QED BY <2>3, <3>2 DEF n
  <2>7. CASE e = SetBehavior("Engage")
    BY <2>7, CalmIsPaid DEF Behaviors
  <2> QED BY <2>4, <2>5, <2>6, <2>7 DEF GestureCalls
<1>2. s \in Seq(GestureCalls)
  BY GesturesAre
<1> QED BY <1>1, <1>2, LeadsWithin

LEMMA EndsPay ==
    ASSUME man \in Man, Thrown(man), NEW m \in Paid, NEW x, Leads(m, ThrowEnds, x)
    PROVE  x \in Man /\ Thrown(x)
<1>1. /\ m \in Man /\ m.exploded = man.exploded /\ m.spent >= man.spent
      /\ m.gesture = "Throwing" => man.gesture = "Throwing" \/ m.spent > man.spent
  BY DEF Paid
<1>2. /\ man.exploded \in Nat /\ man.spent \in Nat /\ m.exploded \in Nat /\ m.spent \in Nat
  BY <1>1, ManParts
<1>3. CASE ThrowEnds = <<>>
  <2>1. x = m
    BY <1>3, LeadsShortly
  <2>2. Thrown(m)
    BY <1>1, <1>2 DEF Thrown
  <2> QED BY <1>1, <2>1, <2>2
<1>4. CASE man.gesture = "Throwing" /\ ThrowEnds = Explosion
  <2> DEFINE e == Message("PushExplosion")
             f == SetGesture("Idle")
             h == Message("SetLastGrenade")
             s == <<e, f>>
             t == <<h>>
             p == [m EXCEPT !.exploded = @ + 1]
             q == Gesture(p, "Idle")
  <2>1. s \in Seq({e, f, h}) /\ t \in Seq({e, f, h}) /\ ThrowEnds = s \o t
    <3>1. Explosion = s \o t
      BY DEF Explosion
    <3>2. s \in Seq({e, f, h}) /\ t \in Seq({e, f, h})
      OBVIOUS
    <3> QED BY <1>4, <3>1, <3>2
  <2>2. PICK z : Leads(m, s, z) /\ Leads(z, t, x)
    <3> DEFINE S == {e, f, h}
    <3>1. s \in Seq(S) /\ t \in Seq(S) /\ Leads(m, s \o t, x)
      BY <2>1
    <3> HIDE DEF S, s, t
    <3> QED BY <3>1, LeadsThrough
  <2>3. z = q
    <3>1. React(m, e) = p /\ React(p, f) = q
      BY Reactions
    <3> HIDE DEF e, f, p, q
    <3>2. z = React(React(m, e), f)
      BY <2>2, LeadsTwice
    <3> QED BY <3>1, <3>2
  <2>4. x = z
    <3>1. React(z, h) = z
      BY Reactions
    <3> HIDE DEF h
    <3>2. x = React(z, h)
      BY <2>2, LeadsOnce
    <3> QED BY <3>1, <3>2
  <2>5. p \in Man /\ p.exploded = m.exploded + 1 /\ p.spent = m.spent
    <3>1. m.exploded + 1 \in Nat
      BY <1>2
    <3>2. \A n \in Nat : [m EXCEPT !.exploded = n] \in Man
      BY <1>1, FieldsSet
    <3>3. p \in Man
      BY <3>1, <3>2
    <3> QED BY <1>1, <3>3, OtherFields
  <2> HIDE DEF p
  <2>6. "Idle" \in Gestures
    BY DEF Gestures
  <2>7. q \in Man /\ q.gesture = "Idle" /\ q.exploded = p.exploded /\ q.spent = p.spent
    BY <2>5, <2>6, GestureFields, GestureTyped
  <2> HIDE DEF q
  <2>8. Thrown(q)
    BY <1>1, <1>2, <1>4, <2>5, <2>7 DEF Thrown
  <2> QED BY <2>3, <2>4, <2>7, <2>8
<1> QED BY <1>3, <1>4 DEF ThrowEnds

LEMMA DeathKeepsThrown ==
    ASSUME NEW m \in Man, Thrown(m), NEW x, Leads(m, Death, x)
    PROVE  Thrown(x)
<1> DEFINE e == Message("SetAlive")
           f == SetBehavior("Dead")
           p == [m EXCEPT !.alive = FALSE]
           q == [p EXCEPT !.behavior = "Dead"]
<1>1. x = q
  <2>1. React(m, e) = p /\ React(p, f) = q
    BY Reactions
  <2>2. Leads(m, <<e, f>>, x)
    BY DEF Death
  <2> HIDE DEF e, f, p, q
  <2>3. x = React(React(m, e), f)
    BY <2>2, LeadsTwice
  <2> QED BY <2>1, <2>3
<1>2. /\ p \in Man /\ p.exploded = m.exploded /\ p.spent = m.spent /\ p.gesture = m.gesture
  BY FieldsSet, OtherFields
<1> HIDE DEF p
<1>3. /\ q.exploded = p.exploded /\ q.spent = p.spent /\ q.gesture = p.gesture
  BY <1>2, OtherFields
<1> QED BY <1>1, <1>2, <1>3 DEF Thrown

-----------------------------------------------------------------------------
(* Ticks, whole.                                                           *)

AllMessages == DecisionMessages \cup GestureCalls \cup EndMessages

LEMMA PartsOfTicks ==
    ASSUME man \in Man, NEW d \in Decisions, NEW g \in GestureMessages
    PROVE  /\ d \in Seq(AllMessages) /\ g \in Seq(AllMessages)
           /\ ThrowEnds \in Seq(AllMessages) /\ Death \in Seq(AllMessages)
           /\ d \o g \in Seq(AllMessages) /\ d \o g \o ThrowEnds \in Seq(AllMessages)
           /\ d \o g \o ThrowEnds \o Death \in Seq(AllMessages)
<1>1. \A S \in {DecisionMessages, GestureCalls, EndMessages} : Seq(S) \subseteq Seq(AllMessages)
  <2>1. \A S, T : S \subseteq T => Seq(S) \subseteq Seq(T)
    OBVIOUS
  <2> QED BY <2>1 DEF AllMessages
<1>2. /\ d \in Seq(AllMessages) /\ g \in Seq(AllMessages)
      /\ ThrowEnds \in Seq(AllMessages) /\ Death \in Seq(AllMessages)
  BY <1>1, DecisionsAre, GesturesAre, EndsAre
<1>3. \A s, t \in Seq(AllMessages) : s \o t \in Seq(AllMessages)
  BY ConcatProperties
<1>4. d \o g \in Seq(AllMessages)
  BY <1>2, <1>3
<1>5. d \o g \o ThrowEnds \in Seq(AllMessages)
  BY <1>2, <1>3, <1>4
<1>6. d \o g \o ThrowEnds \o Death \in Seq(AllMessages)
  BY <1>2, <1>3, <1>5
<1> QED BY <1>2, <1>4, <1>5, <1>6

Fine(m) == m \in Sound /\ Thrown(m)

LEMMA EndsAreFine ==
    ASSUME Fine(man), NEW m \in Sound, m \in Paid, NEW x, Leads(m, ThrowEnds, x)
    PROVE  Fine(x)
<1>1. man \in Man /\ Thrown(man)
  BY DEF Fine, Sound
<1>2. Thrown(x)
  BY <1>1, EndsPay
<1>3. x \in Sound
  BY EndsAre, DuringEnds
<1> QED BY <1>2, <1>3 DEF Fine

LEMMA TicksAreFine ==
    ASSUME Fine(man), NEW d \in Decisions, NEW g \in GestureMessages,
           NEW x, Leads(man, d \o g \o ThrowEnds, x)
    PROVE  Fine(x)
<1>1. man \in Man /\ Balance(man) /\ Owed(man)
  BY DEF Fine, Sound
<1>2. PICK z : Leads(man, d \o g, z) /\ Leads(z, ThrowEnds, x)
  BY <1>1, PartsOfTicks, LeadsThrough
<1>3. PICK y : Leads(man, d, y) /\ Leads(y, g, z)
  BY <1>1, <1>2, PartsOfTicks, LeadsThrough
<1>4. y \in Undecided(man)
  BY <1>1, <1>3, DuringDecisions
<1>5. y \in Paid
  BY <1>1, <1>3, DecisionsPay
<1>6. z \in Sound
  BY <1>1, <1>3, <1>4, DuringGestures
<1>7. z \in Paid
  BY <1>1, <1>3, <1>5, GesturesPay
<1> QED BY <1>2, <1>6, <1>7, EndsAreFine

LEMMA DeathIsFine ==
    ASSUME NEW m, Fine(m), NEW x, Leads(m, Death, x)
    PROVE  Fine(x)
<1>1. m \in Sound /\ m \in Man /\ Thrown(m)
  BY DEF Fine, Sound
<1>2. x \in Sound
  BY <1>1, EndsAre, DuringEnds
<1>3. Thrown(x)
  BY <1>1, DeathKeepsThrown
<1> QED BY <1>2, <1>3 DEF Fine

(* What applying messages does besides.                                    *)
LEMMA Applied ==
    ASSUME TypeOK, NEW messages \in Seq(AllMessages), Apply(messages)
    PROVE  /\ Leads(man, messages, man')
           /\ sight' \in BOOLEAN /\ ended' \in BOOLEAN /\ peeking' \in BOOLEAN
           /\ cooling' \in 0..2 /\ supplies' \in 0..MaxSupplies
<1>1. Leads(man, messages, man')
  BY FoldLeads DEF Apply
<1>2. Has(messages, "Replenish") => supplies # MaxSupplies
  <2> SUFFICES ASSUME NEW i \in DOMAIN messages, messages[i].kind = "Replenish"
               PROVE  supplies # MaxSupplies
    BY DEF Has
  <2>1. messages[i] \in AllMessages
    BY ElementOfSeq
  <2> QED BY <2>1 DEF AllMessages, DecisionMessages, GestureCalls, EndMessages,
                      Message, SetGesture, SetBehavior, Shot
<1>3. supplies' \in 0..MaxSupplies
  <2>1. supplies' = supplies + (IF Has(messages, "Replenish") THEN 1 ELSE 0)
        /\ supplies \in 0..MaxSupplies
    BY DEF Apply, TypeOK
  <2>2. MaxSupplies \in Nat
    BY SuppliesAreNumbers
  <2> QED BY <1>2, <2>1, <2>2
<1>4. sight' \in BOOLEAN /\ ended' \in BOOLEAN /\ peeking' \in BOOLEAN /\ cooling' \in 0..2
  <2>1. sight' \in BOOLEAN
    BY DEF Apply, TypeOK
  <2>2. ended' \in BOOLEAN /\ peeking' \in BOOLEAN
    BY DEF Apply, TypeOK
  <2>3. cooling' \in 0..2
    BY DEF Apply, TypeOK
  <2> QED BY <2>1, <2>2, <2>3
<1> QED BY <1>1, <1>3, <1>4

LEMMA FineIs ==
    /\ CombatInv <=> TypeOK /\ Fine(man)
    /\ CombatInv' <=> TypeOK' /\ Fine(man')
BY DEF CombatInv, TypeOK, Fine, Sound, Thrown, Balance, Owed, RoundsAccounted,
       UnloadedShotsFollowReloading, ShotOwed, GrenadesAccounted

LEMMA InitFine == Init => CombatInv
<1> SUFFICES ASSUME Init PROVE CombatInv
  OBVIOUS
<1>1. PICK k \in Kinds, r \in BOOLEAN, s \in 0..Spares, g \in 0..Grenades :
        man = [kind |-> k, alive |-> TRUE, player |-> FALSE,
               behavior |-> "Idle", gesture |-> "Idle",
               ready |-> r, magazine |-> Rounds, stock |-> s,
               grenades |-> g,
               issued |-> Rounds * (1 + s) + (IF r THEN 1 ELSE 0),
               fired |-> 0, unloaded |-> 0, blanks |-> 0,
               spent |-> 0, exploded |-> 0]
  BY DEF Init
<1>2. s \in Nat /\ Rounds \in Nat /\ 0 \in Nat /\ Rounds \in 0..Rounds
  BY SuppliesAreNumbers
<1>3. Rounds * (1 + s) = Rounds + Rounds * s /\ Rounds * s \in Nat
  <2>1. \A a, b \in Int : a * (1 + b) = a + a * b
    OBVIOUS
  <2>2. Rounds \in Int /\ s \in Int
    BY <1>2
  <2> QED BY <1>2, <2>1, <2>2, Products
<1> DEFINE a == Rounds * s
           i == Rounds * (1 + s) + (IF r THEN 1 ELSE 0)
<1>4. a \in Nat /\ i = Rounds + a + (IF r THEN 1 ELSE 0)
  BY <1>3
<1>5. i \in Nat
  <2> HIDE DEF a, i
  <2> QED BY <1>2, <1>4
<1>6. man.gesture = "Idle" /\ man.ready = r /\ man.magazine = Rounds /\ man.stock = s
      /\ man.issued = i /\ man.fired = 0 /\ man.unloaded = 0 /\ man.blanks = 0
      /\ man.spent = 0 /\ man.exploded = 0
  BY <1>1
<1>7. man \in Man
  <2>1. "Idle" \in Behaviors \cup {"Dead"} /\ "Idle" \in Gestures
    BY DEF Behaviors, Gestures
  <2> HIDE DEF i
  <2> DEFINE rookie == [kind |-> k, alive |-> TRUE, player |-> FALSE,
                        behavior |-> "Idle", gesture |-> "Idle",
                        ready |-> r, magazine |-> Rounds, stock |-> s,
                        grenades |-> g, issued |-> i,
                        fired |-> 0, unloaded |-> 0, blanks |-> 0,
                        spent |-> 0, exploded |-> 0]
  <2>2. man = rookie
    BY <1>1 DEF i
  <2>3. /\ k \in Kinds /\ r \in BOOLEAN /\ s \in 0..Spares /\ g \in 0..Grenades
        /\ TRUE \in BOOLEAN /\ FALSE \in BOOLEAN
    OBVIOUS
  <2>4. rookie \in Man
    BY <1>2, <1>5, <2>1, <2>3, Zenon DEF Man
  <2> HIDE DEF rookie
  <2> QED BY <2>2, <2>4
<1>8. TypeOK
  <2>1. /\ sight = FALSE /\ ended = FALSE /\ cooling = 0 /\ peeking = FALSE /\ supplies = 0
    BY DEF Init
  <2>2. 0 \in 0..2 /\ 0 \in 0..MaxSupplies
    BY SuppliesAreNumbers
  <2>3. sight \in BOOLEAN /\ ended \in BOOLEAN /\ peeking \in BOOLEAN
        /\ cooling \in 0..2 /\ supplies \in 0..MaxSupplies
    BY <2>1, <2>2
  <2> QED BY <1>7, <2>3, Zenon DEF TypeOK
<1>9. Balance(man)
  <2>1. Balance(man) <=> 0 + (IF r THEN 1 ELSE 0) + Rounds + a = i + 0
    BY <1>6 DEF Balance
  <2> HIDE DEF a, i
  <2> QED BY <1>2, <1>4, <2>1
<1>10. Owed(man) /\ Thrown(man)
  BY <1>6 DEF Owed, Thrown
<1> QED BY <1>7, <1>8, <1>9, <1>10, FineIs DEF Fine, Sound

(* The steps that are no tick set the order of a player or the behavior,   *)
(* or leave the soldier alone.                                             *)
LEMMA OthersAreFine ==
    ASSUME Fine(man), NEW n \in Man, SameRounds(man, n), SameGrenades(man, n),
           n.gesture = man.gesture, n.blanks = man.blanks
    PROVE  Fine(n)
<1>1. man \in Man /\ Balance(man) /\ Owed(man) /\ Thrown(man)
  BY DEF Fine, Sound
<1>2. Balance(n) /\ CanFire(n) = CanFire(man) /\ n.unloaded = man.unloaded
  BY <1>1, SameRoundsBalance, SameWeaponFires DEF SameRounds
<1>3. Owed(n)
  BY <1>1, <1>2 DEF Owed
<1>4. Thrown(n)
  BY <1>1 DEF Thrown, SameGrenades
<1> QED BY <1>2, <1>3, <1>4 DEF Fine, Sound

LEMMA StepsAreFine == CombatInv /\ [Next]_vars => CombatInv'
<1> SUFFICES ASSUME CombatInv, [Next]_vars PROVE CombatInv'
  OBVIOUS
<1>1. TypeOK /\ Fine(man) /\ man \in Man
  BY FineIs DEF TypeOK
<1>2. ASSUME NEW messages \in Seq(AllMessages), Apply(messages),
             \A x : Leads(man, messages, x) => Fine(x)
      PROVE  CombatInv'
  <2>1. /\ Leads(man, messages, man')
        /\ sight' \in BOOLEAN /\ ended' \in BOOLEAN /\ peeking' \in BOOLEAN
        /\ cooling' \in 0..2 /\ supplies' \in 0..MaxSupplies
    BY <1>1, <1>2, Applied
  <2>2. Fine(man')
    BY <1>2, <2>1
  <2>3. TypeOK'
    BY <2>1, <2>2 DEF TypeOK, Fine, Sound
  <2> QED BY <2>2, <2>3, FineIs
<1>3. CASE Animate
  <2>1. PICK d \in Decisions, g \in GestureMessages : Apply(d \o g \o ThrowEnds)
    BY <1>3 DEF Animate
  <2>2. d \o g \o ThrowEnds \in Seq(AllMessages)
    BY <1>1, PartsOfTicks
  <2>3. \A x : Leads(man, d \o g \o ThrowEnds, x) => Fine(x)
    BY <1>1, TicksAreFine
  <2> QED BY <1>2, <2>1, <2>2, <2>3
<1>4. CASE Update
  <2>1. ThrowEnds \in Seq(AllMessages)
    <3>1. Seq(EndMessages) \subseteq Seq(AllMessages)
      BY DEF AllMessages
    <3> QED BY <3>1, EndsAre
  <2>2. man \in Sound /\ man \in Paid
    BY <1>1, ManParts DEF Fine, Paid
  <2>3. \A x : Leads(man, ThrowEnds, x) => Fine(x)
    BY <1>1, <2>2, EndsAreFine
  <2> QED BY <1>2, <1>4, <2>1, <2>3 DEF Update
<1>5. CASE AnimateAndDie
  <2>1. PICK d \in Decisions, g \in GestureMessages : Apply(d \o g \o ThrowEnds \o Death)
    BY <1>5 DEF AnimateAndDie
  <2>2. /\ d \o g \o ThrowEnds \o Death \in Seq(AllMessages)
        /\ d \o g \o ThrowEnds \in Seq(AllMessages) /\ Death \in Seq(AllMessages)
    BY <1>1, PartsOfTicks
  <2>3. ASSUME NEW x, Leads(man, d \o g \o ThrowEnds \o Death, x)
        PROVE  Fine(x)
    <3>1. PICK y : Leads(man, d \o g \o ThrowEnds, y) /\ Leads(y, Death, x)
      BY <2>2, <2>3, LeadsThrough
    <3>2. Fine(y)
      BY <1>1, <3>1, TicksAreFine
    <3> QED BY <3>1, <3>2, DeathIsFine
  <2> QED BY <1>2, <2>1, <2>2, <2>3
<1>6. ASSUME NEW n \in Man, man' = n, SameRounds(man, n), SameGrenades(man, n),
             n.gesture = man.gesture, n.blanks = man.blanks,
             UNCHANGED <<sight, ended, cooling, peeking, supplies>>
      PROVE  CombatInv'
  <2>1. Fine(man')
    BY <1>1, <1>6, OthersAreFine
  <2>2. TypeOK'
    BY <1>1, <1>6 DEF TypeOK
  <2> QED BY <2>1, <2>2, FineIs
<1>7. CASE PlayerOrder
  <2> DEFINE n == [man EXCEPT !.player = TRUE]
  <2>1. n \in Man /\ SameRounds(man, n) /\ SameGrenades(man, n)
        /\ n.gesture = man.gesture /\ n.blanks = man.blanks
    BY <1>1, FieldsSet, OtherFields DEF SameGrenades
  <2>2. man' = n /\ UNCHANGED <<sight, ended, cooling, peeking, supplies>>
    BY <1>7 DEF PlayerOrder
  <2> HIDE DEF n
  <2> QED BY <1>6, <2>1, <2>2
<1>8. CASE MovedOn
  <2>1. PICK b \in Behaviors : man' = [man EXCEPT !.behavior = b]
    BY <1>8 DEF MovedOn
  <2> DEFINE n == [man EXCEPT !.behavior = b]
  <2>2. \A c \in Behaviors \cup {"Dead"} : [man EXCEPT !.behavior = c] \in Man
    BY <1>1, FieldsSet
  <2>3. n \in Man
    BY <2>2
  <2>4. SameRounds(man, n) /\ SameGrenades(man, n)
        /\ n.gesture = man.gesture /\ n.blanks = man.blanks
    BY <1>1, OtherFields DEF SameGrenades
  <2>5. man' = n /\ UNCHANGED <<sight, ended, cooling, peeking, supplies>>
    BY <1>8, <2>1 DEF MovedOn
  <2> HIDE DEF n
  <2> QED BY <1>6, <2>3, <2>4, <2>5
<1>9. ASSUME UNCHANGED man, TypeOK' PROVE CombatInv'
  BY <1>1, <1>9, FineIs
<1>10. CASE Sight
  BY <1>1, <1>9, <1>10 DEF Sight, TypeOK
<1>11. CASE GestureEnds
  BY <1>1, <1>9, <1>11 DEF GestureEnds, TypeOK
<1>12. CASE CoolsDown
  <2>1. UNCHANGED <<man, sight, ended, peeking, supplies>> /\ cooling' \in 0..2
    BY <1>1, <1>12 DEF CoolsDown, TypeOK
  <2> QED BY <1>1, <1>9, <2>1 DEF TypeOK
<1>13. CASE LooksUp
  BY <1>1, <1>9, <1>13 DEF LooksUp, TypeOK
<1>14. CASE UNCHANGED vars
  BY <1>1, <1>9, <1>14 DEF vars, TypeOK
<1> QED BY <1>3, <1>4, <1>5, <1>7, <1>8, <1>10, <1>11, <1>12, <1>13, <1>14 DEF Next

-----------------------------------------------------------------------------
(* The inductive invariant: the rounds and the grenades are accounted for, *)
(* and a weapon with nothing to fire is reloaded or aimed only while a     *)
(* reloading that left it so has not had its shot, in every tick, whatever *)
(* soldier_behavior, soldier_gesture and update_soldier send together.     *)
THEOREM CombatInvariant == Spec => []CombatInv
BY InitFine, StepsAreFine, PTL DEF Spec

(* The gesture, the weapon and the supplies stay in their ranges: no       *)
(* message of a tick takes a magazine, a grenade or a supply that is not   *)
(* there (Soldier::reload_weapon, weapon_shot, throw_grenade).             *)
THEOREM TypesKept == Spec => []TypeOK
<1>1. CombatInv => TypeOK
  BY DEF CombatInv
<1> QED BY <1>1, CombatInvariant, PTL

(* Weapon::reload, Soldier::weapon_shot and replenish_ammunition lose no   *)
(* bullet and make none up: those issued are fired, loaded or in stock,    *)
(* the shots of an empty weapon being the only others.                     *)
THEOREM RoundsAreAccounted == Spec => []RoundsAccounted
<1>1. CombatInv => RoundsAccounted
  BY DEF CombatInv
<1> QED BY <1>1, CombatInvariant, PTL

(* A weapon with nothing to fire is fired only after a reloading of        *)
(* new_gesture_messages or of the checkpoint's supply that left it so,     *)
(* once for each.                                                          *)
THEOREM EmptyShotsFollowReloading == Spec => []UnloadedShotsFollowReloading
<1>1. CombatInv => UnloadedShotsFollowReloading
  BY DEF CombatInv
<1> QED BY <1>1, CombatInvariant, PTL

(* Every explosion, and the throw under way, has cost a grenade, though    *)
(* soldier_behavior may decide two throws in a tick, soldier_gesture take  *)
(* up another gesture and update_soldier end the throw of before.          *)
THEOREM GrenadesAreAccounted == Spec => []GrenadesAccounted
<1>1. CombatInv => GrenadesAccounted
  BY DEF CombatInv
<1> QED BY <1>1, CombatInvariant, PTL
=============================================================================
