-------------------------- MODULE CommandPostProofs --------------------------
(***************************************************************************)
(* For any squads, places of the cursor and number of events in a frame:   *)
(* an order goes where the player clicked, and nobody is placed by hand    *)
(* once the battle goes on but who was held when it began.                 *)
(*                                                                         *)
(* A frame folds Answered over its events, and Applied over the messages   *)
(* these make.  The first section takes such folds apart into steps.  The  *)
(* second says of each event what messages it may make (Made), the third   *)
(* what a frame makes of all of them and leaves behind.                    *)
(***************************************************************************)
EXTENDS CommandPost, SequenceTheorems, WellFoundedInduction, TLAPS

-----------------------------------------------------------------------------
(* One after the other.                                                    *)

LEMMA MaxOfPlaces ==
    ASSUME NEW k \in Nat, NEW p, p \subseteq 1..k, k \in p
    PROVE  Max(p) = k
<1>1. \A x \in p : x \in Nat /\ k >= x
  OBVIOUS
<1>2. \E x \in p : \A y \in p : x >= y
  BY <1>1
<1>3. PICK z \in p : z = Max(p) /\ \A y \in p : z >= y
  BY <1>2 DEF Max
<1>4. z \in Nat /\ k >= z /\ z >= k
  BY <1>1, <1>3
<1> QED BY <1>3, <1>4

(* The function that FoldLeft computes from Answered, over sets of places. *)
AnswersFold(g, m, s, P) ==
    g = [p \in SUBSET P |-> IF p = {} THEN m ELSE Answered(g[p \ {Max(p)}], s[Max(p)])]

LEMMA AnsweringEnds ==
    ASSUME NEW m, NEW s, NEW n \in Nat
    PROVE  \E g : AnswersFold(g, m, s, 1..n)
<1> DEFINE T == {k \in Nat : ~ \E g : AnswersFold(g, m, s, 1..k)}
<1> SUFFICES ASSUME T # {} PROVE FALSE
  OBVIOUS
<1>1. PICK k \in T : \A j \in T : ~ (<<j, k>> \in OpToRel(<, Nat))
  BY NatLessThanWellFounded, WFMin
<1>2. k # 0
  <2>1. SUBSET (1..0) = {{}}
    OBVIOUS
  <2>2. AnswersFold([p \in SUBSET (1..0) |-> m], m, s, 1..0)
    <3> DEFINE f == [p \in SUBSET (1..0) |-> m]
               f2 == [p \in SUBSET (1..0) |->
                       IF p = {} THEN m ELSE Answered(f[p \ {Max(p)}], s[Max(p)])]
    <3>1. f = f2
      BY <2>1
    <3> HIDE DEF f
    <3> QED BY <3>1 DEF AnswersFold
  <2> QED BY <1>1, <2>2
<1>3. k \in Nat \ {0}
  <2>1. T \subseteq Nat
    OBVIOUS
  <2> HIDE DEF T
  <2> QED BY <1>1, <1>2, <2>1
<1>4. PICK g : AnswersFold(g, m, s, 1..(k - 1))
  <2>1. k \in Nat /\ k - 1 \in Nat /\ k - 1 < k
    BY <1>3
  <2>2. <<k - 1, k>> \in OpToRel(<, Nat)
    BY <2>1 DEF OpToRel
  <2>3. k - 1 \notin T
    BY <1>1, <2>2
  <2> QED BY <2>1, <2>3
<1> DEFINE h == [p \in SUBSET (1..k) |->
                   IF p \in SUBSET (1..(k - 1)) THEN g[p]
                   ELSE Answered(g[p \ {k}], s[k])]
<1>5. ASSUME NEW p \in SUBSET (1..k)
      PROVE  h[p] = IF p = {} THEN m ELSE Answered(h[p \ {Max(p)}], s[Max(p)])
  <2>1. CASE p \in SUBSET (1..(k - 1))
    <3>1. h[p] = g[p] /\ p \ {Max(p)} \in SUBSET (1..(k - 1))
          /\ p \ {Max(p)} \in SUBSET (1..k)
      BY <2>1, <1>5
    <3>2. h[p \ {Max(p)}] = g[p \ {Max(p)}]
      BY <3>1
    <3>3. g[p] = IF p = {} THEN m ELSE Answered(g[p \ {Max(p)}], s[Max(p)])
      BY <1>4, <2>1 DEF AnswersFold
    <3> QED BY <3>1, <3>2, <3>3
  <2>2. CASE p \notin SUBSET (1..(k - 1))
    <3>0. 1..k = (1..(k - 1)) \cup {k}
      BY <1>3
    <3>1. k \in p /\ p # {}
      BY <2>2, <1>3, <1>5, <3>0
    <3>2. Max(p) = k
      BY <3>1, <1>5, <1>3, MaxOfPlaces
    <3>3. p \ {k} \in SUBSET (1..(k - 1)) /\ p \ {k} \in SUBSET (1..k)
      BY <1>3, <1>5, <3>0
    <3>4. h[p \ {k}] = g[p \ {k}]
      BY <3>3
    <3> QED BY <2>2, <3>1, <3>2, <3>4, <1>5
  <2> QED BY <2>1, <2>2
<1>6. AnswersFold(h, m, s, 1..k)
  <2> DEFINE f == [p \in SUBSET (1..k) |->
                     IF p = {} THEN m ELSE Answered(h[p \ {Max(p)}], s[Max(p)])]
  <2>1. \A p \in SUBSET (1..k) : h[p] = f[p]
    BY <1>5
  <2>2. h = f
    BY <2>1
  <2> HIDE DEF h
  <2> QED BY <2>2 DEF AnswersFold
<1> QED BY <1>1, <1>6

(* From the lists m, answering the events s leads to the lists n.          *)
Answers(m, s, n) ==
    \E A : /\ A[0] = m /\ A[Len(s)] = n
           /\ \A k \in 1..Len(s) : A[k] = Answered(A[k - 1], s[k])

LEMMA FrameAnswers ==
    ASSUME NEW m, NEW S, NEW s \in Seq(S)
    PROVE  Answers(m, s, FoldLeft(Answered, m, s))
<1> DEFINE n == Len(s)
           iter == CHOOSE g : AnswersFold(g, m, s, 1..n)
           A == [k \in 0..n |-> iter[1..k]]
<1>1. n \in Nat /\ DOMAIN s = 1..n
  OBVIOUS
<1> HIDE DEF n
<1>2. AnswersFold(iter, m, s, 1..n)
  BY <1>1, AnsweringEnds
<1>3. FoldLeft(Answered, m, s) = iter[1..n]
  BY <1>1 DEF FoldLeft, MapThenFoldSet, AnswersFold
<1>4. \A p \in SUBSET (1..n) :
        iter[p] = IF p = {} THEN m ELSE Answered(iter[p \ {Max(p)}], s[Max(p)])
  <2> HIDE DEF iter
  <2> QED BY <1>2 DEF AnswersFold
<1> HIDE DEF iter
<1>5. A[0] = m
  <2>1. 1..0 = {} /\ 0 \in 0..n
    BY <1>1
  <2> QED BY <2>1, <1>4
<1>6. ASSUME NEW k \in 1..n PROVE A[k] = Answered(A[k - 1], s[k])
  <2>1. k \in Nat /\ k \in 1..k /\ 1..k \in SUBSET (1..n) /\ (1..k) \ {k} = 1..(k - 1)
        /\ k - 1 \in 0..n /\ k \in 0..n
    BY <1>1
  <2>2. Max(1..k) = k
    BY <2>1, MaxOfPlaces
  <2> QED BY <2>1, <2>2, <1>4
<1>7. A[n] = iter[1..n]
  BY <1>1
<1> HIDE DEF A
<1> QED BY <1>3, <1>5, <1>6, <1>7 DEF Answers, n

(* The same for Applied.                                                   *)
AppliesFold(g, m, s, P) ==
    g = [p \in SUBSET P |-> IF p = {} THEN m ELSE Applied(g[p \ {Max(p)}], s[Max(p)])]

LEMMA ApplyingEnds ==
    ASSUME NEW m, NEW s, NEW n \in Nat
    PROVE  \E g : AppliesFold(g, m, s, 1..n)
<1> DEFINE T == {k \in Nat : ~ \E g : AppliesFold(g, m, s, 1..k)}
<1> SUFFICES ASSUME T # {} PROVE FALSE
  OBVIOUS
<1>1. PICK k \in T : \A j \in T : ~ (<<j, k>> \in OpToRel(<, Nat))
  BY NatLessThanWellFounded, WFMin
<1>2. k # 0
  <2>1. SUBSET (1..0) = {{}}
    OBVIOUS
  <2>2. AppliesFold([p \in SUBSET (1..0) |-> m], m, s, 1..0)
    <3> DEFINE f == [p \in SUBSET (1..0) |-> m]
               f2 == [p \in SUBSET (1..0) |->
                       IF p = {} THEN m ELSE Applied(f[p \ {Max(p)}], s[Max(p)])]
    <3>1. f = f2
      BY <2>1
    <3> HIDE DEF f
    <3> QED BY <3>1 DEF AppliesFold
  <2> QED BY <1>1, <2>2
<1>3. k \in Nat \ {0}
  <2>1. T \subseteq Nat
    OBVIOUS
  <2> HIDE DEF T
  <2> QED BY <1>1, <1>2, <2>1
<1>4. PICK g : AppliesFold(g, m, s, 1..(k - 1))
  <2>1. k \in Nat /\ k - 1 \in Nat /\ k - 1 < k
    BY <1>3
  <2>2. <<k - 1, k>> \in OpToRel(<, Nat)
    BY <2>1 DEF OpToRel
  <2>3. k - 1 \notin T
    BY <1>1, <2>2
  <2> QED BY <2>1, <2>3
<1> DEFINE h == [p \in SUBSET (1..k) |->
                   IF p \in SUBSET (1..(k - 1)) THEN g[p]
                   ELSE Applied(g[p \ {k}], s[k])]
<1>5. ASSUME NEW p \in SUBSET (1..k)
      PROVE  h[p] = IF p = {} THEN m ELSE Applied(h[p \ {Max(p)}], s[Max(p)])
  <2>1. CASE p \in SUBSET (1..(k - 1))
    <3>1. h[p] = g[p] /\ p \ {Max(p)} \in SUBSET (1..(k - 1))
          /\ p \ {Max(p)} \in SUBSET (1..k)
      BY <2>1, <1>5
    <3>2. h[p \ {Max(p)}] = g[p \ {Max(p)}]
      BY <3>1
    <3>3. g[p] = IF p = {} THEN m ELSE Applied(g[p \ {Max(p)}], s[Max(p)])
      BY <1>4, <2>1 DEF AppliesFold
    <3> QED BY <3>1, <3>2, <3>3
  <2>2. CASE p \notin SUBSET (1..(k - 1))
    <3>0. 1..k = (1..(k - 1)) \cup {k}
      BY <1>3
    <3>1. k \in p /\ p # {}
      BY <2>2, <1>3, <1>5, <3>0
    <3>2. Max(p) = k
      BY <3>1, <1>5, <1>3, MaxOfPlaces
    <3>3. p \ {k} \in SUBSET (1..(k - 1)) /\ p \ {k} \in SUBSET (1..k)
      BY <1>3, <1>5, <3>0
    <3>4. h[p \ {k}] = g[p \ {k}]
      BY <3>3
    <3> QED BY <2>2, <3>1, <3>2, <3>4, <1>5
  <2> QED BY <2>1, <2>2
<1>6. AppliesFold(h, m, s, 1..k)
  <2> DEFINE f == [p \in SUBSET (1..k) |->
                     IF p = {} THEN m ELSE Applied(h[p \ {Max(p)}], s[Max(p)])]
  <2>1. \A p \in SUBSET (1..k) : h[p] = f[p]
    BY <1>5
  <2>2. h = f
    BY <2>1
  <2> HIDE DEF h
  <2> QED BY <2>2 DEF AppliesFold
<1> QED BY <1>1, <1>6

(* From the state m of the GUI, the messages s lead to n.                  *)
Applies(m, s, n) ==
    \E A : /\ A[0] = m /\ A[Len(s)] = n
           /\ \A k \in 1..Len(s) : A[k] = Applied(A[k - 1], s[k])

LEMMA FrameApplies ==
    ASSUME NEW m, NEW S, NEW s \in Seq(S)
    PROVE  Applies(m, s, FoldLeft(Applied, m, s))
<1> DEFINE n == Len(s)
           iter == CHOOSE g : AppliesFold(g, m, s, 1..n)
           A == [k \in 0..n |-> iter[1..k]]
<1>1. n \in Nat /\ DOMAIN s = 1..n
  OBVIOUS
<1> HIDE DEF n
<1>2. AppliesFold(iter, m, s, 1..n)
  BY <1>1, ApplyingEnds
<1>3. FoldLeft(Applied, m, s) = iter[1..n]
  BY <1>1 DEF FoldLeft, MapThenFoldSet, AppliesFold
<1>4. \A p \in SUBSET (1..n) :
        iter[p] = IF p = {} THEN m ELSE Applied(iter[p \ {Max(p)}], s[Max(p)])
  <2> HIDE DEF iter
  <2> QED BY <1>2 DEF AppliesFold
<1> HIDE DEF iter
<1>5. A[0] = m
  <2>1. 1..0 = {} /\ 0 \in 0..n
    BY <1>1
  <2> QED BY <2>1, <1>4
<1>6. ASSUME NEW k \in 1..n PROVE A[k] = Applied(A[k - 1], s[k])
  <2>1. k \in Nat /\ k \in 1..k /\ 1..k \in SUBSET (1..n) /\ (1..k) \ {k} = 1..(k - 1)
        /\ k - 1 \in 0..n /\ k \in 0..n
    BY <1>1
  <2>2. Max(1..k) = k
    BY <2>1, MaxOfPlaces
  <2> QED BY <2>1, <2>2, <1>4
<1>7. A[n] = iter[1..n]
  BY <1>1
<1> HIDE DEF A
<1> QED BY <1>3, <1>5, <1>6, <1>7 DEF Applies, n

(* What holds at one step and stays, holds at the end.                     *)
LEMMA FromThenOn ==
    ASSUME NEW A, NEW n \in Nat, NEW j \in 0..n, NEW Q, A[j] \in Q,
           \A k \in (j + 1)..n : A[k - 1] \in Q => A[k] \in Q
    PROVE  A[n] \in Q
<1> DEFINE T == {k \in j..n : A[k] \notin Q}
<1> SUFFICES ASSUME A[n] \notin Q PROVE FALSE
  OBVIOUS
<1>1. T \subseteq Nat /\ n \in T
  OBVIOUS
<1>2. PICK k \in T : \A i \in T : ~ (<<i, k>> \in OpToRel(<, Nat))
  BY <1>1, NatLessThanWellFounded, WFMin
<1>3. k # j /\ k \in j..n
  OBVIOUS
<1>4. k \in (j + 1)..n /\ k - 1 \in j..n /\ k - 1 < k /\ k - 1 \in Nat /\ k \in Nat
  BY <1>3
<1>5. A[k - 1] \in Q
  <2>1. <<k - 1, k>> \in OpToRel(<, Nat)
    BY <1>4 DEF OpToRel
  <2> QED BY <1>2, <1>4, <2>1
<1> QED BY <1>2, <1>4, <1>5

-----------------------------------------------------------------------------
(* What each event may make: orders that go where the player clicked,      *)
(* paths to the place of the cursor, drops of who may be dropped.          *)

TrueOrders == {o \in [squad : Squad, to : Point, clicked : Point] :
                  moved \/ unseen \/ o.to = o.clicked}

MayDrop == {q \in Squad : phase = "Placement" \/ q \in held}

Pushed == [name : {"Still"}] \cup [name : {"Draw"}, squads : SUBSET Squad]

Sent ==
         [name : {"SetSquadMenu"}, menu : SUBSET Squad]
    \cup [name : {"SetPendingOrders"}, pending : SUBSET [squad : Squad, kind : Kind]]
    \cup [name : {"SetSelectedSquads"}, selected : SUBSET Squad]
    \cup [name : {"SetDisplayPaths"}, paths : SUBSET [squad : Squad, to : {cursor}]]
    \cup [name : {"PushUIEvent"}, event : Pushed]
    \cup [name : {"SetOrder"}, orders : SUBSET TrueOrders]
    \cup [name : {"SetWorldPosition"}, squad : MayDrop]
    \cup [name : {"panic"}]

LEMMA MessagesSent ==
    /\ \A ids \in SUBSET Squad : SetMenu(ids) \in Sent /\ SetSelected(ids) \in Sent
    /\ \A os \in SUBSET [squad : Squad, kind : Kind] : SetPending(os) \in Sent
    /\ \A paths \in SUBSET [squad : Squad, to : {cursor}] : SetPaths(paths) \in Sent
    /\ \A e \in Pushed : Push(e) \in Sent
    /\ \A orders \in SUBSET TrueOrders : Orders(orders) \in Sent
    /\ \A q \in MayDrop : Dropped(q) \in Sent
    /\ Panic \in Sent
<1>1. \A ids \in SUBSET Squad : SetMenu(ids) \in Sent /\ SetSelected(ids) \in Sent
  BY DEF Sent, SetMenu, SetSelected
<1>2. \A os \in SUBSET [squad : Squad, kind : Kind] : SetPending(os) \in Sent
  BY DEF Sent, SetPending
<1>3. \A paths \in SUBSET [squad : Squad, to : {cursor}] : SetPaths(paths) \in Sent
  BY DEF Sent, SetPaths
<1>4. \A e \in Pushed : Push(e) \in Sent
  BY DEF Sent, Push
<1>5. \A orders \in SUBSET TrueOrders : Orders(orders) \in Sent
  BY DEF Sent, Orders
<1>6. \A q \in MayDrop : Dropped(q) \in Sent
  BY DEF Sent, Dropped
<1>7. Panic \in Sent
  BY DEF Sent, Panic
<1> QED BY <1>1, <1>2, <1>3, <1>4, <1>5, <1>6, <1>7

LEMMA ShortLists ==
    ASSUME NEW M
    PROVE  /\ <<>> \in Seq(M) /\ \A m \in M : <<m>> \in Seq(M)
           /\ \A m, n \in M : <<m, n>> \in Seq(M)
           /\ \A p, q \in Seq(M) : p \o q \in Seq(M)
OBVIOUS

(* Nothing is displayed, ordered or pending: the empty messages.           *)
LEMMA NothingSent ==
    SetMenu({}) \in Sent /\ SetPending({}) \in Sent /\ SetSelected({}) \in Sent
    /\ SetPaths({}) \in Sent
BY MessagesSent

LEMMA LookedSends ==
    ASSUME NEW ids, NEW ms, ms \subseteq Seq(Sent)
    PROVE  Looked(ids, ms) \subseteq Seq(Sent)
<1>1. <<Panic>> \in Seq(Sent)
  BY MessagesSent, ShortLists
<1> QED BY <1>1 DEF Looked

LEMMA GuiParts ==
    ASSUME TypeOK
    PROVE  /\ gui.menu \subseteq Squad /\ gui.selected \subseteq Squad
           /\ gui.pending \subseteq [squad : Squad, kind : Kind]
           /\ gui.paths \subseteq [squad : Squad, to : Point]
           /\ Named \subseteq Squad /\ cursor \in Point
BY DEF TypeOK, Gui, Named

LEMMA PathsLeadThere ==
    ASSUME PostInv, NEW q, NEW found \in PathsFor(q)
    PROVE  found \subseteq Point /\ (moved \/ unseen \/ found \subseteq {cursor})
<1>1. moved \/ unseen \/ \A path \in gui.paths : path.to = cursor
  BY DEF PostInv, PathsToTheCursor, HasMoved, EventsInPlace
<1>2. \A path \in gui.paths : path.to \in Point
  BY GuiParts DEF PostInv
<1>3. \/ \E path \in gui.paths : found = {path.to}
      \/ found = {cursor} \/ found = {}
  BY DEF PathsFor
<1>4. cursor \in Point
  BY GuiParts DEF PostInv
<1> QED BY <1>1, <1>2, <1>3, <1>4

LEMMA GivenTrue ==
    ASSUME PostInv, NEW o \in gui.pending, NEW p \in Point, moved \/ unseen \/ p = cursor,
           NEW g \in Given(o, p)
    PROVE  g \subseteq TrueOrders
<1>1. PICK found \in IF o.kind = "Move" THEN PathsFor(o.squad) ELSE {{cursor}, {}} :
         g = {[squad |-> o.squad, to |-> to, clicked |-> p] : to \in found}
  BY DEF Given
<1>2. found \subseteq Point /\ (moved \/ unseen \/ found \subseteq {cursor})
  <2>1. CASE o.kind = "Move"
    BY <1>1, <2>1, PathsLeadThere
  <2>2. CASE o.kind # "Move"
    <3>1. found \in {{cursor}, {}}
      BY <1>1, <2>2
    <3> QED BY <3>1, GuiParts DEF PostInv
  <2> QED BY <2>1, <2>2
<1>3. o.squad \in Squad
  BY GuiParts DEF PostInv
<1>4. ASSUME NEW to \in found
      PROVE  [squad |-> o.squad, to |-> to, clicked |-> p] \in TrueOrders
  BY <1>2, <1>3, <1>4 DEF TrueOrders
<1> QED BY <1>1, <1>4

LEMMA IssueSends ==
    ASSUME PostInv, NEW p \in Point, moved \/ unseen \/ p = cursor
    PROVE  Issue(p) \subseteq Seq(Sent)
<1> DEFINE outcomes == {f \in [gui.pending -> UNION {Given(o, p) : o \in gui.pending}] :
                          \A o \in gui.pending : f[o] \in Given(o, p)}
           lists == {<<Orders(UNION {f[o] : o \in gui.pending}), SetPending({})>> :
                        f \in outcomes}
<1>1. ASSUME NEW f \in outcomes
      PROVE  <<Orders(UNION {f[o] : o \in gui.pending}), SetPending({})>> \in Seq(Sent)
  <2> DEFINE os == UNION {f[o] : o \in gui.pending}
  <2>1. \A o \in gui.pending : f[o] \subseteq TrueOrders
    BY GivenTrue
  <2>2. os \in SUBSET TrueOrders
    BY <2>1
  <2> HIDE DEF os
  <2>3. Orders(os) \in Sent
    BY <2>2, MessagesSent
  <2> QED BY <2>3, NothingSent, ShortLists DEF os
<1>2. lists \subseteq Seq(Sent)
  BY <1>1
<1>3. Issue(p) = Looked({o.squad : o \in gui.pending}, lists)
  BY DEF Issue
<1> HIDE DEF lists
<1> QED BY <1>2, <1>3, LookedSends

LEMMA MenuSends ==
    ASSUME TypeOK
    PROVE  MenuChoices \subseteq Seq(Sent)
<1>1. ASSUME NEW kind \in Kind
      PROVE  <<SetPending(PendingOrders(gui.menu, kind)), SetMenu({})>> \in Seq(Sent)
  <2>1. PendingOrders(gui.menu, kind) \in SUBSET [squad : Squad, kind : Kind]
    BY GuiParts DEF PendingOrders
  <2>2. SetPending(PendingOrders(gui.menu, kind)) \in Sent
    BY <2>1, MessagesSent
  <2> QED BY <2>2, NothingSent, ShortLists
<1> QED BY <1>1 DEF MenuChoices

LEMMA ClickSends ==
    ASSUME PostInv, NEW p \in Point, moved \/ unseen \/ p = cursor
    PROVE  ClickMade(p) \subseteq Seq(Sent)
<1> DEFINE first == IF gui.menu # {} THEN MenuChoices \cup {<<SetMenu({})>>}
                    ELSE {<<SetSelected({q})>> : q \in Named} \cup {<<SetSelected({})>>, <<>>}
           then  == (IF gui.pending # {} THEN Issue(p) ELSE {}) \cup {<<>>}
<1>1. first \subseteq Seq(Sent)
  <2>1. MenuChoices \subseteq Seq(Sent)
    BY MenuSends DEF PostInv
  <2>2. \A q \in Named : <<SetSelected({q})>> \in Seq(Sent)
    <3> TAKE q \in Named
    <3> DEFINE ids == {q}
    <3>1. ids \in SUBSET Squad
      BY GuiParts DEF PostInv
    <3> HIDE DEF ids
    <3>2. SetSelected(ids) \in Sent
      BY <3>1, MessagesSent
    <3>3. <<SetSelected(ids)>> \in Seq(Sent)
      BY <3>2, ShortLists
    <3> QED BY <3>3 DEF ids
  <2>3. <<SetMenu({})>> \in Seq(Sent) /\ <<SetSelected({})>> \in Seq(Sent) /\ <<>> \in Seq(Sent)
    BY NothingSent, ShortLists
  <2> QED BY <2>1, <2>2, <2>3
<1>2. then \subseteq Seq(Sent)
  BY IssueSends, ShortLists
<1>3. <<SetPaths({})>> \in Seq(Sent)
  BY NothingSent, ShortLists
<1>4. ClickMade(p) = {a \o b \o <<SetPaths({})>> : a \in first, b \in then}
  BY DEF ClickMade
<1> HIDE DEF first, then
<1>5. ASSUME NEW a \in first, NEW b \in then PROVE a \o b \o <<SetPaths({})>> \in Seq(Sent)
  <2>1. a \in Seq(Sent) /\ b \in Seq(Sent)
    BY <1>1, <1>2
  <2> DEFINE ab == a \o b
  <2>2. ab \in Seq(Sent)
    BY <2>1, ShortLists
  <2> HIDE DEF ab
  <2>3. ab \o <<SetPaths({})>> \in Seq(Sent)
    BY <1>3, <2>2, ShortLists
  <2> QED BY <2>3 DEF ab
<1>6. ASSUME NEW x \in ClickMade(p) PROVE x \in Seq(Sent)
  <2>1. PICK a \in first, b \in then : x = a \o b \o <<SetPaths({})>>
    BY <1>4
  <2> QED BY <1>5, <2>1
<1> QED BY <1>6

LEMMA VectorSends ==
    ASSUME PostInv, NEW p \in Point, moved \/ unseen \/ p = cursor
    PROVE  VectorMade(p) \subseteq Seq(Sent)
<1>1. MenuChoices \subseteq Seq(Sent)
  BY MenuSends DEF PostInv
<1>2. {b \o <<SetPaths({})>> : b \in Issue(p)} \subseteq Seq(Sent)
  <2>1. <<SetPaths({})>> \in Seq(Sent)
    BY NothingSent, ShortLists
  <2>2. \A b \in Issue(p) : b \in Seq(Sent)
    BY IssueSends
  <2>3. \A b \in Issue(p) : b \o <<SetPaths({})>> \in Seq(Sent)
    BY <2>1, <2>2, ShortLists
  <2> QED BY <2>3
<1>3. {<<SetSelected(ids)>> : ids \in SUBSET Named} \subseteq Seq(Sent)
  <2>1. ASSUME NEW ids \in SUBSET Named PROVE <<SetSelected(ids)>> \in Seq(Sent)
    <3>1. ids \in SUBSET Squad
      BY GuiParts DEF PostInv
    <3>2. SetSelected(ids) \in Sent
      BY <3>1, MessagesSent
    <3> QED BY <3>2, ShortLists
  <2> QED BY <2>1
<1> QED BY <1>1, <1>2, <1>3 DEF VectorMade

LEMMA RightSends ==
    ASSUME PostInv, NEW p \in Point, moved \/ unseen \/ p = cursor
    PROVE  RightMade(p) \subseteq Seq(Sent)
<1> DEFINE Sends(q) == Looked({q}, {<<Orders({[squad |-> q, to |-> p, clicked |-> p]})>>})
           Then(ids) == IF gui.pending # {} THEN {<<SetPending({}), SetPaths({})>>}
                        ELSE IF ids = {} THEN {<<>>}
                        ELSE {<<SetMenu(ids)>>} \cup UNION {Sends(q) : q \in ids}
<1>1. ASSUME NEW q \in Squad PROVE Sends(q) \subseteq Seq(Sent)
  <2> DEFINE os == {[squad |-> q, to |-> p, clicked |-> p]}
  <2>1. os \in SUBSET TrueOrders
    BY DEF TrueOrders
  <2> HIDE DEF os
  <2>2. Orders(os) \in Sent
    BY <2>1, MessagesSent
  <2>3. {<<Orders(os)>>} \subseteq Seq(Sent)
    BY <2>2, ShortLists
  <2>4. Looked({q}, {<<Orders(os)>>}) \subseteq Seq(Sent)
    BY <2>3, LookedSends
  <2> QED BY <2>4 DEF os
<1>2. ASSUME NEW ids \in SUBSET Squad PROVE Then(ids) \subseteq Seq(Sent)
  <2>1. <<SetPending({}), SetPaths({})>> \in Seq(Sent) /\ <<>> \in Seq(Sent)
    BY NothingSent, ShortLists
  <2>2. SetMenu(ids) \in Sent
    BY MessagesSent
  <2>3. <<SetMenu(ids)>> \in Seq(Sent)
    BY <2>2, ShortLists
  <2> HIDE DEF Sends
  <2>4. UNION {Sends(q) : q \in ids} \subseteq Seq(Sent)
    BY <1>1
  <2> QED BY <2>1, <2>3, <2>4
<1>3. RightMade(p) = Then(gui.selected)
                     \cup UNION {{<<SetSelected({q})>> \o made : made \in Then({q})} : q \in Named}
  BY DEF RightMade
<1>4. gui.selected \in SUBSET Squad /\ Named \subseteq Squad
  BY GuiParts DEF PostInv
<1> HIDE DEF Then
<1>5. ASSUME NEW q \in Named PROVE {<<SetSelected({q})>> \o made : made \in Then({q})} \subseteq Seq(Sent)
  <2> DEFINE ids == {q}
  <2>1. ids \in SUBSET Squad
    BY <1>4
  <2> HIDE DEF ids
  <2>2. SetSelected(ids) \in Sent
    BY <2>1, MessagesSent
  <2>3. <<SetSelected(ids)>> \in Seq(Sent)
    BY <2>2, ShortLists
  <2>4. \A made \in Then(ids) : made \in Seq(Sent)
    BY <1>2, <2>1
  <2>5. \A made \in Then(ids) : <<SetSelected(ids)>> \o made \in Seq(Sent)
    BY <2>3, <2>4, ShortLists
  <2> QED BY <2>5 DEF ids
<1>6. Then(gui.selected) \subseteq Seq(Sent)
  BY <1>2, <1>4
<1> DEFINE After(q) == {<<SetSelected({q})>> \o made : made \in Then({q})}
<1>7. RightMade(p) = Then(gui.selected) \cup UNION {After(q) : q \in Named}
  BY <1>3
<1>8. \A q \in Named : After(q) \subseteq Seq(Sent)
  BY <1>5
<1> HIDE DEF After
<1> QED BY <1>6, <1>7, <1>8

LEMMA StillSends ==
    ASSUME TypeOK
    PROVE  StillMade \subseteq Seq(Sent)
<1> DEFINE movers == {o.squad : o \in {o \in gui.pending : o.kind = "Move"}}
           e == [name |-> "Draw", squads |-> movers]
<1>1. movers \in SUBSET Squad
  BY GuiParts
<1>2. StillMade \in {{<<>>}, {<<Push(e)>>}}
  BY DEF StillMade
<1> HIDE DEF movers
<1>3. e \in Pushed
  BY <1>1 DEF Pushed
<1> HIDE DEF e
<1>4. Push(e) \in Sent
  BY <1>3, MessagesSent
<1>5. <<Push(e)>> \in Seq(Sent) /\ <<>> \in Seq(Sent)
  BY <1>4, ShortLists
<1> QED BY <1>2, <1>5

LEMMA DrawSends ==
    ASSUME NEW ids \in SUBSET Squad
    PROVE  DrawMade(ids) \subseteq Seq(Sent)
<1> DEFINE paths(found) == {[squad |-> q, to |-> cursor] : q \in found}
           lists == {<<SetPaths(paths(found))>> : found \in SUBSET ids}
<1>1. ASSUME NEW found \in SUBSET ids PROVE <<SetPaths(paths(found))>> \in Seq(Sent)
  <2>1. paths(found) \in SUBSET [squad : Squad, to : {cursor}]
    OBVIOUS
  <2> HIDE DEF paths
  <2>2. SetPaths(paths(found)) \in Sent
    BY <2>1, MessagesSent
  <2> QED BY <2>2, ShortLists
<1>2. lists \subseteq Seq(Sent)
  BY <1>1
<1>3. DrawMade(ids) = Looked(ids, lists)
  BY DEF DrawMade
<1> HIDE DEF lists
<1> QED BY <1>2, <1>3, LookedSends

LEMMA DropSends ==
    ASSUME NEW q \in MayDrop
    PROVE  DropMade(q) \subseteq Seq(Sent)
<1>1. {<<Dropped(q)>>} \subseteq Seq(Sent) /\ <<>> \in Seq(Sent)
  BY MessagesSent, ShortLists
<1>2. Looked({q}, {<<Dropped(q)>>}) \subseteq Seq(Sent)
  BY <1>1, LookedSends
<1> QED BY <1>1, <1>2 DEF DropMade

LEMMA EventKinds ==
    ASSUME NEW e \in Event
    PROVE  /\ e.name \in {"Click", "Vector", "Right", "Move", "Still", "Draw", "Drop"}
           /\ e.name \in {"Click", "Vector", "Right"} => e.at \in Point
           /\ e.name = "Draw" => e.squads \in SUBSET Squad
           /\ e.name = "Drop" => e.squad \in Squad
BY DEF Event

(* The events of a frame make such messages, and the move of the mouse     *)
(* takes the paths off the display.                                        *)
LEMMA EventsSend ==
    ASSUME PostInv, NEW i \in DOMAIN events
    PROVE  /\ events[i] \in Event /\ Made(events[i]) \subseteq Seq(Sent)
           /\ events[i].name = "Move" => Made(events[i]) = {<<SetPaths({})>>}
<1> DEFINE e == events[i]
<1>1. e \in Event
  BY DEF PostInv, TypeOK
<1>2. /\ e.name \in {"Click", "Vector", "Right"} => moved \/ unseen \/ e.at = cursor
      /\ e.name = "Drop" => phase = "Placement" \/ e.squad \in held
  BY DEF PostInv, EventsInPlace, Clicks
<1> HIDE DEF e
<1>3. CASE e.name = "Click"
  <2>1. Made(e) = ClickMade(e.at) \cup {<<>>}
    BY <1>3 DEF Made
  <2> QED BY <1>1, <1>2, <1>3, <2>1, EventKinds, ClickSends, ShortLists DEF e
<1>4. CASE e.name = "Vector"
  <2>1. Made(e) = VectorMade(e.at) \cup {<<>>}
    BY <1>4 DEF Made
  <2> QED BY <1>1, <1>2, <1>4, <2>1, EventKinds, VectorSends, ShortLists DEF e
<1>5. CASE e.name = "Right"
  <2>1. Made(e) = RightMade(e.at)
    BY <1>5 DEF Made
  <2> QED BY <1>1, <1>2, <1>5, <2>1, EventKinds, RightSends DEF e
<1>6. CASE e.name = "Move"
  <2>1. Made(e) = {<<SetPaths({})>>}
    BY <1>6 DEF Made
  <2>2. <<SetPaths({})>> \in Seq(Sent)
    BY NothingSent, ShortLists
  <2> QED BY <1>1, <2>1, <2>2 DEF e
<1>7. CASE e.name = "Still"
  <2>1. Made(e) = StillMade
    BY <1>7 DEF Made
  <2> QED BY <1>1, <1>7, <2>1, StillSends DEF e, PostInv
<1>8. CASE e.name = "Draw"
  <2>1. Made(e) = DrawMade(e.squads)
    BY <1>8 DEF Made
  <2> QED BY <1>1, <1>8, <2>1, EventKinds, DrawSends DEF e
<1>9. CASE e.name = "Drop"
  <2>1. Made(e) = DropMade(e.squad)
    BY <1>9 DEF Made
  <2>2. e.squad \in MayDrop
    BY <1>1, <1>2, <1>9, EventKinds DEF MayDrop
  <2> QED BY <1>1, <1>9, <2>1, <2>2, DropSends DEF e
<1> QED BY <1>1, <1>3, <1>4, <1>5, <1>6, <1>7, <1>8, <1>9, EventKinds

-----------------------------------------------------------------------------
(* What a frame makes of them.                                             *)

LEMMA Joined ==
    ASSUME NEW M, NEW p \in Seq(M), NEW q \in Seq(M), NEW name
    PROVE  /\ Told(p, name) => Told(p \o q, name)
           /\ Told(q, name) => Told(p \o q, name)
<1>1. /\ \A i \in DOMAIN p : i \in DOMAIN (p \o q) /\ (p \o q)[i] = p[i]
      /\ \A i \in DOMAIN q : Len(p) + i \in DOMAIN (p \o q) /\ (p \o q)[Len(p) + i] = q[i]
  OBVIOUS
<1> DEFINE r == p \o q
<1> HIDE DEF r
<1>2. /\ \A i \in DOMAIN p : i \in DOMAIN r /\ r[i] = p[i]
      /\ \A i \in DOMAIN q : Len(p) + i \in DOMAIN r /\ r[Len(p) + i] = q[i]
  BY <1>1 DEF r
<1>3. (Told(p, name) => Told(r, name)) /\ (Told(q, name) => Told(r, name))
  BY <1>2 DEF Told
<1> QED BY <1>3 DEF r

Lists  == SUBSET Seq(Sent)
Telling == {x \in Lists : \A messages \in x : Told(messages, "SetDisplayPaths")}

LEMMA AnsweredSends ==
    ASSUME NEW made \in Lists, NEW e, Made(e) \subseteq Seq(Sent)
    PROVE  /\ Answered(made, e) \in Lists
           /\ made \in Telling => Answered(made, e) \in Telling
           /\ Made(e) = {<<SetPaths({})>>} => Answered(made, e) \in Telling
<1>1. ASSUME NEW x \in Answered(made, e)
      PROVE  \E a \in made, b \in Made(e) : x = a \o b
  BY DEF Answered
<1>2. ASSUME NEW a \in made, NEW b \in Made(e)
      PROVE  /\ a \o b \in Seq(Sent)
             /\ Told(a, "SetDisplayPaths") => Told(a \o b, "SetDisplayPaths")
             /\ Told(b, "SetDisplayPaths") => Told(a \o b, "SetDisplayPaths")
  <2>1. a \in Seq(Sent) /\ b \in Seq(Sent)
    BY DEF Lists
  <2> QED BY <2>1, ShortLists, Joined
<1>3. Answered(made, e) \in Lists
  BY <1>1, <1>2 DEF Lists
<1>4. ASSUME made \in Telling PROVE Answered(made, e) \in Telling
  BY <1>1, <1>2, <1>3, <1>4 DEF Telling
<1>5. ASSUME Made(e) = {<<SetPaths({})>>} PROVE Answered(made, e) \in Telling
  <2> DEFINE b == <<SetPaths({})>>
  <2>1. Told(b, "SetDisplayPaths")
    <3>1. 1 \in DOMAIN b /\ b[1] = SetPaths({}) /\ b[1].name = "SetDisplayPaths"
      BY DEF SetPaths
    <3> QED BY <3>1 DEF Told
  <2> HIDE DEF b
  <2>2. Made(e) = {b}
    BY <1>5 DEF b
  <2>3. ASSUME NEW x \in Answered(made, e) PROVE Told(x, "SetDisplayPaths")
    <3>1. PICK a \in made : \E c \in Made(e) : x = a \o c
      BY <1>1
    <3>2. PICK c \in Made(e) : x = a \o c
      BY <3>1
    <3>3. Told(c, "SetDisplayPaths")
      BY <2>1, <2>2, <3>2
    <3> QED BY <1>2, <3>2, <3>3
  <2> QED BY <1>3, <2>3 DEF Telling
<1> QED BY <1>3, <1>4, <1>5

LEMMA FramesSend ==
    ASSUME PostInv
    PROVE  Frames \in Lists /\ (HasMoved => Frames \in Telling)
<1> DEFINE n == Len(events)
           newest == Reverse(events)
           start == {<<>>} \cup (IF moved THEN {} ELSE {<<Push([name |-> "Still"])>>})
<1>1. events \in Seq(Event)
  BY DEF PostInv, TypeOK
<1>2. /\ n \in Nat /\ newest \in Seq(Event) /\ Len(newest) = n
      /\ \A k \in 1..n : n - k + 1 \in DOMAIN events /\ newest[k] = events[n - k + 1]
  BY <1>1 DEF Reverse
<1>3. start \in Lists
  <2> DEFINE e == [name |-> "Still"]
  <2>1. e \in Pushed
    BY DEF Pushed
  <2> HIDE DEF e
  <2>2. Push(e) \in Sent
    BY <2>1, MessagesSent
  <2>3. <<Push(e)>> \in Seq(Sent) /\ <<>> \in Seq(Sent)
    BY <2>2, ShortLists
  <2> QED BY <2>3 DEF e, Lists
<1>4. Answers(start, newest, Frames)
  <2>1. Answers(start, newest, FoldLeft(Answered, start, newest))
    BY <1>2, FrameAnswers
  <2> QED BY <2>1 DEF Frames
<1> HIDE DEF newest, start, n
<1>5. PICK A : /\ A[0] = start /\ A[n] = Frames
               /\ \A k \in 1..n : A[k] = Answered(A[k - 1], newest[k])
  BY <1>2, <1>4 DEF Answers
<1>6. \A k \in 1..n : Made(newest[k]) \subseteq Seq(Sent)
  BY <1>2, EventsSend
<1>7. \A k \in 1..n : /\ A[k - 1] \in Lists => A[k] \in Lists
                      /\ A[k - 1] \in Telling => A[k] \in Telling
  <2> TAKE k \in 1..n
  <2>1. A[k] = Answered(A[k - 1], newest[k]) /\ Made(newest[k]) \subseteq Seq(Sent)
    BY <1>5, <1>6
  <2> QED BY <2>1, AnsweredSends DEF Telling
<1>8. ASSUME NEW k \in 0..n PROVE A[k] \in Lists
  <2>1. k \in Nat /\ 0 \in 0..k /\ \A i \in (0 + 1)..k : i \in 1..n
    BY <1>2
  <2>2. A[0] \in Lists
    BY <1>3, <1>5
  <2>3. \A i \in (0 + 1)..k : A[i - 1] \in Lists => A[i] \in Lists
    BY <1>7, <2>1
  <2> QED BY <2>1, <2>2, <2>3, FromThenOn
<1>9. ASSUME HasMoved PROVE Frames \in Telling
  <2>1. PICK i \in DOMAIN events : events[i].name = "Move"
    BY <1>9 DEF HasMoved
  <2>2. i \in 1..n
    BY <1>1 DEF n
  <2> DEFINE j == n - i + 1
  <2>3. j \in 1..n /\ j \in 0..n /\ j - 1 \in 0..n /\ n - j + 1 = i
    BY <1>2, <2>2
  <2> HIDE DEF j
  <2>4. newest[j] = events[i] /\ Made(newest[j]) = {<<SetPaths({})>>}
    <3>1. newest[j] = events[i]
      BY <1>2, <2>3
    <3> QED BY <2>1, <3>1, EventsSend
  <2>5. A[j] \in Telling
    <3>1. A[j - 1] \in Lists /\ Made(newest[j]) \subseteq Seq(Sent)
      BY <1>6, <1>8, <2>3
    <3>2. A[j] = Answered(A[j - 1], newest[j])
      BY <1>5, <2>3
    <3> QED BY <2>4, <3>1, <3>2, AnsweredSends
  <2>6. \A k \in (j + 1)..n : k \in 1..n
    BY <1>2, <2>3
  <2>7. \A k \in (j + 1)..n : A[k - 1] \in Telling => A[k] \in Telling
    BY <1>7, <2>6
  <2>8. A[n] \in Telling
    BY <1>2, <2>3, <2>5, <2>7, FromThenOn
  <2> QED BY <1>5, <2>8
<1>10. Frames \in Lists
  <2>1. n \in 0..n
    BY <1>2
  <2> QED BY <1>5, <1>8, <2>1
<1> QED BY <1>9, <1>10

(* GuiState::react, of such messages.                                      *)
States == [gui : Gui, pushed : Seq(Pushed)]
OnCursor(x) == \A path \in x.gui.paths : path.to = cursor

LEMMA GuiSet ==
    ASSUME NEW g \in Gui
    PROVE  /\ \A ids \in SUBSET Squad :
                LET h == [g EXCEPT !.menu = ids] IN h \in Gui /\ h.paths = g.paths
           /\ \A ids \in SUBSET Squad :
                LET h == [g EXCEPT !.selected = ids] IN h \in Gui /\ h.paths = g.paths
           /\ \A os \in SUBSET [squad : Squad, kind : Kind] :
                LET h == [g EXCEPT !.pending = os] IN h \in Gui /\ h.paths = g.paths
           /\ \A paths \in SUBSET [squad : Squad, to : Point] :
                LET h == [g EXCEPT !.paths = paths] IN h \in Gui /\ h.paths = paths
<1>1. \A ids \in SUBSET Squad :
         LET h == [g EXCEPT !.menu = ids] IN h \in Gui /\ h.paths = g.paths
  BY DEF Gui
<1>2. \A ids \in SUBSET Squad :
         LET h == [g EXCEPT !.selected = ids] IN h \in Gui /\ h.paths = g.paths
  BY DEF Gui
<1>3. \A os \in SUBSET [squad : Squad, kind : Kind] :
         LET h == [g EXCEPT !.pending = os] IN h \in Gui /\ h.paths = g.paths
  BY DEF Gui
<1>4. \A paths \in SUBSET [squad : Squad, to : Point] :
         LET h == [g EXCEPT !.paths = paths] IN h \in Gui /\ h.paths = paths
  BY DEF Gui
<1> QED BY <1>1, <1>2, <1>3, <1>4

LEMMA StateSet ==
    ASSUME NEW x \in States
    PROVE  /\ x.gui \in Gui
           /\ \A h \in Gui : LET y == [x EXCEPT !.gui = h] IN y \in States /\ y.gui = h
           /\ \A e \in Pushed :
                LET y == [x EXCEPT !.pushed = Append(@, e)] IN y \in States /\ y.gui = x.gui
<1>1. x.gui \in Gui /\ \A h \in Gui : LET y == [x EXCEPT !.gui = h] IN y \in States /\ y.gui = h
  BY DEF States
<1>2. ASSUME NEW e \in Pushed
      PROVE  LET y == [x EXCEPT !.pushed = Append(@, e)] IN y \in States /\ y.gui = x.gui
  <2>1. x.pushed \in Seq(Pushed)
    BY DEF States
  <2> DEFINE p == Append(x.pushed, e)
  <2>2. p \in Seq(Pushed)
    BY <2>1
  <2> HIDE DEF p
  <2>3. LET y == [x EXCEPT !.pushed = p] IN y \in States /\ y.gui = x.gui
    BY <2>2 DEF States
  <2> QED BY <2>3 DEF p
<1> QED BY <1>1, <1>2

LEMMA AppliedChanges ==
    ASSUME NEW x \in States, NEW m \in Sent, cursor \in Point
    PROVE  /\ Applied(x, m) \in States
           /\ m.name # "SetDisplayPaths" => Applied(x, m).gui.paths = x.gui.paths
           /\ m.name = "SetDisplayPaths" => OnCursor(Applied(x, m))
<1> DEFINE g == x.gui
<1>0. g \in Gui
  BY StateSet
<1>7. ASSUME NEW h \in Gui, Applied(x, m) = [x EXCEPT !.gui = h]
      PROVE  Applied(x, m) \in States /\ Applied(x, m).gui.paths = h.paths
  BY <1>7, StateSet
<1>1. CASE m.name = "SetSquadMenu"
  <2> DEFINE h == [g EXCEPT !.menu = m.menu]
  <2>1. m.menu \in SUBSET Squad
    BY <1>1 DEF Sent
  <2>2. Applied(x, m) = [x EXCEPT !.gui = h]
    BY <1>1 DEF Applied
  <2>3. h \in Gui /\ h.paths = g.paths
    BY <1>0, <2>1, GuiSet
  <2> HIDE DEF h
  <2>4. Applied(x, m) \in States /\ Applied(x, m).gui.paths = g.paths
    BY <1>7, <2>2, <2>3
  <2> QED BY <1>1, <2>4
<1>2. CASE m.name = "SetPendingOrders"
  <2> DEFINE h == [g EXCEPT !.pending = m.pending]
  <2>1. m.pending \in SUBSET [squad : Squad, kind : Kind]
    BY <1>2 DEF Sent
  <2>2. Applied(x, m) = [x EXCEPT !.gui = h]
    BY <1>2 DEF Applied
  <2>3. h \in Gui /\ h.paths = g.paths
    BY <1>0, <2>1, GuiSet
  <2> HIDE DEF h
  <2>4. Applied(x, m) \in States /\ Applied(x, m).gui.paths = g.paths
    BY <1>7, <2>2, <2>3
  <2> QED BY <1>2, <2>4
<1>3. CASE m.name = "SetSelectedSquads"
  <2> DEFINE h == [g EXCEPT !.selected = m.selected]
  <2>1. m.selected \in SUBSET Squad
    BY <1>3 DEF Sent
  <2>2. Applied(x, m) = [x EXCEPT !.gui = h]
    BY <1>3 DEF Applied
  <2>3. h \in Gui /\ h.paths = g.paths
    BY <1>0, <2>1, GuiSet
  <2> HIDE DEF h
  <2>4. Applied(x, m) \in States /\ Applied(x, m).gui.paths = g.paths
    BY <1>7, <2>2, <2>3
  <2> QED BY <1>3, <2>4
<1>4. CASE m.name = "SetDisplayPaths"
  <2> DEFINE h == [g EXCEPT !.paths = m.paths]
  <2>1. m.paths \in SUBSET [squad : Squad, to : {cursor}]
    BY <1>4 DEF Sent
  <2>2. m.paths \in SUBSET [squad : Squad, to : Point] /\ \A path \in m.paths : path.to = cursor
    BY <2>1
  <2>3. Applied(x, m) = [x EXCEPT !.gui = h]
    BY <1>4 DEF Applied
  <2>4. h \in Gui /\ h.paths = m.paths
    BY <1>0, <2>2, GuiSet
  <2> HIDE DEF h
  <2>5. Applied(x, m) \in States /\ Applied(x, m).gui.paths = m.paths
    BY <1>7, <2>3, <2>4
  <2> QED BY <1>4, <2>2, <2>5 DEF OnCursor
<1>5. CASE m.name = "PushUIEvent"
  <2>1. m.event \in Pushed
    BY <1>5 DEF Sent
  <2>2. Applied(x, m) = [x EXCEPT !.pushed = Append(@, m.event)]
    BY <1>5 DEF Applied
  <2>3. Applied(x, m) \in States /\ Applied(x, m).gui = x.gui
    BY <2>1, <2>2, StateSet
  <2> QED BY <1>5, <2>3
<1>6. CASE m.name \notin {"SetSquadMenu", "SetPendingOrders", "SetSelectedSquads",
                          "SetDisplayPaths", "PushUIEvent"}
  <2>1. Applied(x, m) = x
    BY <1>6 DEF Applied
  <2> QED BY <1>6, <2>1
<1> QED BY <1>1, <1>2, <1>3, <1>4, <1>5, <1>6

(* A frame leaves events it pushed itself; the paths are the last it told, *)
(* or those that were on display.                                          *)
LEMMA FrameLeaves ==
    ASSUME PostInv, NEW messages \in Seq(Sent)
    PROVE  LET told == FoldLeft(Applied, [gui |-> gui, pushed |-> <<>>], messages) IN
           /\ told \in States
           /\ Told(messages, "SetDisplayPaths") => OnCursor(told)
           /\ ~Told(messages, "SetDisplayPaths") => told.gui.paths = gui.paths
<1> DEFINE n == Len(messages)
           start == [gui |-> gui, pushed |-> <<>>]
           told == FoldLeft(Applied, start, messages)
<1>1. n \in Nat /\ \A k \in 1..n : messages[k] \in Sent /\ k \in DOMAIN messages
  OBVIOUS
<1>2. start \in States /\ start.gui = gui
  BY DEF PostInv, TypeOK, States
<1>3. Applies(start, messages, told)
  BY FrameApplies
<1>4. cursor \in Point
  BY DEF PostInv, TypeOK
<1> HIDE DEF start, told, n
<1>5. PICK A : /\ A[0] = start /\ A[n] = told
               /\ \A k \in 1..n : A[k] = Applied(A[k - 1], messages[k])
  BY <1>3 DEF Applies, n
<1>6. ASSUME NEW k \in 0..n PROVE A[k] \in States
  <2>1. k \in Nat /\ 0 \in 0..k /\ \A i \in (0 + 1)..k : i \in 1..n
    BY <1>1
  <2>2. \A i \in (0 + 1)..k : A[i - 1] \in States => A[i] \in States
    BY <1>1, <1>4, <1>5, <2>1, AppliedChanges
  <2> QED BY <1>2, <1>5, <2>1, <2>2, FromThenOn
<1>7. told \in States
  <2>1. n \in 0..n
    BY <1>1
  <2> QED BY <1>5, <1>6, <2>1
<1>8. ASSUME NEW k \in 1..n
      PROVE  /\ A[k - 1] \in States /\ A[k] \in States
             /\ A[k] = Applied(A[k - 1], messages[k]) /\ messages[k] \in Sent
             /\ messages[k].name # "SetDisplayPaths" => A[k].gui.paths = A[k - 1].gui.paths
             /\ messages[k].name = "SetDisplayPaths" => OnCursor(A[k])
  <2>1. k \in 0..n /\ k - 1 \in 0..n
    BY <1>1
  <2>2. A[k - 1] \in States /\ A[k] \in States /\ messages[k] \in Sent
        /\ A[k] = Applied(A[k - 1], messages[k])
    BY <1>1, <1>5, <1>6, <2>1
  <2> QED BY <1>4, <2>2, AppliedChanges
<1>9. ASSUME Told(messages, "SetDisplayPaths") PROVE OnCursor(told)
  <2>1. PICK j \in DOMAIN messages : messages[j].name = "SetDisplayPaths"
    BY <1>9 DEF Told
  <2>2. j \in 1..n /\ j \in 0..n /\ \A k \in (j + 1)..n : k \in 1..n
    BY <1>1 DEF n
  <2> DEFINE Q == {x \in States : OnCursor(x)}
  <2>3. A[j] \in Q
    BY <1>8, <2>1, <2>2
  <2>4. \A k \in (j + 1)..n : A[k - 1] \in Q => A[k] \in Q
    <3> TAKE k \in (j + 1)..n
    <3>1. k \in 1..n
      BY <2>2
    <3> QED BY <1>8, <3>1 DEF OnCursor
  <2> HIDE DEF Q
  <2>5. A[n] \in Q
    BY <1>1, <2>2, <2>3, <2>4, FromThenOn
  <2> QED BY <1>5, <2>5 DEF Q
<1>10. ASSUME ~Told(messages, "SetDisplayPaths") PROVE told.gui.paths = gui.paths
  <2> DEFINE Q == {x \in States : x.gui.paths = gui.paths}
  <2>1. 0 \in 0..n /\ \A k \in (0 + 1)..n : k \in 1..n
    BY <1>1
  <2>2. A[0] \in Q
    BY <1>2, <1>5
  <2>3. \A k \in (0 + 1)..n : A[k - 1] \in Q => A[k] \in Q
    <3> TAKE k \in (0 + 1)..n
    <3>1. k \in 1..n /\ messages[k].name # "SetDisplayPaths"
      BY <1>1, <1>10, <2>1 DEF Told
    <3> QED BY <1>8, <3>1
  <2> HIDE DEF Q
  <2>4. A[n] \in Q
    BY <1>1, <2>1, <2>2, <2>3, FromThenOn
  <2> QED BY <1>5, <2>4 DEF Q
<1> QED BY <1>7, <1>9, <1>10 DEF told, start

-----------------------------------------------------------------------------
(* The invariant.                                                          *)

LEMMA PostInit == Init => PostInv
<1> SUFFICES ASSUME Init PROVE PostInv
  OBVIOUS
<1>1. TypeOK
  <2>1. gui \in Gui
    BY DEF Init, Gui
  <2>2. events \in Seq(Event)
    BY DEF Init
  <2>3. /\ phase \in {"Placement", "Battle"} /\ held \subseteq Squad
        /\ squads \subseteq Squad /\ bodies \subseteq Squad
        /\ cursor \in Point /\ down \in Point \cup {None} /\ drag \in Squad \cup {None}
        /\ clickOn \in BOOLEAN /\ chat \in BOOLEAN /\ moved \in BOOLEAN
        /\ panicked \in BOOLEAN /\ unseen \in BOOLEAN
    BY DEF Init
  <2> QED BY <2>1, <2>2, <2>3 DEF TypeOK
<1>2. EventsInPlace /\ PathsToTheCursor /\ DraggedIsHeld
  BY DEF Init, EventsInPlace, PathsToTheCursor, DraggedIsHeld
<1> QED BY <1>1, <1>2 DEF PostInv

(* The scene moved, the cursor and the button are over places again.       *)
LEMMA SceneMovesTypes ==
    ASSUME PostInv, NEW p \in Point, SceneMoves(p)
    PROVE  cursor' \in Point /\ down' \in Point \cup {None}
BY DEF SceneMoves

LEMMA TickStep ==
    ASSUME PostInv, Tick
    PROVE  PostInv'
<1>1. PICK t \in Outcomes :
        /\ gui' = t.left.gui /\ events' = t.left.pushed /\ panicked' = t.panic
        /\ \/ /\ UNCHANGED <<cursor, down>>
              /\ unseen' = (unseen /\ ~t.redone /\ gui.paths # {})
           \/ /\ \E p \in Point \ {cursor} : SceneMoves(p)
              /\ unseen' = (t.left.gui.paths # {})
  BY DEF Tick
<1>0. PICK messages \in Frames :
        t = [left   |-> FoldLeft(Applied, [gui |-> gui, pushed |-> <<>>], messages),
             redone |-> Told(messages, "SetDisplayPaths"),
             panic  |-> Told(messages, "panic")]
  BY DEF Outcomes
<1> DEFINE told == FoldLeft(Applied, [gui |-> gui, pushed |-> <<>>], messages)
<1>2. /\ gui' = told.gui /\ events' = told.pushed
      /\ \/ /\ UNCHANGED <<cursor, down>>
            /\ unseen' = (unseen /\ ~Told(messages, "SetDisplayPaths") /\ gui.paths # {})
         \/ /\ \E p \in Point \ {cursor} : SceneMoves(p)
            /\ unseen' = (told.gui.paths # {})
      /\ panicked' = Told(messages, "panic")
  BY <1>0, <1>1
<1>3. messages \in Seq(Sent) /\ (HasMoved => Told(messages, "SetDisplayPaths"))
  BY FramesSend DEF Lists, Telling
<1>4. /\ told \in States
      /\ Told(messages, "SetDisplayPaths") => OnCursor(told)
      /\ ~Told(messages, "SetDisplayPaths") => told.gui.paths = gui.paths
  BY <1>3, FrameLeaves
<1> HIDE DEF told
<1>5. /\ held' = held \cap {drag} /\ moved' = FALSE
      /\ UNCHANGED <<phase, squads, bodies, clickOn, drag, chat>>
  BY DEF Tick
<1>6. gui' \in Gui /\ events' \in Seq(Pushed)
  BY <1>2, <1>4 DEF States
<1>7. TypeOK'
  <2>1. \A e \in Pushed : e \in Event
    BY DEF Pushed, Event
  <2>2. events' \in Seq(Event)
    BY <1>6, <2>1
  <2>3. unseen' \in BOOLEAN /\ panicked' \in BOOLEAN
    BY <1>2, Zenon DEF Told, PostInv, TypeOK
  <2>4. cursor' \in Point /\ down' \in Point \cup {None}
    <3>1. CASE UNCHANGED <<cursor, down>>
      BY <3>1 DEF PostInv, TypeOK
    <3>2. CASE \E p \in Point \ {cursor} : SceneMoves(p)
      BY <3>2, SceneMovesTypes
    <3> QED BY <1>2, <3>1, <3>2
  <2> QED BY <1>5, <1>6, <2>2, <2>3, <2>4 DEF PostInv, TypeOK
<1>8. EventsInPlace'
  <2>1. \A i \in DOMAIN events' : events'[i].name \in {"Still", "Draw"}
    <3> TAKE i \in DOMAIN events'
    <3>1. events'[i] \in Pushed
      BY <1>6
    <3> QED BY <3>1 DEF Pushed
  <2> QED BY <2>1 DEF EventsInPlace, Clicks
<1>9. PathsToTheCursor'
  <2>1. CASE unseen' = (told.gui.paths # {})
    BY <1>2, <2>1 DEF PathsToTheCursor
  <2>2. CASE /\ UNCHANGED cursor
             /\ unseen' = (unseen /\ ~Told(messages, "SetDisplayPaths") /\ gui.paths # {})
    <3>1. CASE Told(messages, "SetDisplayPaths")
      BY <1>2, <1>4, <2>2, <3>1 DEF OnCursor, PathsToTheCursor
    <3>2. CASE ~Told(messages, "SetDisplayPaths")
      <4>1. unseen \/ \A path \in gui.paths : path.to = cursor
        BY <1>3, <3>2 DEF PostInv, PathsToTheCursor
      <4>2. gui'.paths = gui.paths /\ cursor' = cursor
        BY <1>2, <1>4, <2>2, <3>2
      <4>3. unseen /\ gui.paths # {} => unseen'
        BY <2>2, <3>2
      <4> QED BY <4>1, <4>2, <4>3 DEF PathsToTheCursor
    <3> QED BY <3>1, <3>2
  <2> QED BY <1>2, <2>1, <2>2
<1>10. DraggedIsHeld'
  BY <1>5 DEF PostInv, DraggedIsHeld
<1> QED BY <1>7, <1>8, <1>9, <1>10 DEF PostInv

LEMMA PushedLast ==
    ASSUME NEW M, NEW p \in Seq(M), NEW e \in M
    PROVE  /\ Append(p, e) \in Seq(M)
           /\ \A i \in DOMAIN Append(p, e) :
                 (i \in DOMAIN p /\ Append(p, e)[i] = p[i]) \/ Append(p, e)[i] = e
           /\ \A i \in DOMAIN p : i \in DOMAIN Append(p, e) /\ Append(p, e)[i] = p[i]
           /\ \E i \in DOMAIN Append(p, e) : Append(p, e)[i] = e
<1>1. Len(p) + 1 \in DOMAIN Append(p, e) /\ Append(p, e)[Len(p) + 1] = e
  OBVIOUS
<1> QED BY <1>1

(* What the server tells.                                                  *)
LEMMA ToldStep ==
    ASSUME PostInv, BeginBattle \/ \E q \in Squad : MergeSquad(q)
    PROVE  PostInv'
<1>1. CASE BeginBattle
  <2> DEFINE dropped == {events[i].squad : i \in {i \in DOMAIN events : events[i].name = "Drop"}}
  <2>1. /\ phase' = "Battle" /\ held' = (({drag} \ {None}) \cup dropped)
        /\ UNCHANGED <<squads, bodies, cursor, down, clickOn, drag, moved, unseen, chat, gui,
                       events, panicked>>
    BY <1>1 DEF BeginBattle, mouseVars
  <2>2. dropped \subseteq Squad
    <3>1. \A i \in DOMAIN events : events[i] \in Event
      BY DEF PostInv, TypeOK
    <3> QED BY <3>1, EventKinds
  <2>3. \A i \in DOMAIN events : events[i].name = "Drop" => events[i].squad \in held'
    BY <2>1
  <2> HIDE DEF dropped
  <2>4. TypeOK'
    BY <2>1, <2>2 DEF PostInv, TypeOK
  <2>5. EventsInPlace'
    BY <2>1, <2>3 DEF PostInv, EventsInPlace
  <2>6. PathsToTheCursor' /\ DraggedIsHeld'
    BY <2>1 DEF PostInv, PathsToTheCursor, HasMoved, DraggedIsHeld
  <2> QED BY <2>4, <2>5, <2>6 DEF PostInv
<1>2. CASE \E q \in Squad : MergeSquad(q)
  <2>1. PICK q \in Squad : MergeSquad(q)
    BY <1>2
  <2>2. /\ squads' = squads \ {q} /\ bodies' \in {bodies, bodies \cup {q}}
        /\ UNCHANGED <<phase, held, cursor, down, clickOn, drag, moved, unseen, chat, gui,
                       events, panicked>>
    BY <2>1 DEF MergeSquad, mouseVars
  <2>3. TypeOK'
    BY <2>2 DEF PostInv, TypeOK
  <2>4. EventsInPlace' /\ PathsToTheCursor' /\ DraggedIsHeld'
    BY <2>2 DEF PostInv, EventsInPlace, PathsToTheCursor, HasMoved, DraggedIsHeld
  <2> QED BY <2>3, <2>4 DEF PostInv
<1> QED BY <1>1, <1>2

(* What the player does without an event.                                  *)
LEMMA QuietStep ==
    ASSUME PostInv, \/ PressLeft \/ PressEscape \/ ToggleChat
                    \/ \E p \in Point : MoveUnderChat(p) \/ Zoom(p)
    PROVE  PostInv'
<1>1. CASE PressLeft
  <2>1. /\ down' = cursor /\ clickOn' \in BOOLEAN
        /\ \/ gui' = gui
           \/ \E q \in squads, kind \in Kind :
                 gui' = [gui EXCEPT !.pending = PendingOrders({q}, kind)]
        /\ UNCHANGED <<phase, squads, bodies, held, cursor, drag, moved, unseen, chat, events,
                       panicked>>
    BY <1>1 DEF PressLeft, battleVars, PostInv, TypeOK
  <2>2. gui' \in Gui /\ gui'.paths = gui.paths
    <3>1. gui \in Gui
      BY DEF PostInv, TypeOK
    <3>2. CASE gui' = gui
      BY <3>1, <3>2
    <3>3. CASE \E q \in squads, kind \in Kind :
                 gui' = [gui EXCEPT !.pending = PendingOrders({q}, kind)]
      <4>1. PICK q \in squads, kind \in Kind :
                 gui' = [gui EXCEPT !.pending = PendingOrders({q}, kind)]
        BY <3>3
      <4> DEFINE os == PendingOrders({q}, kind)
      <4>2. q \in Squad
        BY DEF PostInv, TypeOK
      <4>3. os \in SUBSET [squad : Squad, kind : Kind]
        BY <4>2 DEF PendingOrders
      <4> HIDE DEF os
      <4> QED BY <3>1, <4>1, <4>3, GuiSet DEF os
    <3> QED BY <2>1, <3>2, <3>3
  <2>3. TypeOK'
    BY <2>1, <2>2 DEF PostInv, TypeOK
  <2>4. EventsInPlace' /\ PathsToTheCursor' /\ DraggedIsHeld'
    BY <2>1, <2>2 DEF PostInv, EventsInPlace, PathsToTheCursor, HasMoved, DraggedIsHeld
  <2> QED BY <2>3, <2>4 DEF PostInv
<1>2. CASE PressEscape
  <2>1. /\ gui' = [gui EXCEPT !.pending = {}, !.paths = {}]
        /\ unseen' = (unseen /\ ClicksWait)
        /\ UNCHANGED <<phase, squads, bodies, held, cursor, down, clickOn, drag, moved, chat,
                       events, panicked>>
    BY <1>2 DEF PressEscape, battleVars
  <2>2. gui' \in Gui /\ gui'.paths = {}
    <3>1. gui \in Gui
      BY DEF PostInv, TypeOK
    <3> QED BY <2>1, <3>1 DEF Gui
  <2>3. unseen' \in BOOLEAN /\ (unseen /\ ClicksWait => unseen')
    BY <2>1
  <2>4. TypeOK'
    BY <2>1, <2>2, <2>3 DEF PostInv, TypeOK
  <2>5. EventsInPlace'
    BY <2>1, <2>3 DEF PostInv, EventsInPlace, ClicksWait
  <2>6. PathsToTheCursor' /\ DraggedIsHeld'
    BY <2>1, <2>2 DEF PostInv, PathsToTheCursor, DraggedIsHeld
  <2> QED BY <2>4, <2>5, <2>6 DEF PostInv
<1>3. CASE ToggleChat
  <2>1. /\ chat' = ~chat
        /\ UNCHANGED <<phase, squads, bodies, held, cursor, down, clickOn, drag, moved, unseen,
                       gui, events, panicked>>
    BY <1>3 DEF ToggleChat, battleVars, mouseVars
  <2>2. chat' \in BOOLEAN
    BY <2>1
  <2>3. TypeOK'
    BY <2>1, <2>2 DEF PostInv, TypeOK
  <2>4. EventsInPlace' /\ PathsToTheCursor' /\ DraggedIsHeld'
    BY <2>1 DEF PostInv, EventsInPlace, PathsToTheCursor, HasMoved, DraggedIsHeld
  <2> QED BY <2>3, <2>4 DEF PostInv
<1>4. CASE \E p \in Point : MoveUnderChat(p)
  <2>1. PICK p \in Point : MoveUnderChat(p)
    BY <1>4
  <2>2. /\ cursor' = p /\ moved' = TRUE /\ unseen' = (unseen \/ gui.paths # {})
        /\ UNCHANGED <<phase, squads, bodies, held, down, clickOn, drag, chat, gui, events,
                       panicked>>
    BY <2>1 DEF MoveUnderChat, battleVars
  <2>3. unseen' \in BOOLEAN
    BY <2>2
  <2>4. TypeOK'
    BY <2>2, <2>3 DEF PostInv, TypeOK
  <2>5. PathsToTheCursor'
    BY <2>2 DEF PathsToTheCursor
  <2>6. EventsInPlace' /\ DraggedIsHeld'
    BY <2>2 DEF PostInv, EventsInPlace, DraggedIsHeld
  <2> QED BY <2>4, <2>5, <2>6 DEF PostInv
<1>5. CASE \E p \in Point : Zoom(p)
  <2>1. PICK p \in Point : Zoom(p)
    BY <1>5
  <2>2. /\ SceneMoves(p) /\ unseen' = (unseen \/ gui.paths # {} \/ ClicksWait)
        /\ UNCHANGED <<phase, squads, bodies, held, clickOn, drag, moved, chat, gui, events,
                       panicked>>
    BY <2>1 DEF Zoom, battleVars
  <2>3. cursor' \in Point /\ down' \in Point \cup {None}
    BY <2>2, SceneMovesTypes
  <2>4. unseen' \in BOOLEAN /\ (ClicksWait => unseen') /\ (gui.paths # {} => unseen')
    BY <2>2
  <2>5. TypeOK'
    BY <2>2, <2>3, <2>4 DEF PostInv, TypeOK
  <2>6. PathsToTheCursor'
    BY <2>2, <2>4 DEF PathsToTheCursor
  <2>7. EventsInPlace' /\ DraggedIsHeld'
    BY <2>2, <2>4 DEF PostInv, EventsInPlace, ClicksWait, DraggedIsHeld
  <2> QED BY <2>5, <2>6, <2>7 DEF PostInv
<1> QED BY <1>1, <1>2, <1>3, <1>4, <1>5

(* An event of the mouse, in its place.                                    *)
LEMMA EventStep ==
    ASSUME PostInv, MoveMouse(cursor') \/ ReleaseLeft \/ ReleaseRight, cursor' \in Point
    PROVE  PostInv'
<1>0. /\ events \in Seq(Event) /\ gui \in Gui /\ cursor \in Point
      /\ drag \in Squad \cup {None} /\ squads \subseteq Squad /\ bodies \subseteq Squad
  BY DEF PostInv, TypeOK
<1>1. CASE MoveMouse(cursor')
  <2> DEFINE e == [name |-> "Move"]
  <2>1. /\ moved' = TRUE /\ events' = Append(events, e)
        /\ drag' = drag \/ (phase = "Placement" /\ drag' \in Named)
        /\ UNCHANGED <<phase, squads, bodies, held, down, clickOn, unseen, chat, gui, panicked>>
    <3>1. drag' = drag \/ (phase = "Placement" /\ drag' \in Named)
      BY <1>1, Zenon DEF MoveMouse
    <3>2. moved' = TRUE /\ events' = Append(events, e)
      BY <1>1, Zenon DEF MoveMouse
    <3>3. UNCHANGED <<phase, squads, bodies, held, down, clickOn, unseen, chat, gui, panicked>>
      BY <1>1, Zenon DEF MoveMouse, battleVars
    <3> QED BY <3>1, <3>2, <3>3
  <2>2. e \in Event /\ e.name = "Move"
    BY DEF Event
  <2> HIDE DEF e
  <2>3. /\ events' \in Seq(Event)
        /\ \A i \in DOMAIN events' :
              (i \in DOMAIN events /\ events'[i] = events[i]) \/ events'[i] = e
        /\ \E i \in DOMAIN events' : events'[i] = e
    BY <1>0, <2>1, <2>2, PushedLast
  <2>4. TypeOK'
    BY <2>1, <2>3 DEF PostInv, TypeOK, Named
  <2>5. EventsInPlace'
    BY <2>1, <2>2, <2>3 DEF PostInv, EventsInPlace
  <2>6. PathsToTheCursor'
    BY <2>2, <2>3 DEF PathsToTheCursor, HasMoved
  <2>7. DraggedIsHeld'
    BY <2>1 DEF PostInv, DraggedIsHeld
  <2> QED BY <2>4, <2>5, <2>6, <2>7 DEF PostInv
<1>2. CASE ReleaseLeft
  <2> DEFINE e == IF drag # None THEN [name |-> "Drop", squad |-> drag]
                  ELSE [name |-> IF down \in {None, cursor} THEN "Click" ELSE "Vector",
                        at |-> cursor]
  <2>1. /\ events' = events \/ events' = Append(events, e)
        /\ gui' = gui \/ \E q \in squads : gui' = [gui EXCEPT !.selected = {q}]
        /\ down' = None /\ drag' = None /\ clickOn' = FALSE
        /\ UNCHANGED <<phase, squads, bodies, held, cursor, moved, unseen, chat, panicked>>
    BY <1>2 DEF ReleaseLeft, battleVars
  <2>2. /\ e \in Event /\ e.name # "Move"
        /\ e.name \in Clicks => e.at = cursor
        /\ e.name = "Drop" => phase = "Placement" \/ e.squad \in held
    <3>1. CASE drag # None
      <4>1. e = [name |-> "Drop", squad |-> drag] /\ drag \in Squad
        BY <1>0, <3>1
      <4>2. phase = "Placement" \/ drag \in held
        BY <3>1 DEF PostInv, DraggedIsHeld
      <4> HIDE DEF e
      <4> QED BY <4>1, <4>2 DEF Event, Clicks
    <3>2. CASE drag = None
      <4>1. e \in {[name |-> "Click", at |-> cursor], [name |-> "Vector", at |-> cursor]}
        BY <3>2
      <4> HIDE DEF e
      <4> QED BY <1>0, <4>1 DEF Event
    <3> QED BY <3>1, <3>2
  <2> HIDE DEF e
  <2>3. /\ events' \in Seq(Event)
        /\ \A i \in DOMAIN events' :
              (i \in DOMAIN events /\ events'[i] = events[i]) \/ events'[i] = e
        /\ \A i \in DOMAIN events : i \in DOMAIN events' /\ events'[i] = events[i]
    BY <1>0, <2>1, <2>2, PushedLast
  <2>4. gui' \in Gui /\ gui'.paths = gui.paths
    <3>1. CASE gui' = gui
      BY <1>0, <3>1
    <3>2. CASE \E q \in squads : gui' = [gui EXCEPT !.selected = {q}]
      <4>1. PICK q \in squads : gui' = [gui EXCEPT !.selected = {q}]
        BY <3>2
      <4> DEFINE ids == {q}
      <4>2. ids \in SUBSET Squad
        BY <1>0
      <4> HIDE DEF ids
      <4> QED BY <1>0, <4>1, <4>2, GuiSet DEF ids
    <3> QED BY <2>1, <3>1, <3>2
  <2>5. TypeOK'
    BY <2>1, <2>3, <2>4 DEF PostInv, TypeOK
  <2>6. EventsInPlace'
    BY <2>1, <2>2, <2>3 DEF PostInv, EventsInPlace
  <2>7. PathsToTheCursor'
    BY <2>1, <2>3, <2>4 DEF PostInv, PathsToTheCursor, HasMoved
  <2>8. DraggedIsHeld'
    BY <2>1 DEF DraggedIsHeld
  <2> QED BY <2>5, <2>6, <2>7, <2>8 DEF PostInv
<1>3. CASE ReleaseRight
  <2> DEFINE e == [name |-> "Right", at |-> cursor]
  <2>1. /\ events' = Append(events, e)
        /\ UNCHANGED <<phase, squads, bodies, held, cursor, down, clickOn, drag, moved, unseen,
                       chat, gui, panicked>>
    BY <1>3 DEF ReleaseRight, battleVars, mouseVars
  <2>2. e \in Event /\ e.name = "Right" /\ e.at = cursor
    BY <1>0 DEF Event
  <2> HIDE DEF e
  <2>3. /\ events' \in Seq(Event)
        /\ \A i \in DOMAIN events' :
              (i \in DOMAIN events /\ events'[i] = events[i]) \/ events'[i] = e
        /\ \A i \in DOMAIN events : i \in DOMAIN events' /\ events'[i] = events[i]
    BY <1>0, <2>1, <2>2, PushedLast
  <2>4. TypeOK'
    BY <2>1, <2>3 DEF PostInv, TypeOK
  <2>5. EventsInPlace'
    BY <2>1, <2>2, <2>3 DEF PostInv, EventsInPlace
  <2>6. PathsToTheCursor' /\ DraggedIsHeld'
    BY <2>1, <2>3 DEF PostInv, PathsToTheCursor, HasMoved, DraggedIsHeld
  <2> QED BY <2>4, <2>5, <2>6 DEF PostInv
<1> QED BY <1>1, <1>2, <1>3

LEMMA PostStep == PostInv /\ [Next]_vars => PostInv'
<1> SUFFICES ASSUME PostInv, [Next]_vars PROVE PostInv'
  OBVIOUS
<1>1. CASE UNCHANGED vars \/ Stopped
  BY <1>1 DEF Stopped, vars, battleVars, mouseVars, PostInv, TypeOK, EventsInPlace,
              PathsToTheCursor, HasMoved, DraggedIsHeld
<1>2. CASE Tick
  BY <1>2, TickStep
<1>3. CASE BeginBattle \/ \E q \in Squad : MergeSquad(q)
  BY <1>3, ToldStep
<1>4. CASE \/ PressLeft \/ PressEscape \/ ToggleChat
           \/ \E p \in Point : MoveUnderChat(p) \/ Zoom(p)
  BY <1>4, QuietStep
<1>5. CASE ReleaseLeft \/ ReleaseRight \/ \E p \in Point : MoveMouse(p)
  <2>1. cursor' \in Point
    BY <1>5 DEF ReleaseLeft, ReleaseRight, mouseVars, MoveMouse, PostInv, TypeOK
  <2>2. (\E p \in Point : MoveMouse(p)) => MoveMouse(cursor')
    BY DEF MoveMouse
  <2> QED BY <1>5, <2>1, <2>2, EventStep
<1> QED BY <1>1, <1>2, <1>3, <1>4, <1>5 DEF Next, Player

(* The invariant: the events of a frame know the place of the cursor       *)
(* unless it changed since, the paths on display lead to it unless they    *)
(* are about to be cleared or it changed unseen (the cursor moved under    *)
(* the chat, the scene was scrolled or zoomed), and in a battle only who   *)
(* was held is dropped.                                                    *)
THEOREM PostInvariant == Spec => []PostInv
  BY PostInit, PostStep, PTL DEF Spec

(* Every order a frame gives goes where the player clicked, by a path that *)
(* was searched before or by the place of the cursor, unless the cursor    *)
(* moved in the same frame, or its place changed under paths on display or *)
(* a waiting click, by a move under the chat, by scrolling or by zoom.     *)
THEOREM OrdersGoThere == Spec => []OrdersGoWhereClicked
<1>1. ASSUME PostInv PROVE OrdersGoWhereClicked
  <2> SUFFICES ASSUME ~moved, ~unseen, NEW messages \in Frames, NEW i \in DOMAIN messages,
                      messages[i].name = "SetOrder", NEW o \in messages[i].orders
               PROVE  o.to = o.clicked
    BY DEF OrdersGoWhereClicked
  <2>1. messages \in Seq(Sent)
    BY <1>1, FramesSend DEF Lists
  <2>2. messages[i] \in Sent
    BY <2>1
  <2>3. o \in TrueOrders
    BY <2>2 DEF Sent
  <2> QED BY <2>3 DEF TrueOrders
<1> QED BY <1>1, PostInvariant, PTL

(* Once the battle goes on, a frame places by hand only who was held when  *)
(* it began.                                                               *)
THEOREM DropsWereHeld == Spec => []LateDropsWereHeld
<1>1. ASSUME PostInv PROVE LateDropsWereHeld
  <2> SUFFICES ASSUME phase # "Placement", NEW messages \in Frames, NEW i \in DOMAIN messages,
                      messages[i].name = "SetWorldPosition"
               PROVE  messages[i].squad \in held
    BY DEF LateDropsWereHeld
  <2>1. messages \in Seq(Sent)
    BY <1>1, FramesSend DEF Lists
  <2>2. messages[i] \in Sent
    BY <2>1
  <2>3. messages[i].squad \in MayDrop
    BY <2>2 DEF Sent
  <2> QED BY <2>3 DEF MayDrop
<1> QED BY <1>1, PostInvariant, PTL
=============================================================================
