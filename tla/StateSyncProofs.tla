--------------------------- MODULE StateSyncProofs ---------------------------
(***************************************************************************)
(* For any clients, hosts, changes and losses: what is lost between the    *)
(* server and a client is never forgotten (RepairUnderWay), and repaired   *)
(* to nothing that the server has undone (NothingInvented).                *)
(*                                                                         *)
(* Both speak of what is under way to a client, a concatenation of three   *)
(* queues.  The lemmas of the first two sections say how it changes when a *)
(* queue does, and how its outcome changes with it; the steps of the       *)
(* system are then read in those terms.                                    *)
(***************************************************************************)
EXTENDS StateSync, SequenceTheorems, WellFoundedInduction, TLAPS

-----------------------------------------------------------------------------
(* Sequences.                                                              *)

(* A non-empty set of indexes of a sequence has a greatest element.        *)
LEMMA LastIndex ==
    ASSUME NEW n \in Nat, NEW S \in SUBSET (1..n), S # {}
    PROVE  \E i \in S : \A j \in S : j <= i
<1>1. \A i \in S : i \in 1..n /\ n - i \in Nat
  OBVIOUS
<1> DEFINE T == {n - i : i \in S}
<1>2. T \subseteq Nat /\ T # {}
  BY <1>1
<1>3. PICK x \in T : \A y \in T : ~ (<<y, x>> \in OpToRel(<, Nat))
  BY <1>2, NatLessThanWellFounded, WFMin
<1>4. PICK i \in S : x = n - i
  BY <1>3
<1>5. ASSUME NEW j \in S PROVE j <= i
  <2>1. n - j \in T /\ n - j \in Nat /\ n - i \in Nat
    BY <1>1, <1>5
  <2>2. ~(n - j < n - i)
    BY <2>1, <1>3, <1>4 DEF OpToRel
  <2> QED BY <2>2, <1>1
<1> QED BY <1>5

(* Taking the head of a queue to the end of the one before it.             *)
LEMMA HandOver ==
    ASSUME NEW S, NEW s \in Seq(S), NEW t \in Seq(S), t # <<>>
    PROVE  Append(s, Head(t)) \o Tail(t) = s \o t
<1>1. Append(s, Head(t)) \o Tail(t) \in Seq(S)
  BY HeadTailProperties, AppendProperties, ConcatProperties
<1> QED BY <1>1

LEMMA TailOfConcat ==
    ASSUME NEW S, NEW s \in Seq(S), NEW t \in Seq(S), s # <<>>
    PROVE  /\ s \o t # <<>>
           /\ Head(s \o t) = Head(s)
           /\ Tail(s \o t) = Tail(s) \o t
OBVIOUS

LEMMA AppendToConcat ==
    ASSUME NEW S, NEW s \in Seq(S), NEW t \in Seq(S), NEW e \in S
    PROVE  s \o Append(t, e) = Append(s \o t, e)
OBVIOUS

-----------------------------------------------------------------------------
(* What messages make of a state.                                          *)

LEMMA MessageParts ==
    ASSUME NEW m \in Seq(Output), NEW i \in DOMAIN m
    PROVE  /\ m[i].kind \in {"tick", "copy"}
           /\ m[i].kind = "tick" => m[i].update \in Ticks
           /\ m[i].kind = "copy" => m[i].state \in SUBSET Update
<1>1. m[i] \in Output
  BY ElementOfSeq
<1> QED BY <1>1 DEF Output

(* The last copy is one of the copies, and none comes after it.            *)
LEMMA LastCopyIsLast ==
    ASSUME NEW m \in Seq(Output), CopiesIn(m) # {}
    PROVE  /\ LastCopy(m) \in CopiesIn(m)
           /\ \A j \in CopiesIn(m) : j <= LastCopy(m)
<1>1. Len(m) \in Nat /\ CopiesIn(m) \in SUBSET (1..Len(m))
  BY DEF CopiesIn
<1>2. \E i \in CopiesIn(m) : \A j \in CopiesIn(m) : j <= i
  BY <1>1, LastIndex
<1> QED BY <1>2 DEF LastCopy

(* ... so that it is known from these two facts.                           *)
LEMMA LastCopyIs ==
    ASSUME NEW m \in Seq(Output), NEW k \in CopiesIn(m),
           \A j \in CopiesIn(m) : j <= k
    PROVE  LastCopy(m) = k
<1>1. CopiesIn(m) \subseteq Nat
  BY DEF CopiesIn
<1>2. LastCopy(m) \in CopiesIn(m) /\ k <= LastCopy(m) /\ LastCopy(m) <= k
  BY LastCopyIsLast
<1> QED BY <1>1, <1>2

(* A tick at the end adds itself, if it is heard.                          *)
LEMMA OutcomeOfTickLast ==
    ASSUME NEW m \in Seq(Output), NEW t \in Ticks, NEW S, NEW deaf \in BOOLEAN
    PROVE  LET n == Append(m, TickMessages(t)) IN
           /\ CopiesIn(n) = CopiesIn(m)
           /\ CopiesIn(m) # {} \/ ~deaf =>
                 Outcome(n, S, deaf) = Outcome(m, S, deaf) \cup {t}
<1> DEFINE n == Append(m, TickMessages(t))
<1>1. TickMessages(t) \in Output /\ TickMessages(t).kind = "tick"
      /\ TickMessages(t).update = t
  BY DEF TickMessages, Output
<1>2. /\ n \in Seq(Output) /\ Len(n) = Len(m) + 1 /\ Len(m) \in Nat
      /\ DOMAIN n = 1..(Len(m) + 1) /\ DOMAIN m = 1..Len(m)
      /\ \A i \in DOMAIN m : n[i] = m[i]
      /\ n[Len(m) + 1].kind = "tick" /\ n[Len(m) + 1].update = t
  BY <1>1
<1> HIDE DEF n
<1>3. CopiesIn(n) = CopiesIn(m)
  BY <1>2 DEF CopiesIn
<1>4. ASSUME NEW k \in 0..Len(m)
      PROVE  TicksAfter(n, k) = TicksAfter(m, k) \cup {t}
  BY <1>2, <1>4 DEF TicksAfter
<1>5. CASE CopiesIn(m) # {}
  <2>1. LastCopy(n) = LastCopy(m) /\ LastCopy(m) \in 1..Len(m)
    BY <1>2, <1>3, <1>5, LastCopyIsLast, LastCopyIs DEF CopiesIn
  <2> QED BY <2>1, <1>2, <1>3, <1>4, <1>5 DEF Outcome, n
<1>6. CASE CopiesIn(m) = {} /\ ~deaf
  BY <1>2, <1>3, <1>4, <1>6 DEF Outcome, n
<1> QED BY <1>3, <1>5, <1>6 DEF n

(* A copy at the end decides alone.                                        *)
LEMMA OutcomeOfCopyLast ==
    ASSUME NEW m \in Seq(Output), NEW C \in SUBSET Update, NEW S, NEW deaf \in BOOLEAN
    PROVE  LET n == Append(m, LoadFromCopy(C)) IN
           /\ CopiesIn(n) # {}
           /\ Outcome(n, S, deaf) = C
<1> DEFINE n == Append(m, LoadFromCopy(C))
<1>1. LoadFromCopy(C) \in Output /\ LoadFromCopy(C).kind = "copy"
      /\ LoadFromCopy(C).state = C
  BY DEF LoadFromCopy, Output
<1>2. /\ n \in Seq(Output) /\ Len(m) \in Nat
      /\ DOMAIN n = 1..(Len(m) + 1)
      /\ n[Len(m) + 1].kind = "copy" /\ n[Len(m) + 1].state = C
  BY <1>1
<1> HIDE DEF n
<1>3. Len(m) + 1 \in CopiesIn(n) /\ \A j \in CopiesIn(n) : j <= Len(m) + 1
  BY <1>2 DEF CopiesIn
<1>4. LastCopy(n) = Len(m) + 1
  BY <1>2, <1>3, LastCopyIs
<1>5. TicksAfter(n, Len(m) + 1) = {}
  BY <1>2 DEF TicksAfter
<1> QED BY <1>2, <1>3, <1>4, <1>5 DEF Outcome, n

(* Where a later copy decides, it does not matter what comes before.       *)
LEMMA OutcomeOfTail ==
    ASSUME NEW m \in Seq(Output), m # <<>>, NEW S, NEW deaf \in BOOLEAN
    PROVE  /\ CopiesIn(Tail(m)) # {} =>
                 /\ CopiesIn(m) # {}
                 /\ \A T, dumb : Outcome(m, S, deaf) = Outcome(Tail(m), T, dumb)
           /\ Head(m).kind = "tick" =>
                 /\ CopiesIn(Tail(m)) # {} <=> CopiesIn(m) # {}
                 /\ Outcome(m, S, FALSE) = Outcome(Tail(m), S \cup {Head(m).update}, FALSE)
           /\ Head(m).kind = "copy" =>
                 /\ CopiesIn(m) # {}
                 /\ Outcome(m, S, deaf) = Outcome(Tail(m), Head(m).state, FALSE)
<1> DEFINE n == Tail(m)
<1>1. /\ n \in Seq(Output) /\ Len(n) = Len(m) - 1 /\ Len(m) \in Nat \ {0}
      /\ DOMAIN m = 1..Len(m) /\ DOMAIN n = 1..(Len(m) - 1)
      /\ \A i \in DOMAIN n : n[i] = m[i + 1]
      /\ Head(m) = m[1]
  BY HeadTailProperties
<1> HIDE DEF n
<1>2. m[1].kind \in {"tick", "copy"}
  BY <1>1, MessageParts
<1>3. \A i \in DOMAIN m : i # 1 => i - 1 \in DOMAIN n /\ n[i - 1] = m[i]
  BY <1>1
<1>4. \A i \in DOMAIN m : i \in CopiesIn(m) <=>
          (i = 1 /\ m[1].kind = "copy") \/ (i # 1 /\ i - 1 \in CopiesIn(n))
  BY <1>1, <1>3 DEF CopiesIn
<1>5. \A k \in 0..Len(n) : TicksAfter(m, k + 1) = TicksAfter(n, k)
  <2> TAKE k \in 0..Len(n)
  <2>1. ASSUME NEW u \in TicksAfter(m, k + 1) PROVE u \in TicksAfter(n, k)
    <3>1. PICK i \in DOMAIN m : i > k + 1 /\ m[i].kind = "tick" /\ u = m[i].update
      BY <2>1 DEF TicksAfter
    <3> QED BY <3>1, <1>1, <1>3 DEF TicksAfter
  <2>2. ASSUME NEW u \in TicksAfter(n, k) PROVE u \in TicksAfter(m, k + 1)
    <3>1. PICK i \in DOMAIN n : i > k /\ n[i].kind = "tick" /\ u = n[i].update
      BY <2>2 DEF TicksAfter
    <3>2. i + 1 \in DOMAIN m /\ i + 1 > k + 1
      BY <3>1, <1>1
    <3> QED BY <3>1, <3>2, <1>1 DEF TicksAfter
  <2> QED BY <2>1, <2>2
<1>6. CASE CopiesIn(n) # {}
  <2>1. /\ LastCopy(n) \in CopiesIn(n) /\ LastCopy(n) \in DOMAIN n
        /\ \A j \in CopiesIn(n) : j <= LastCopy(n)
    BY <1>1, <1>6, LastCopyIsLast DEF CopiesIn
  <2>2. LastCopy(n) + 1 \in CopiesIn(m)
    <3> DEFINE k == LastCopy(n) + 1
    <3>1. k \in DOMAIN m /\ k # 1 /\ k - 1 \in CopiesIn(n)
      BY <2>1, <1>1
    <3> HIDE DEF k
    <3> QED BY <3>1, <1>4 DEF k
  <2>3. \A j \in CopiesIn(m) : j <= LastCopy(n) + 1
    <3> TAKE j \in CopiesIn(m)
    <3>1. j \in DOMAIN m /\ (j = 1 \/ j - 1 \in CopiesIn(n))
      BY <1>4 DEF CopiesIn
    <3> QED BY <3>1, <2>1, <1>1
  <2>4. LastCopy(m) = LastCopy(n) + 1
    BY <2>2, <2>3, LastCopyIs
  <2>5. m[LastCopy(m)] = n[LastCopy(n)] /\ TicksAfter(m, LastCopy(m)) = TicksAfter(n, LastCopy(n))
    BY <2>1, <2>4, <1>1, <1>5
  <2> QED BY <2>2, <2>5, <1>6 DEF Outcome, n
<1>7. CASE CopiesIn(n) = {} /\ m[1].kind = "copy"
  <2>1. CopiesIn(m) = {1}
    BY <1>1, <1>4, <1>7 DEF CopiesIn
  <2>2. LastCopy(m) = 1
    BY <2>1, LastCopyIs
  <2>3. TicksAfter(m, 1) = TicksAfter(n, 0)
    BY <1>1, <1>5
  <2> QED BY <2>1, <2>2, <2>3, <1>1, <1>7 DEF Outcome, n
<1>8. CASE CopiesIn(n) = {} /\ m[1].kind = "tick"
  <2>1. CopiesIn(m) = {}
    BY <1>4, <1>8 DEF CopiesIn
  <2>2. TicksAfter(m, 0) = {m[1].update} \cup TicksAfter(n, 0)
    <3>1. TicksAfter(m, 1) = TicksAfter(n, 0)
      BY <1>1, <1>5
    <3>2. TicksAfter(m, 0) = {m[1].update} \cup TicksAfter(m, 1)
      BY <1>1, <1>8 DEF TicksAfter
    <3> QED BY <3>1, <3>2
  <2> QED BY <2>1, <2>2, <1>1, <1>8 DEF Outcome, n
<1> QED BY <1>2, <1>6, <1>7, <1>8 DEF n

(* In particular, what it is for a client that hears or not.               *)
LEMMA CopyDecides ==
    ASSUME NEW m \in Seq(Output), m # <<>>, CopiesIn(Tail(m)) # {},
           NEW S, NEW deaf \in BOOLEAN
    PROVE  CopiesIn(m) # {} /\ Outcome(m, S, deaf) = Outcome(Tail(m), S, deaf)
<1>1. \A T, dumb : Outcome(m, S, deaf) = Outcome(Tail(m), T, dumb)
  BY OutcomeOfTail
<1>2. CopiesIn(m) # {}
  BY OutcomeOfTail
<1> QED BY <1>1, <1>2

-----------------------------------------------------------------------------
(* Gaps in the ids.                                                        *)

(* A gap stays when an id is added after it.                               *)
LEMMA GapStays ==
    ASSUME NEW s \in Seq(Nat), NEW e \in Nat, HasGap(s)
    PROVE  HasGap(Append(s, e))
BY DEF HasGap, Gap

(* Where the next id is skipped, there is a gap or nothing was known.      *)
LEMMA SkippedIdShows ==
    ASSUME NEW s \in Seq(Nat), NEW p \in Nat, s # <<>>,
           s[Len(s)] # 0, s[Len(s)] <= p
    PROVE  HasGap(Append(s, p + 2))
<1> DEFINE t == Append(s, p + 2)
<1>1. /\ Len(s) \in Nat \ {0} /\ Len(t) = Len(s) + 1
      /\ t[Len(s)] = s[Len(s)] /\ t[Len(s) + 1] = p + 2 /\ s[Len(s)] \in Nat
  OBVIOUS
<1> HIDE DEF t
<1>2. Gap(t[Len(s)], t[Len(s) + 1])
  BY <1>1 DEF Gap
<1> QED BY <1>1, <1>2 DEF HasGap, t

(* Whoever checks the first two ids, and sees no gap, has it ahead.        *)
LEMMA GapIsLater ==
    ASSUME NEW s \in Seq(Nat), Len(s) >= 2, ~Gap(s[1], s[2]), HasGap(s)
    PROVE  HasGap(Tail(s))
<1>1. PICK i \in 1..(Len(s) - 1) : Gap(s[i], s[i + 1])
  BY DEF HasGap
<1>2. /\ i - 1 \in 1..(Len(Tail(s)) - 1)
      /\ Tail(s)[i - 1] = s[i] /\ Tail(s)[i - 1 + 1] = s[i + 1]
  <2>1. i # 1
    BY <1>1
  <2>2. Len(Tail(s)) = Len(s) - 1 /\ \A j \in 1..Len(Tail(s)) : Tail(s)[j] = s[j + 1]
    BY HeadTailProperties
  <2>3. i - 1 \in 1..Len(Tail(s)) /\ i \in 1..Len(Tail(s)) /\ i - 1 + 1 = i
    BY <2>1, <2>2
  <2> QED BY <2>1, <2>2, <2>3
<1> QED BY <1>1, <1>2 DEF HasGap

-----------------------------------------------------------------------------
(* Types.                                                                  *)

LEMMA MessagesAreTyped ==
    /\ RequireCompleteSync \in Input
    /\ \A o \in Order : Change(o) \in Input
    /\ \A S \in SUBSET Update : SetBattleState(S) \in Input /\ LoadFromCopy(S) \in Output
    /\ \A t \in Ticks : TickMessages(t) \in Output
    /\ \A i \in Input : /\ i.kind \in {"sync", "change", "load"}
                        /\ i.kind = "sync" => i = RequireCompleteSync
                        /\ i.kind = "change" => i.order \in Order
                        /\ i.kind = "load" => i.state \in SUBSET Update
    /\ \A o \in Output : /\ o.kind \in {"tick", "copy"}
                         /\ o.kind = "tick" => o.update \in Ticks
                         /\ o.kind = "copy" => o.state \in SUBSET Update
BY DEF RequireCompleteSync, Change, SetBattleState, LoadFromCopy, TickMessages, Input, Output

(* A queue of one client, and what follows when it grows or loses its head. *)
LEMMA QueuesAreTyped ==
    ASSUME NEW S, NEW q \in [Client -> Seq(S)], NEW c \in Client
    PROVE  /\ \A e \in S : [q EXCEPT ![c] = Append(@, e)] \in [Client -> Seq(S)]
           /\ q[c] # <<>> => /\ [q EXCEPT ![c] = Tail(@)] \in [Client -> Seq(S)]
                             /\ Head(q[c]) \in S
BY AppendProperties, HeadTailProperties

LEMMA CopyIsTyped == \A S \in SUBSET Update : Copy(S) \in SUBSET Update
BY SyncAssumption DEF Copy, Update

(* The variables keep their types, whatever is lost or loaded.             *)
LEMMA TypeStep == TypeOK /\ [Next]_vars => TypeOK'
<1> SUFFICES ASSUME TypeOK, [Next]_vars PROVE TypeOK'
  OBVIOUS
<1>0. pubCounter' = pubCounter => Envelope' = Envelope
  BY DEF Envelope
<1>1. CASE Tick
  <2>1. ticks + 1 \in Ticks /\ ticks' \in 0..MaxTicks
    BY <1>1, SyncAssumption DEF TypeOK, Tick, Ticks
  <2>2. server' \subseteq Update
    <3>1. PICK own \in SUBSET {Own(ticks + 1)} : server' = server \cup {ticks + 1} \cup own
      BY <1>1 DEF Tick
    <3> QED BY <2>1, <3>1 DEF TypeOK, Update
  <2>3. outbox' \in Seq(Output)
    BY <1>1, <2>1, MessagesAreTyped, AppendProperties DEF TypeOK, Tick
  <2> QED BY <1>0, <1>1, <2>1, <2>2, <2>3
      DEF TypeOK, Tick, networkVars, engineVars, subVars, playerVars
<1>2. CASE Publish
  <2>1. Head(outbox) \in Output /\ Tail(outbox) \in Seq(Output)
    BY <1>2, HeadTailProperties DEF Publish, TypeOK
  <2>2. inbox' \in [Client -> Seq(Output)]
    BY <1>2, <2>1, AppendProperties DEF Publish, TypeOK
  <2>3. pubCounter' = pubCounter + 1 /\ pubCounter \in Nat
    BY <1>2 DEF Publish, TypeOK
  <2>4. link' \in [Client -> Seq(Envelope')]
    <3>1. Envelope \subseteq Envelope' /\ [id |-> pubCounter + 1, messages |-> Head(outbox)] \in Envelope'
      BY <2>1, <2>3 DEF Envelope
    <3>2. \A c \in Client : link[c] \in Seq(Envelope')
      BY <3>1, SeqMonotonic DEF TypeOK
    <3>3. PICK lost \in SUBSET subscribed :
            link' = [c \in Client |->
                      IF c \in subscribed \ lost
                      THEN Append(link[c], [id |-> pubCounter + 1, messages |-> Head(outbox)])
                      ELSE link[c]]
      BY <1>2 DEF Publish, NextId
    <3> QED BY <3>1, <3>2, <3>3, AppendProperties
  <2>5. handled' \in [Client -> 0..pubCounter'] /\ lastCounter' \in [Client -> 0..pubCounter']
    <3>1. 0..pubCounter \subseteq 0..pubCounter'
      BY <2>3
    <3> QED BY <3>1, <1>2 DEF TypeOK, Publish, subVars
  <2>6. UNCHANGED <<server, ticks, subscribed, view, heard, connected, issued, saved, loads,
                    requests, syncRequired>>
    BY <1>2 DEF Publish, playerVars
  <2>7. outbox' = Tail(outbox)
    BY <1>2 DEF Publish
  <2> QED BY <2>1, <2>2, <2>3, <2>4, <2>5, <2>6, <2>7 DEF TypeOK
<1>3. ASSUME NEW c \in Client, Connect(c) \/ Subscribe(c)
      PROVE  TypeOK'
  <2>1. requests' \in [Client -> Seq(Input)]
    <3>1. CASE Connect(c)
      BY <3>1, QueuesAreTyped, MessagesAreTyped DEF TypeOK, Connect
    <3>2. CASE Subscribe(c)
      BY <3>2 DEF TypeOK, Subscribe
    <3> QED BY <1>3, <3>1, <3>2
  <2> QED BY <1>0, <1>3, <2>1 DEF TypeOK, Connect, Subscribe, serverVars, networkVars,
         engineVars, subVars, playerVars
<1>4. ASSUME NEW c \in Client, Serve(c)
      PROVE  TypeOK'
  <2>1. PICK kind : ServeKind(c, kind)
    BY <1>4 DEF Serve, ServeSync, ServeChange, ServeLoad
  <2>2. Head(requests[c]) \in Input /\ requests' \in [Client -> Seq(Input)]
    BY <2>1, QueuesAreTyped DEF TypeOK, ServeKind
  <2>3. server' \in SUBSET Update /\ outbox' \in Seq(Output)
    <3>1. CASE ServeSync(c)
      <4>1. LoadFromCopy(Copy(server)) \in Output
        BY CopyIsTyped, MessagesAreTyped DEF TypeOK
      <4> QED BY <3>1, <4>1, AppendProperties DEF TypeOK, ServeSync
    <3>2. CASE ServeChange(c)
      <4>1. Head(requests[c]).order \in Order
        BY <2>2, <3>2, MessagesAreTyped DEF ServeChange, ServeKind
      <4> QED BY <3>2, <4>1 DEF TypeOK, ServeChange, Update
    <3>3. CASE ServeLoad(c)
      <4>1. Head(requests[c]).state \in SUBSET Update
        BY <2>2, <3>3, MessagesAreTyped DEF ServeLoad, ServeKind
      <4> QED BY <3>3, <4>1, MessagesAreTyped, AppendProperties DEF TypeOK, ServeLoad
    <3> QED BY <1>4, <3>1, <3>2, <3>3 DEF Serve
  <2> QED BY <1>0, <2>1, <2>2, <2>3
      DEF TypeOK, ServeKind, networkVars, engineVars, subVars, playerVars
<1>5. ASSUME NEW c \in Client, Receive(c)
      PROVE  TypeOK'
  <2>1. Head(link[c]) \in Envelope /\ link' \in [Client -> Seq(Envelope)]
    BY <1>5, QueuesAreTyped DEF Receive, TypeOK
  <2>2. Head(link[c]).messages \in Output /\ Head(link[c]).id \in 0..pubCounter
    BY <2>1 DEF Envelope
  <2>3. inbox' \in [Client -> Seq(Output)] /\ handled' \in [Client -> 0..pubCounter]
    BY <1>5, <2>2, QueuesAreTyped DEF TypeOK, Receive
  <2> QED BY <1>0, <1>5, <2>1, <2>3 DEF TypeOK, Receive, serverVars, playerVars
<1>6. ASSUME NEW c \in Client, Check(c)
      PROVE  TypeOK'
  <2>1. requests' \in [Client -> Seq(Input)]
    <3>1. [requests EXCEPT ![c] = Append(@, RequireCompleteSync)] \in [Client -> Seq(Input)]
      BY QueuesAreTyped, MessagesAreTyped DEF TypeOK
    <3> QED BY <1>6, <3>1 DEF TypeOK, Check
  <2>2. /\ syncRequired' \in [Client -> BOOLEAN]
        /\ lastCounter' \in [Client -> 0..pubCounter] /\ handled' \in [Client -> 0..pubCounter]
        /\ heard' \subseteq Client
    <3>1. handled[c] \in 0..pubCounter /\ 0 \in 0..pubCounter
      BY DEF TypeOK
    <3>2. /\ lastCounter' = [lastCounter EXCEPT ![c] = handled[c]]
          /\ handled' = [handled EXCEPT ![c] = 0]
          /\ syncRequired' \in {syncRequired, [syncRequired EXCEPT ![c] = TRUE]}
          /\ heard' \in {heard, heard \cup {c}}
      BY <1>6 DEF Check
    <3> QED BY <3>1, <3>2 DEF TypeOK
  <2> QED BY <1>0, <1>6, <2>1, <2>2
      DEF TypeOK, Check, serverVars, networkVars, engineVars, playerVars
<1>7. ASSUME NEW c \in Client, Sync(c)
      PROVE  TypeOK'
  <2>1. PICK kind : SyncKind(c, kind)
    BY <1>7 DEF Sync, SyncCopy, SyncTick
  <2>2. Head(inbox[c]) \in Output /\ inbox' \in [Client -> Seq(Output)]
    BY <2>1, QueuesAreTyped DEF TypeOK, SyncKind
  <2>3. view' \in [Client -> SUBSET Update] /\ syncRequired' \in [Client -> BOOLEAN]
        /\ heard' \subseteq Client
    <3>1. CASE SyncCopy(c)
      <4>1. Head(inbox[c]).state \in SUBSET Update
        BY <2>2, <3>1, MessagesAreTyped DEF SyncCopy, SyncKind
      <4> QED BY <3>1, <4>1 DEF TypeOK, SyncCopy
    <3>2. CASE SyncTick(c)
      <4>1. Head(inbox[c]).update \in Update
        BY <2>2, <3>2, MessagesAreTyped DEF SyncTick, SyncKind, Update
      <4> QED BY <3>2, <4>1 DEF TypeOK, SyncTick
    <3> QED BY <1>7, <3>1, <3>2 DEF Sync
  <2> QED BY <1>0, <2>1, <2>2, <2>3 DEF TypeOK, SyncKind, serverVars, networkVars, subVars, playerVars
<1>8. ASSUME NEW c \in Client, Player(c)
      PROVE  TypeOK'
  <2>1. CASE MakeASave(c)
    <3>1. Copy(view[c]) \in SUBSET Update
      BY CopyIsTyped DEF TypeOK
    <3> QED BY <1>0, <2>1, <3>1
        DEF TypeOK, MakeASave, serverVars, networkVars, engineVars, subVars
  <2>2. CASE LoadFromSave(c)
    <3>1. saved[c] \in SUBSET Update
      BY DEF TypeOK
    <3>2. requests' \in [Client -> Seq(Input)]
      BY <2>2, <3>1, QueuesAreTyped, MessagesAreTyped DEF TypeOK, LoadFromSave
    <3>3. loads' \in 0..MaxLoads
      BY <2>2, SyncAssumption DEF TypeOK, LoadFromSave
    <3> QED BY <1>0, <2>2, <3>2, <3>3
        DEF TypeOK, LoadFromSave, serverVars, networkVars, engineVars, subVars
  <2>3. ASSUME NEW o \in Order, IssueChange(c, o)
        PROVE  TypeOK'
    <3>1. requests' \in [Client -> Seq(Input)]
      BY <2>3, QueuesAreTyped, MessagesAreTyped DEF TypeOK, IssueChange
    <3>2. view' \in [Client -> SUBSET Update] /\ issued' \subseteq Order
      <4>1. o \in Update
        BY DEF Update
      <4> QED BY <2>3, <4>1 DEF TypeOK, IssueChange
    <3> QED BY <1>0, <2>3, <3>1, <3>2 DEF TypeOK, IssueChange, serverVars, networkVars, subVars
  <2> QED BY <1>8, <2>1, <2>2, <2>3 DEF Player
<1>9. CASE UNCHANGED vars
  BY <1>0, <1>9 DEF TypeOK, vars, serverVars, networkVars, engineVars, subVars, playerVars
<1> QED BY <1>1, <1>2, <1>3, <1>4, <1>5, <1>6, <1>7, <1>8, <1>9 DEF Next, Finished

-----------------------------------------------------------------------------
(* The invariant, client by client.                                        *)

Repaired(c) ==
    /\ \/ LossAhead(c) \/ CopyRequested(c) \/ ~WillListen(c)
       \/ /\ Foreseen(c) \cap Ticks = server \cap Ticks
          /\ Foreseen(c) \subseteq server \cup Changes(c)
    /\ c \in Host \cup heard => LossAhead(c) \/ CopyRequested(c) \/ WillListen(c)

ClientInv(c) ==
    /\ c \in Host => link[c] = <<>> /\ handled[c] = 0
    /\ c \in Remote /\ ~Reached(c) => syncRequired[c] /\ inbox[c] = <<>> /\ c \notin heard
    /\ c \in connected => Repaired(c)

LEMMA ClientByClient == TypeOK => (SyncInv <=> \A c \in Client : ClientInv(c))
BY SyncAssumption
   DEF SyncInv, ClientInv, Repaired, HostsUseTheChannel, UnreachedKnowNothing,
       ListenersFollow, DeafOnesAsk, NothingInvented, TypeOK, Remote

(* The queues a client's future is read from.                              *)
MessagesIn(l) == [i \in DOMAIN l |-> l[i].messages]
IdsIn(l)      == [i \in DOMAIN l |-> l[i].id]

LEMMA LinkParts ==
    ASSUME TypeOK, NEW l \in Seq(Envelope)
    PROVE  /\ MessagesIn(l) \in Seq(Output) /\ IdsIn(l) \in Seq(Nat)
           /\ Len(MessagesIn(l)) = Len(l) /\ Len(IdsIn(l)) = Len(l)
           /\ \A i \in 1..Len(l) : IdsIn(l)[i] \in 1..pubCounter
           /\ l # <<>> =>
                /\ Head(l) \in Envelope
                /\ MessagesIn(l) # <<>> /\ IdsIn(l) # <<>>
                /\ Head(MessagesIn(l)) = Head(l).messages /\ Head(IdsIn(l)) = Head(l).id
                /\ MessagesIn(Tail(l)) = Tail(MessagesIn(l))
                /\ IdsIn(Tail(l)) = Tail(IdsIn(l))
<1>1. \A i \in 1..Len(l) : l[i].messages \in Output /\ l[i].id \in 1..pubCounter
                             /\ l[i].id \in Nat
  <2>1. \A i \in 1..Len(l) : l[i] \in Envelope
    BY ElementOfSeq
  <2> QED BY <2>1 DEF Envelope, TypeOK
<1>2. DOMAIN l = 1..Len(l) /\ Len(l) \in Nat
  OBVIOUS
<1>3. /\ MessagesIn(l) \in Seq(Output) /\ IdsIn(l) \in Seq(Nat)
      /\ Len(MessagesIn(l)) = Len(l) /\ Len(IdsIn(l)) = Len(l)
      /\ \A i \in 1..Len(l) : MessagesIn(l)[i] = l[i].messages /\ IdsIn(l)[i] = l[i].id
  BY <1>1, <1>2 DEF MessagesIn, IdsIn
<1>4. ASSUME l # <<>>
      PROVE  /\ MessagesIn(Tail(l)) = Tail(MessagesIn(l))
             /\ IdsIn(Tail(l)) = Tail(IdsIn(l))
  <2>1. /\ Tail(l) \in Seq(Envelope) /\ Len(Tail(l)) = Len(l) - 1
        /\ DOMAIN Tail(l) = 1..(Len(l) - 1)
        /\ \A i \in 1..(Len(l) - 1) : Tail(l)[i] = l[i + 1]
    BY <1>4, HeadTailProperties
  <2>2. MessagesIn(l) # <<>> /\ IdsIn(l) # <<>>
    BY <1>2, <1>3, <1>4
  <2>3. /\ Tail(MessagesIn(l)) \in Seq(Output) /\ Len(Tail(MessagesIn(l))) = Len(l) - 1
        /\ \A i \in 1..(Len(l) - 1) : Tail(MessagesIn(l))[i] = l[i + 1].messages
        /\ Tail(IdsIn(l)) \in Seq(Nat) /\ Len(Tail(IdsIn(l))) = Len(l) - 1
        /\ \A i \in 1..(Len(l) - 1) : Tail(IdsIn(l))[i] = l[i + 1].id
    BY <1>2, <1>3, <2>2, HeadTailProperties
  <2>4. /\ MessagesIn(Tail(l)) \in Seq(Output) /\ Len(MessagesIn(Tail(l))) = Len(l) - 1
        /\ \A i \in 1..(Len(l) - 1) : MessagesIn(Tail(l))[i] = l[i + 1].messages
        /\ IdsIn(Tail(l)) \in Seq(Nat) /\ Len(IdsIn(Tail(l))) = Len(l) - 1
        /\ \A i \in 1..(Len(l) - 1) : IdsIn(Tail(l))[i] = l[i + 1].id
    BY <1>1, <1>2, <2>1 DEF MessagesIn, IdsIn
  <2> QED BY <2>3, <2>4, SeqEqual
<1>5. ASSUME l # <<>>
      PROVE  /\ Head(l) \in Envelope
             /\ MessagesIn(l) # <<>> /\ IdsIn(l) # <<>>
             /\ Head(MessagesIn(l)) = Head(l).messages /\ Head(IdsIn(l)) = Head(l).id
  BY <1>2, <1>3, <1>5, HeadTailProperties
<1> QED BY <1>1, <1>3, <1>4, <1>5

LEMMA QueueParts ==
    ASSUME TypeOK, NEW c \in Client
    PROVE  /\ UnderWay(c) = (inbox[c] \o MessagesIn(link[c])) \o outbox
           /\ UnderWay(c) \in Seq(Output)
           /\ IdsKnown(c) = (<<lastCounter[c]>> \o
                               (IF handled[c] = 0 THEN <<>> ELSE <<handled[c]>>))
                             \o IdsIn(link[c])
           /\ IdsKnown(c) \in Seq(Nat) /\ IdsKnown(c) # <<>>
           /\ IdsKnown(c)[Len(IdsKnown(c))] <= pubCounter
           /\ Reached(c) => IdsKnown(c)[Len(IdsKnown(c))] # 0
<1>1. /\ inbox[c] \in Seq(Output) /\ outbox \in Seq(Output) /\ link[c] \in Seq(Envelope)
      /\ lastCounter[c] \in 0..pubCounter /\ handled[c] \in 0..pubCounter /\ pubCounter \in Nat
  BY DEF TypeOK
<1> DEFINE first == <<lastCounter[c]>> \o (IF handled[c] = 0 THEN <<>> ELSE <<handled[c]>>)
<1>2. /\ MessagesIn(link[c]) \in Seq(Output) /\ IdsIn(link[c]) \in Seq(Nat)
      /\ Len(IdsIn(link[c])) = Len(link[c])
      /\ \A i \in 1..Len(link[c]) : IdsIn(link[c])[i] \in 1..pubCounter
  BY <1>1, LinkParts
<1>3. /\ UnderWay(c) = (inbox[c] \o MessagesIn(link[c])) \o outbox
      /\ UnderWay(c) \in Seq(Output)
  BY <1>1, <1>2, ConcatProperties DEF UnderWay, MessagesIn
<1>4. first \in Seq(Nat) /\ first # <<>> /\ first[Len(first)] <= pubCounter
      /\ (lastCounter[c] # 0 \/ handled[c] # 0 => first[Len(first)] # 0)
      /\ Len(first) \in Nat \ {0}
  <2>1. CASE handled[c] = 0
    <3>1. first = <<lastCounter[c]>>
      BY <1>1, <2>1
    <3> QED BY <1>1, <2>1, <3>1
  <2>2. CASE handled[c] # 0
    <3>1. first = <<lastCounter[c]>> \o <<handled[c]>>
      BY <2>2
    <3>2. /\ <<lastCounter[c]>> \in Seq(Nat) /\ Len(<<lastCounter[c]>>) = 1
          /\ <<handled[c]>> \in Seq(Nat) /\ Len(<<handled[c]>>) = 1
          /\ <<handled[c]>>[1] = handled[c]
      BY <1>1
    <3>3. first \in Seq(Nat) /\ Len(first) = 2 /\ first[2] = handled[c]
      BY <3>1, <3>2, ConcatProperties
    <3> QED BY <1>1, <2>2, <3>3
  <2> QED BY <2>1, <2>2
<1>5. IdsKnown(c) = first \o IdsIn(link[c])
  BY DEF IdsKnown, IdsIn
<1> HIDE DEF first
<1>6. /\ IdsKnown(c) \in Seq(Nat) /\ Len(IdsKnown(c)) = Len(first) + Len(link[c])
      /\ IdsKnown(c) # <<>>
      /\ IdsKnown(c)[Len(IdsKnown(c))] =
            IF link[c] = <<>> THEN first[Len(first)] ELSE IdsIn(link[c])[Len(link[c])]
  <2> DEFINE ids == IdsIn(link[c])
             n == Len(link[c])
  <2>1. ids \in Seq(Nat) /\ Len(ids) = n /\ n \in Nat /\ (link[c] = <<>> <=> n = 0)
    BY <1>1, <1>2
  <2> HIDE DEF ids, n
  <2>2. /\ first \o ids \in Seq(Nat) /\ Len(first \o ids) = Len(first) + n
        /\ \A i \in 1..(Len(first) + n) : (first \o ids)[i] =
              IF i <= Len(first) THEN first[i] ELSE ids[i - Len(first)]
    BY <2>1, <1>4, ConcatProperties
  <2>3. (first \o ids)[Len(first) + n] = IF n = 0 THEN first[Len(first)] ELSE ids[n]
    BY <2>1, <2>2, <1>4
  <2>4. first \o ids # <<>>
    BY <2>1, <2>2, <1>4
  <2> QED BY <2>1, <2>2, <2>3, <2>4, <1>5 DEF ids, n
<1>7. link[c] # <<>> => IdsIn(link[c])[Len(link[c])] \in 1..pubCounter
  BY <1>1, <1>2
<1> QED BY <1>1, <1>3, <1>4, <1>5, <1>6, <1>7 DEF first, Reached

(* A client whose queues are left alone has the same messages and ids      *)
(* ahead of it.                                                            *)
LEMMA QueuesAlone ==
    ASSUME NEW c \in Client,
           inbox'[c] = inbox[c], link'[c] = link[c], outbox' = outbox,
           handled'[c] = handled[c], lastCounter'[c] = lastCounter[c],
           pubCounter' = pubCounter
    PROVE  /\ UnderWay(c)' = UnderWay(c)
           /\ LossAhead(c)' = LossAhead(c)
           /\ Reached(c)' = Reached(c)
BY DEF UnderWay, IdsKnown, LossAhead, Reached

(* What a queue of requests holds, when it grows and when its head is      *)
(* served.                                                                 *)
AsksForCopy(q) == \E i \in DOMAIN q : q[i] = RequireCompleteSync
ChangesIn(q) == {q[i].order : i \in {j \in DOMAIN q : q[j].kind = "change"}}

LEMMA RequestGrows ==
    ASSUME NEW q \in Seq(Input), NEW e \in Input
    PROVE  /\ AsksForCopy(q) => AsksForCopy(Append(q, e))
           /\ e = RequireCompleteSync => AsksForCopy(Append(q, e))
           /\ ChangesIn(q) \subseteq ChangesIn(Append(q, e))
           /\ e.kind = "change" => e.order \in ChangesIn(Append(q, e))
<1> DEFINE r == Append(q, e)
<1>1. /\ DOMAIN q = 1..Len(q) /\ DOMAIN r = 1..(Len(q) + 1) /\ Len(q) \in Nat
      /\ \A i \in DOMAIN q : i \in DOMAIN r /\ r[i] = q[i]
      /\ Len(q) + 1 \in DOMAIN r /\ r[Len(q) + 1] = e
  OBVIOUS
<1> HIDE DEF r
<1> QED BY <1>1 DEF AsksForCopy, ChangesIn, r

LEMMA RequestServed ==
    ASSUME NEW q \in Seq(Input), q # <<>>
    PROVE  /\ AsksForCopy(q) /\ Head(q).kind # "sync" => AsksForCopy(Tail(q))
           /\ ChangesIn(q) \subseteq ChangesIn(Tail(q)) \cup
                 (IF Head(q).kind = "change" THEN {Head(q).order} ELSE {})
<1> DEFINE r == Tail(q)
<1>1. /\ DOMAIN q = 1..Len(q) /\ DOMAIN r = 1..(Len(q) - 1) /\ Len(q) \in Nat \ {0}
      /\ \A i \in DOMAIN q : i # 1 => i - 1 \in DOMAIN r /\ r[i - 1] = q[i]
      /\ Head(q) = q[1]
  BY HeadTailProperties
<1> HIDE DEF r
<1>2. RequireCompleteSync.kind = "sync"
  BY DEF RequireCompleteSync
<1>3. AsksForCopy(q) /\ Head(q).kind # "sync" => AsksForCopy(r)
  BY <1>1, <1>2 DEF AsksForCopy
<1>4. ASSUME NEW o \in ChangesIn(q), o \notin ChangesIn(r)
      PROVE  Head(q).kind = "change" /\ o = Head(q).order
  <2>1. PICK i \in DOMAIN q : q[i].kind = "change" /\ o = q[i].order
    BY <1>4 DEF ChangesIn
  <2>2. i # 1 => o \in ChangesIn(r)
    BY <1>1, <2>1 DEF ChangesIn
  <2> QED BY <1>1, <1>4, <2>1, <2>2
<1> QED BY <1>3, <1>4 DEF r

LEMMA UpdatesApart ==
    /\ Ticks \cap Order = {} /\ Ticks \subseteq Nat
    /\ \A t \in Ticks : Own(t) \notin Ticks
BY SyncAssumption DEF Ticks, Own

-----------------------------------------------------------------------------
(* The steps.                                                              *)

(* A tick adds the same update to the server and to what each client will  *)
(* make of its messages; what it adds to the server alone is no tick.      *)
LEMMA TickStep ==
    ASSUME TypeOK, Tick, NEW c \in Client, ClientInv(c)
    PROVE  ClientInv(c)'
<1>1. /\ ticks + 1 \in Ticks
      /\ outbox' = Append(outbox, TickMessages(ticks + 1))
      /\ UNCHANGED <<inbox, link, handled, lastCounter, pubCounter, view, syncRequired,
                     connected, subscribed, requests, heard>>
  BY SyncAssumption
     DEF TypeOK, Tick, Ticks, networkVars, engineVars, subVars, playerVars
<1>0. server' \cap Ticks = (server \cap Ticks) \cup {ticks + 1} /\ server \cup {ticks + 1} \subseteq server'
  <2>1. PICK own \in SUBSET {Own(ticks + 1)} : server' = server \cup {ticks + 1} \cup own
    BY DEF Tick
  <2>2. Own(ticks + 1) \notin Ticks
    BY <1>1, UpdatesApart
  <2> QED BY <1>1, <2>1, <2>2
<1>2. UnderWay(c)' = Append(UnderWay(c), TickMessages(ticks + 1))
  <2>1. outbox \in Seq(Output) /\ inbox[c] \in Seq(Output) /\ link[c] \in Seq(Envelope)
        /\ TickMessages(ticks + 1) \in Output
    BY <1>1, MessagesAreTyped DEF TypeOK
  <2>2. MessagesIn(link[c]) \in Seq(Output)
    BY <2>1, LinkParts
  <2>3. inbox[c] \o MessagesIn(link[c]) \in Seq(Output)
    BY <2>1, <2>2, ConcatProperties
  <2>4. UnderWay(c)' = (inbox[c] \o MessagesIn(link[c])) \o Append(outbox, TickMessages(ticks + 1))
    BY <1>1 DEF UnderWay, MessagesIn
  <2>5. UnderWay(c) = (inbox[c] \o MessagesIn(link[c])) \o outbox
    BY QueueParts
  <2> DEFINE before == inbox[c] \o MessagesIn(link[c])
  <2>6. before \o Append(outbox, TickMessages(ticks + 1)) = Append(before \o outbox, TickMessages(ticks + 1))
    <3>1. before \in Seq(Output)
      BY <2>3
    <3> HIDE DEF before
    <3> QED BY <2>1, <3>1, AppendToConcat
  <2> QED BY <2>6, <2>4, <2>5
<1>3. LossAhead(c)' = LossAhead(c) /\ CopyRequested(c)' = CopyRequested(c)
      /\ Changes(c)' = Changes(c) /\ Reached(c)' = Reached(c)
  BY <1>1 DEF LossAhead, IdsKnown, CopyRequested, Changes, Reached
<1>4. /\ WillListen(c)' = WillListen(c)
      /\ WillListen(c) => Foreseen(c)' = Foreseen(c) \cup {ticks + 1}
  <2>1. UnderWay(c) \in Seq(Output) /\ syncRequired[c] \in BOOLEAN
    BY QueueParts DEF TypeOK
  <2>2. /\ CopiesIn(UnderWay(c)') = CopiesIn(UnderWay(c))
        /\ CopiesIn(UnderWay(c)) # {} \/ ~syncRequired[c] =>
             Outcome(UnderWay(c)', view[c], syncRequired[c])
               = Outcome(UnderWay(c), view[c], syncRequired[c]) \cup {ticks + 1}
    BY <1>1, <1>2, <2>1, OutcomeOfTickLast
  <2> QED BY <1>1, <2>2 DEF WillListen, Foreseen
<1> QED BY <1>0, <1>1, <1>3, <1>4 DEF ClientInv, Repaired

(* A copy sent out repairs whoever may hear it.                            *)
LEMMA CopySent ==
    ASSUME TypeOK, NEW c \in Client, NEW S \in SUBSET Update,
           outbox' = Append(outbox, LoadFromCopy(S)),
           UNCHANGED <<inbox, link, view, syncRequired>>
    PROVE  WillListen(c)' /\ Foreseen(c)' = S
<1>1. outbox \in Seq(Output) /\ inbox[c] \in Seq(Output) /\ link[c] \in Seq(Envelope)
      /\ LoadFromCopy(S) \in Output
  BY MessagesAreTyped DEF TypeOK
<1>2. UnderWay(c)' = Append(UnderWay(c), LoadFromCopy(S))
  <2>1. inbox[c] \o MessagesIn(link[c]) \in Seq(Output)
    BY <1>1, LinkParts, ConcatProperties
  <2>2. UnderWay(c)' = (inbox[c] \o MessagesIn(link[c])) \o Append(outbox, LoadFromCopy(S))
    BY DEF UnderWay, MessagesIn
  <2>3. UnderWay(c) = (inbox[c] \o MessagesIn(link[c])) \o outbox
    BY QueueParts
  <2> DEFINE before == inbox[c] \o MessagesIn(link[c])
  <2>6. before \o Append(outbox, LoadFromCopy(S)) = Append(before \o outbox, LoadFromCopy(S))
    <3>1. before \in Seq(Output)
      BY <2>1
    <3> HIDE DEF before
    <3> QED BY <1>1, <3>1, AppendToConcat
  <2> QED BY <2>6, <2>2, <2>3
<1>3. UnderWay(c) \in Seq(Output) /\ syncRequired[c] \in BOOLEAN
  BY QueueParts DEF TypeOK
<1>4. /\ CopiesIn(UnderWay(c)') # {}
      /\ Outcome(UnderWay(c)', view[c], syncRequired[c]) = S
  <2>1. /\ CopiesIn(Append(UnderWay(c), LoadFromCopy(S))) # {}
        /\ Outcome(Append(UnderWay(c), LoadFromCopy(S)), view[c], syncRequired[c]) = S
    BY <1>3, OutcomeOfCopyLast
  <2> QED BY <1>2, <2>1
<1> QED BY <1>4 DEF WillListen, Foreseen

(* The server serves a request: of any client d, for the client c.         *)
LEMMA ServeStep ==
    ASSUME TypeOK, NEW d \in Client, Serve(d), NEW c \in Client, ClientInv(c)
    PROVE  ClientInv(c)'
<1>1. PICK kind : ServeKind(d, kind)
  BY DEF Serve, ServeSync, ServeChange, ServeLoad
<1>2. /\ requests[d] \in Seq(Input) /\ requests[d] # <<>>
      /\ requests' = [requests EXCEPT ![d] = Tail(@)]
      /\ Head(requests[d]) \in Input
      /\ UNCHANGED <<inbox, link, handled, lastCounter, pubCounter, view, syncRequired,
                     connected, subscribed, heard>>
  BY <1>1, QueuesAreTyped DEF TypeOK, ServeKind, networkVars, engineVars, subVars, playerVars
<1>3. c # d => CopyRequested(c)' = CopyRequested(c) /\ Changes(c)' = Changes(c)
  BY <1>2 DEF TypeOK, CopyRequested, Changes
<1>4. requests'[d] = Tail(requests[d])
  BY <1>2 DEF TypeOK
<1>5. LossAhead(c)' = LossAhead(c) /\ Reached(c)' = Reached(c)
  BY <1>2 DEF LossAhead, IdsKnown, Reached
<1>6. CASE ServeSync(d)
  <2>1. Copy(server) \in SUBSET Update /\ outbox' = Append(outbox, LoadFromCopy(Copy(server)))
        /\ server' = server
    BY <1>6, CopyIsTyped DEF ServeSync, TypeOK
  <2>2. WillListen(c)' /\ Foreseen(c)' = Copy(server)
    BY <1>2, <2>1, CopySent
  <2>3. Copy(server) \cap Ticks = server \cap Ticks /\ Copy(server) \subseteq server
    BY UpdatesApart DEF Copy
  <2> QED BY <1>2, <1>3, <1>5, <2>1, <2>2, <2>3 DEF ClientInv, Repaired
<1>7. CASE ServeLoad(d)
  <2>1. Head(requests[d]).state \in SUBSET Update /\ server' = Head(requests[d]).state
        /\ outbox' = Append(outbox, LoadFromCopy(Head(requests[d]).state))
    BY <1>2, <1>7, MessagesAreTyped DEF ServeLoad, ServeKind
  <2>2. WillListen(c)' /\ Foreseen(c)' = server'
    BY <1>2, <2>1, CopySent
  <2> QED BY <1>2, <1>3, <1>5, <2>2 DEF ClientInv, Repaired
<1>8. CASE ServeChange(d)
  <2>1. /\ Head(requests[d]).kind = "change" /\ Head(requests[d]).order \in Order
        /\ server' = server \cup {Head(requests[d]).order} /\ outbox' = outbox
    BY <1>2, <1>8, MessagesAreTyped DEF ServeChange, ServeKind
  <2>2. CopyRequested(d) => CopyRequested(d)'
    <3>1. AsksForCopy(requests[d]) => AsksForCopy(requests'[d])
      BY <1>2, <1>4, <2>1, RequestServed
    <3> QED BY <3>1 DEF CopyRequested, AsksForCopy
  <2>3. Changes(d) \subseteq Changes(d)' \cup {Head(requests[d]).order}
    <3>1. ChangesIn(requests[d]) \subseteq ChangesIn(requests'[d]) \cup {Head(requests[d]).order}
      BY <1>2, <1>4, <2>1, RequestServed
    <3> QED BY <3>1 DEF Changes, ChangesIn
  <2>4. WillListen(c)' = WillListen(c) /\ Foreseen(c)' = Foreseen(c)
    BY <1>2, <2>1, QueuesAlone DEF WillListen, Foreseen
  <2>5. server' \cap Ticks = server \cap Ticks
    BY <2>1, UpdatesApart
  <2> QED BY <1>2, <1>3, <1>5, <2>1, <2>2, <2>3, <2>4, <2>5 DEF ClientInv, Repaired
<1> QED BY <1>6, <1>7, <1>8 DEF Serve

LEMMA LinkGrows ==
    ASSUME TypeOK, NEW l \in Seq(Envelope), NEW o \in Output, NEW n \in Nat
    PROVE  LET k == Append(l, [id |-> n, messages |-> o]) IN
           /\ MessagesIn(k) = Append(MessagesIn(l), o)
           /\ IdsIn(k) = Append(IdsIn(l), n)
<1> DEFINE k == Append(l, [id |-> n, messages |-> o])
<1>1. /\ DOMAIN l = 1..Len(l) /\ DOMAIN k = 1..(Len(l) + 1) /\ Len(l) \in Nat
      /\ \A i \in 1..Len(l) : k[i] = l[i]
      /\ k[Len(l) + 1] = [id |-> n, messages |-> o]
  OBVIOUS
<1>2. /\ MessagesIn(l) \in Seq(Output) /\ Len(MessagesIn(l)) = Len(l)
      /\ IdsIn(l) \in Seq(Nat) /\ Len(IdsIn(l)) = Len(l)
      /\ \A i \in 1..Len(l) : MessagesIn(l)[i] = l[i].messages /\ IdsIn(l)[i] = l[i].id
  BY <1>1, LinkParts DEF MessagesIn, IdsIn
<1>3. /\ Append(MessagesIn(l), o) \in Seq(Output) /\ Append(IdsIn(l), n) \in Seq(Nat)
      /\ Len(Append(MessagesIn(l), o)) = Len(l) + 1 /\ Len(Append(IdsIn(l), n)) = Len(l) + 1
      /\ \A i \in 1..(Len(l) + 1) : /\ Append(MessagesIn(l), o)[i] = k[i].messages
                                   /\ Append(IdsIn(l), n)[i] = k[i].id
  <2> HIDE DEF k
  <2> QED BY <1>1, <1>2, AppendProperties
<1> HIDE DEF k
<1>4. \A i \in 1..(Len(l) + 1) : k[i].messages \in Output /\ k[i].id \in Nat
  BY <1>3, ElementOfSeq
<1>5. /\ MessagesIn(k) \in Seq(Output) /\ IdsIn(k) \in Seq(Nat)
      /\ Len(MessagesIn(k)) = Len(l) + 1 /\ Len(IdsIn(k)) = Len(l) + 1
      /\ \A i \in 1..(Len(l) + 1) : MessagesIn(k)[i] = k[i].messages /\ IdsIn(k)[i] = k[i].id
  BY <1>1, <1>4 DEF MessagesIn, IdsIn
<1>6. MessagesIn(k) = Append(MessagesIn(l), o)
  BY <1>3, <1>5, SeqEqual
<1>7. IdsIn(k) = Append(IdsIn(l), n)
  BY <1>3, <1>5, SeqEqual
<1> QED BY <1>6, <1>7 DEF k

(* The head of the outbox reaches a client: nothing of what is under way   *)
(* to it changes.                                                          *)
LEMMA DeliveredToHost ==
    ASSUME TypeOK, outbox # <<>>, NEW c \in Client, link[c] = <<>>, link'[c] = <<>>,
           inbox'[c] = Append(inbox[c], Head(outbox)), outbox' = Tail(outbox)
    PROVE  UnderWay(c)' = UnderWay(c)
<1>1. inbox[c] \in Seq(Output) /\ outbox \in Seq(Output) /\ Head(outbox) \in Output
  BY HeadTailProperties DEF TypeOK
<1>2. MessagesIn(<<>>) = <<>>
  BY DEF MessagesIn
<1>3. UnderWay(c) = inbox[c] \o outbox
  BY <1>1, <1>2, ConcatEmptySeq DEF UnderWay, MessagesIn
<1>4. UnderWay(c)' = Append(inbox[c], Head(outbox)) \o Tail(outbox)
  <2>1. Append(inbox[c], Head(outbox)) \in Seq(Output)
    BY <1>1, AppendProperties
  <2>2. UnderWay(c)' = (Append(inbox[c], Head(outbox)) \o MessagesIn(<<>>)) \o Tail(outbox)
    BY DEF UnderWay, MessagesIn
  <2> QED BY <1>2, <2>1, <2>2, ConcatEmptySeq
<1> QED BY <1>1, <1>3, <1>4, HandOver

LEMMA DeliveredToLink ==
    ASSUME TypeOK, outbox # <<>>, NEW c \in Client,
           link'[c] = Append(link[c], [id |-> pubCounter + 1, messages |-> Head(outbox)]),
           inbox'[c] = inbox[c], outbox' = Tail(outbox),
           UNCHANGED <<handled, lastCounter>>
    PROVE  /\ UnderWay(c)' = UnderWay(c)
           /\ IdsKnown(c)' = Append(IdsKnown(c), pubCounter + 1)
<1>1. /\ inbox[c] \in Seq(Output) /\ outbox \in Seq(Output) /\ Head(outbox) \in Output
      /\ link[c] \in Seq(Envelope) /\ pubCounter + 1 \in Nat
  BY HeadTailProperties DEF TypeOK
<1> DEFINE M == MessagesIn(link[c])
           I == IdsIn(link[c])
           e == pubCounter + 1
           first == <<lastCounter[c]>> \o (IF handled[c] = 0 THEN <<>> ELSE <<handled[c]>>)
<1>2. M \in Seq(Output) /\ I \in Seq(Nat) /\ e \in Nat
  BY <1>1, LinkParts
<1>3. MessagesIn(link'[c]) = Append(M, Head(outbox)) /\ IdsIn(link'[c]) = Append(I, e)
  BY <1>1, LinkGrows
<1>4. first \in Seq(Nat)
  BY DEF TypeOK
<1>5. /\ UnderWay(c) = (inbox[c] \o M) \o outbox
      /\ UnderWay(c)' = (inbox[c] \o Append(M, Head(outbox))) \o Tail(outbox)
      /\ IdsKnown(c) = first \o I
      /\ IdsKnown(c)' = first \o Append(I, e)
  <2>1. UnderWay(c) = (inbox[c] \o M) \o outbox /\ IdsKnown(c) = first \o I
    BY QueueParts
  <2>2. UnderWay(c)' = (inbox'[c] \o MessagesIn(link'[c])) \o outbox'
    BY DEF UnderWay, MessagesIn
  <2>3. IdsKnown(c)' = first \o IdsIn(link'[c])
    BY DEF IdsKnown, IdsIn
  <2> QED BY <1>3, <2>1, <2>2, <2>3
<1> HIDE DEF M, I, e, first
<1>6. inbox[c] \o Append(M, Head(outbox)) = Append(inbox[c] \o M, Head(outbox))
      /\ inbox[c] \o M \in Seq(Output)
  <2> DEFINE q == inbox[c]
             h == Head(outbox)
  <2>0. q \in Seq(Output) /\ h \in Output
    BY <1>1
  <2> HIDE DEF q, h
  <2>1. q \o Append(M, h) = Append(q \o M, h)
    BY <2>0, <1>2, AppendToConcat
  <2>2. inbox[c] \o M \in Seq(Output)
    BY <1>1, <1>2, ConcatProperties
  <2> QED BY <2>1, <2>2 DEF q, h
<1>7. UnderWay(c)' = UnderWay(c)
  <2> DEFINE before == inbox[c] \o M
  <2>1. before \in Seq(Output)
    BY <1>6
  <2>2. Append(before, Head(outbox)) \o Tail(outbox) = before \o outbox
    <3> HIDE DEF before
    <3> QED BY <1>1, <2>1, HandOver
  <2> QED BY <1>5, <1>6, <2>2
<1>8. first \o Append(I, e) = Append(first \o I, e)
  BY <1>2, <1>4, AppendToConcat
<1> QED BY <1>5, <1>7, <1>8 DEF e

(* Publish, for a client it reaches and for one it does not.               *)
LEMMA PublishStep ==
    ASSUME TypeOK, Publish, NEW c \in Client, ClientInv(c)
    PROVE  ClientInv(c)'
<1>1. PICK lost \in SUBSET subscribed :
           link' = [d \in Client |->
              IF d \in subscribed \ lost
                THEN Append(link[d], [id |-> pubCounter + 1, messages |-> Head(outbox)])
                ELSE link[d]]
  BY DEF Publish, NextId
<1>2. /\ outbox # <<>> /\ outbox' = Tail(outbox) /\ pubCounter' = pubCounter + 1
      /\ inbox'[c] = IF c \in Host THEN Append(inbox[c], Head(outbox)) ELSE inbox[c]
      /\ UNCHANGED <<server, subscribed, connected, view, handled, lastCounter, requests,
                     syncRequired, heard>>
  BY DEF Publish, subVars, playerVars
<1>3. CopyRequested(c)' = CopyRequested(c) /\ Changes(c)' = Changes(c)
  BY <1>2 DEF CopyRequested, Changes
<1>4. subscribed \cap Host = {} /\ pubCounter \in Nat /\ outbox \in Seq(Output)
  BY DEF TypeOK
<1>5. CASE c \in Host
  <2>1. link[c] = <<>> /\ link'[c] = <<>> /\ c \notin Remote
    BY <1>1, <1>4, <1>5 DEF ClientInv, Remote
  <2>2. UnderWay(c)' = UnderWay(c)
    BY <1>2, <1>5, <2>1, DeliveredToHost
  <2>3. Foreseen(c)' = Foreseen(c) /\ WillListen(c)' = WillListen(c)
    BY <1>2, <2>2 DEF Foreseen, WillListen
  <2> QED BY <1>2, <1>3, <1>5, <2>1, <2>3 DEF ClientInv, Repaired, LossAhead
<1>6. CASE c \in subscribed \ lost
  <2>1. link'[c] = Append(link[c], [id |-> pubCounter + 1, messages |-> Head(outbox)])
        /\ c \notin Host /\ c \in Remote
    BY <1>1, <1>4, <1>6 DEF Remote
  <2>2. UnderWay(c)' = UnderWay(c) /\ IdsKnown(c)' = Append(IdsKnown(c), pubCounter + 1)
    BY <1>2, <2>1, DeliveredToLink
  <2>3. Foreseen(c)' = Foreseen(c) /\ WillListen(c)' = WillListen(c)
    BY <1>2, <2>2 DEF Foreseen, WillListen
  <2>4. LossAhead(c) => LossAhead(c)'
    <3>1. IdsKnown(c) \in Seq(Nat) /\ Append(IdsKnown(c), pubCounter + 1) \in Seq(Nat)
          /\ pubCounter + 1 + 1 \in Nat
      <4>1. IdsKnown(c) \in Seq(Nat) /\ pubCounter + 1 \in Nat
        <5>1. IdsKnown(c) \in Seq(Nat)
          BY QueueParts
        <5> QED BY <1>4, <5>1
      <4> QED BY <1>4, <4>1, AppendProperties
    <3> QED BY <1>2, <2>2, <3>1, GapStays DEF LossAhead
  <2>5. Reached(c)'
    <3>1. link[c] \in Seq(Envelope)
      BY DEF TypeOK
    <3> QED BY <2>1, <3>1 DEF Reached
  <2> QED BY <1>2, <1>3, <1>6, <2>1, <2>3, <2>4, <2>5 DEF ClientInv, Repaired
<1>7. CASE c \notin Host /\ c \notin subscribed \ lost
  <2>1. link'[c] = link[c] /\ inbox'[c] = inbox[c] /\ c \in Remote
    BY <1>1, <1>2, <1>7 DEF Remote
  <2>2. IdsKnown(c)' = IdsKnown(c) /\ Reached(c)' = Reached(c)
    BY <1>2, <2>1 DEF IdsKnown, Reached
  <2>3. CASE Reached(c)
    <3>1. HasGap(Append(IdsKnown(c), pubCounter + 2))
      BY <1>4, <2>3, QueueParts, SkippedIdShows
    <3>2. LossAhead(c)'
      BY <1>2, <1>4, <2>1, <2>2, <3>1 DEF LossAhead
    <3> QED BY <1>2, <1>3, <1>7, <2>2, <2>3, <3>2 DEF ClientInv, Repaired
  <2>4. CASE ~Reached(c)
    <3>1. link[c] = <<>> /\ inbox[c] = <<>> /\ syncRequired[c]
      BY <2>1, <2>4 DEF ClientInv, Reached
    <3>2. UnderWay(c) = outbox /\ UnderWay(c)' = Tail(outbox)
      <4>1. UnderWay(c) = (<<>> \o MessagesIn(<<>>)) \o outbox
            /\ UnderWay(c)' = (<<>> \o MessagesIn(<<>>)) \o outbox'
        BY <1>2, <2>1, <3>1 DEF UnderWay, MessagesIn
      <4>2. MessagesIn(<<>>) = <<>> /\ <<>> \o <<>> = <<>> /\ Tail(outbox) \in Seq(Output)
        BY <1>2, <1>4, HeadTailProperties DEF MessagesIn
      <4> QED BY <1>2, <1>4, <4>1, <4>2, ConcatEmptySeq
    <3>3. \/ ~WillListen(c)'
          \/ WillListen(c)' /\ WillListen(c) /\ Foreseen(c)' = Foreseen(c)
      <4>1. CopiesIn(Tail(outbox)) # {} =>
              /\ CopiesIn(outbox) # {}
              /\ Outcome(outbox, view[c], TRUE) = Outcome(Tail(outbox), view[c], TRUE)
        BY <1>2, <1>4, CopyDecides
      <4>2. syncRequired[c] = TRUE
        BY <3>1 DEF TypeOK
      <4> QED BY <1>2, <3>2, <4>1, <4>2 DEF WillListen, Foreseen
    <3>4. LossAhead(c) => LossAhead(c)'
      <4>1. IdsKnown(c) = <<0>>
        <5>1. lastCounter[c] = 0 /\ handled[c] = 0
          BY <2>4 DEF Reached
        <5>2. IdsKnown(c) = (<<0>> \o <<>>) \o IdsIn(<<>>)
          BY <3>1, <5>1 DEF IdsKnown, IdsIn
        <5>3. IdsIn(<<>>) = <<>> /\ <<0>> \in Seq(Nat)
          BY DEF IdsIn
        <5> QED BY <5>2, <5>3, ConcatEmptySeq
      <4> QED BY <4>1, <1>4 DEF LossAhead, HasGap, Gap
    <3>5. c \notin Host \cup heard
      BY <1>7, <2>1, <2>4 DEF ClientInv
    <3> QED BY <1>2, <1>3, <1>7, <2>2, <2>4, <3>1, <2>1, <3>3, <3>4, <3>5 DEF ClientInv, Repaired
  <2> QED BY <2>3, <2>4
<1> QED BY <1>5, <1>6, <1>7

(* The SUB thread takes an envelope: what it brings is under way still,    *)
(* and its id still to be checked.                                         *)
LEMMA ReceiveStep ==
    ASSUME TypeOK, NEW d \in Client, Receive(d), NEW c \in Client, ClientInv(c)
    PROVE  ClientInv(c)'
<1>1. /\ handled[d] = 0 /\ link[d] # <<>>
      /\ link' = [link EXCEPT ![d] = Tail(@)]
      /\ inbox' = [inbox EXCEPT ![d] = Append(@, Head(link[d]).messages)]
      /\ handled' = [handled EXCEPT ![d] = Head(link[d]).id]
      /\ UNCHANGED <<server, outbox, pubCounter, subscribed, connected, view, lastCounter,
                     requests, syncRequired, heard>>
  BY DEF Receive, serverVars, playerVars
<1>2. CopyRequested(c)' = CopyRequested(c) /\ Changes(c)' = Changes(c)
  BY <1>1 DEF CopyRequested, Changes
<1>3. CASE c # d
  <2>1. inbox'[c] = inbox[c] /\ link'[c] = link[c] /\ handled'[c] = handled[c]
    BY <1>1, <1>3 DEF TypeOK
  <2>2. UnderWay(c)' = UnderWay(c) /\ LossAhead(c)' = LossAhead(c) /\ Reached(c)' = Reached(c)
    BY <1>1, <2>1, QueuesAlone
  <2>3. Foreseen(c)' = Foreseen(c) /\ WillListen(c)' = WillListen(c)
    BY <1>1, <2>2 DEF Foreseen, WillListen
  <2> QED BY <1>1, <1>2, <2>1, <2>2, <2>3 DEF ClientInv, Repaired
<1>4. CASE c = d
  <2> DEFINE l == link[c]
             M == MessagesIn(l)
             I == IdsIn(l)
  <2>1. /\ link'[c] = Tail(l) /\ inbox'[c] = Append(inbox[c], Head(l).messages)
        /\ handled'[c] = Head(l).id
        /\ l \in Seq(Envelope) /\ inbox[c] \in Seq(Output) /\ outbox \in Seq(Output)
        /\ lastCounter[c] \in Nat
    BY <1>1, <1>4 DEF TypeOK
  <2>2. /\ M \in Seq(Output) /\ I \in Seq(Nat) /\ M # <<>> /\ I # <<>>
        /\ MessagesIn(link'[c]) = Tail(M) /\ IdsIn(link'[c]) = Tail(I)
        /\ Head(M) = Head(l).messages /\ Head(I) = Head(l).id
        /\ Head(l).id # 0
    <3>1. Head(l) \in Envelope
      BY <1>1, <1>4, <2>1, LinkParts
    <3>2. Head(l).id # 0
      BY <3>1 DEF Envelope
    <3> QED BY <1>1, <1>4, <2>1, <3>2, LinkParts
  <2>3. UnderWay(c)' = UnderWay(c)
    <3>1. UnderWay(c) = (inbox[c] \o M) \o outbox
      BY QueueParts
    <3>2. UnderWay(c)' = (Append(inbox[c], Head(M)) \o Tail(M)) \o outbox
      <4>1. UnderWay(c)' = (inbox'[c] \o MessagesIn(link'[c])) \o outbox'
        BY DEF UnderWay, MessagesIn
      <4> QED BY <1>1, <2>1, <2>2, <4>1
    <3>3. Append(inbox[c], Head(M)) \o Tail(M) = inbox[c] \o M
      <4> HIDE DEF M
      <4> QED BY <2>1, <2>2, HandOver
    <3> QED BY <3>1, <3>2, <3>3
  <2>4. IdsKnown(c)' = IdsKnown(c)
    <3>1. IdsKnown(c) = (<<lastCounter[c]>> \o <<>>) \o I
      BY <1>1, <1>4, QueueParts
    <3>2. IdsKnown(c)' = (<<lastCounter[c]>> \o <<Head(I)>>) \o Tail(I)
      <4>1. IdsKnown(c)' = (<<lastCounter'[c]>> \o
               (IF handled'[c] = 0 THEN <<>> ELSE <<handled'[c]>>)) \o IdsIn(link'[c])
        BY DEF IdsKnown, IdsIn
      <4> QED BY <1>1, <2>1, <2>2, <4>1
    <3>3. <<lastCounter[c]>> \in Seq(Nat)
      BY <2>1
    <3> HIDE DEF I
    <3>4. Head(I) \in Nat
      BY <2>2
    <3>5. <<lastCounter[c]>> \o <<Head(I)>> = Append(<<lastCounter[c]>>, Head(I))
      BY <3>3, <3>4, AppendIsConcat
    <3>6. Append(<<lastCounter[c]>>, Head(I)) \o Tail(I) = <<lastCounter[c]>> \o I
      BY <2>2, <3>3, HandOver
    <3>7. <<lastCounter[c]>> \o <<>> = <<lastCounter[c]>>
      BY <3>3, ConcatEmptySeq
    <3> QED BY <3>1, <3>2, <3>5, <3>6, <3>7
  <2>5. LossAhead(c)' = LossAhead(c) /\ Foreseen(c)' = Foreseen(c)
        /\ WillListen(c)' = WillListen(c)
    BY <1>1, <2>3, <2>4 DEF LossAhead, Foreseen, WillListen
  <2>6. Reached(c)' /\ c \notin Host
    BY <1>1, <1>4, <2>1, <2>2 DEF Reached, ClientInv
  <2> QED BY <1>1, <1>2, <2>5, <2>6 DEF ClientInv, Repaired
<1> QED BY <1>3, <1>4

(* ... and then compares its id: a gap it sees becomes a request.          *)
LEMMA CheckStep ==
    ASSUME TypeOK, NEW d \in Client, Check(d), NEW c \in Client, ClientInv(c)
    PROVE  ClientInv(c)'
<1>1. /\ handled[d] # 0
      /\ IF Gap(lastCounter[d], handled[d])
            THEN /\ syncRequired' = [syncRequired EXCEPT ![d] = TRUE]
                 /\ requests' = [requests EXCEPT ![d] = Append(@, RequireCompleteSync)]
                 /\ heard' = heard \cup {d}
            ELSE UNCHANGED <<syncRequired, requests, heard>>
      /\ lastCounter' = [lastCounter EXCEPT ![d] = handled[d]]
      /\ handled' = [handled EXCEPT ![d] = 0]
      /\ UNCHANGED <<server, outbox, pubCounter, subscribed, connected, link, view, inbox>>
  BY DEF Check, serverVars, networkVars, engineVars, playerVars
<1>2. CASE c # d
  <2>1. handled'[c] = handled[c] /\ lastCounter'[c] = lastCounter[c]
        /\ syncRequired'[c] = syncRequired[c] /\ requests'[c] = requests[c]
        /\ (c \in heard' <=> c \in heard)
    BY <1>1, <1>2 DEF TypeOK
  <2>2. UnderWay(c)' = UnderWay(c) /\ LossAhead(c)' = LossAhead(c) /\ Reached(c)' = Reached(c)
    BY <1>1, <2>1, QueuesAlone
  <2>3. Foreseen(c)' = Foreseen(c) /\ WillListen(c)' = WillListen(c)
    BY <1>1, <2>1, <2>2 DEF Foreseen, WillListen
  <2>4. CopyRequested(c)' = CopyRequested(c) /\ Changes(c)' = Changes(c)
    BY <2>1 DEF CopyRequested, Changes
  <2> QED BY <1>1, <2>1, <2>2, <2>3, <2>4 DEF ClientInv, Repaired
<1>3. CASE c = d
  <2>1. /\ handled'[c] = 0 /\ lastCounter'[c] = handled[c] /\ handled[c] # 0
        /\ lastCounter[c] \in Nat /\ handled[c] \in Nat /\ link[c] \in Seq(Envelope)
        /\ pubCounter \in Nat
    BY <1>1, <1>3 DEF TypeOK
  <2>2. Reached(c)' /\ c \notin Host /\ c \in Remote
    BY <2>1 DEF Reached, ClientInv, Remote
  <2>3. CASE Gap(lastCounter[c], handled[c])
    <3>1. requests'[c] = Append(requests[c], RequireCompleteSync) /\ requests[c] \in Seq(Input)
      BY <1>1, <1>3, <2>3 DEF TypeOK
    <3>2. CopyRequested(c)'
      <4>1. AsksForCopy(requests'[c])
        BY <3>1, MessagesAreTyped, RequestGrows
      <4> QED BY <4>1 DEF AsksForCopy, CopyRequested
    <3> QED BY <1>1, <2>2, <3>2 DEF ClientInv, Repaired
  <2>4. CASE ~Gap(lastCounter[c], handled[c])
    <3>1. UNCHANGED <<syncRequired, requests, heard>>
      BY <1>1, <1>3, <2>4
    <3>2. UnderWay(c)' = UnderWay(c)
      BY <1>1 DEF UnderWay
    <3>3. Foreseen(c)' = Foreseen(c) /\ WillListen(c)' = WillListen(c)
          /\ CopyRequested(c)' = CopyRequested(c) /\ Changes(c)' = Changes(c)
      BY <1>1, <3>1, <3>2 DEF Foreseen, WillListen, CopyRequested, Changes
    <3>4. ASSUME LossAhead(c) PROVE LossAhead(c)'
      <4> DEFINE a == <<lastCounter[c]>>
                 b == <<handled[c]>>
                 I == IdsIn(link[c])
                 K == IdsKnown(c)
      <4>1. /\ a \in Seq(Nat) /\ Len(a) = 1 /\ a[1] = lastCounter[c] /\ Tail(a) = <<>>
            /\ b \in Seq(Nat) /\ Len(b) = 1 /\ b[1] = handled[c] /\ a # <<>>
        BY <2>1
      <4>2. I \in Seq(Nat)
        BY <2>1, LinkParts
      <4>3. K = (a \o b) \o I /\ K \in Seq(Nat)
        BY <2>1, QueueParts
      <4>4. IdsKnown(c)' = (b \o <<>>) \o I
        BY <1>1, <2>1 DEF IdsKnown, IdsIn
      <4> HIDE DEF a, b, I, K
      <4>5. a \o b \in Seq(Nat) /\ Len(a \o b) = 2 /\ (a \o b)[1] = a[1] /\ (a \o b)[2] = b[1]
        BY <4>1, ConcatProperties
      <4>6. Len(K) >= 2 /\ K[1] = a[1] /\ K[2] = b[1]
        <5> DEFINE ab == a \o b
        <5>1. ab \in Seq(Nat) /\ Len(ab) = 2 /\ ab[1] = a[1] /\ ab[2] = b[1] /\ K = ab \o I
          BY <4>3, <4>5
        <5> HIDE DEF ab
        <5>2. /\ Len(ab \o I) = Len(ab) + Len(I)
              /\ \A i \in 1..(Len(ab) + Len(I)) :
                    (ab \o I)[i] = IF i <= Len(ab) THEN ab[i] ELSE I[i - Len(ab)]
          BY <4>2, <5>1, ConcatProperties
        <5>3. Len(I) \in Nat
          BY <4>2
        <5> QED BY <5>1, <5>2, <5>3
      <4>7. K = a \o (b \o I)
        BY <4>1, <4>2, <4>3, ConcatAssociative
      <4>8. b \o I \in Seq(Nat)
        BY <4>1, <4>2, ConcatProperties
      <4>9. Tail(K) = b \o I
        <5> DEFINE r == b \o I
        <5>1. r \in Seq(Nat) /\ K = a \o r
          BY <4>7, <4>8
        <5> HIDE DEF r
        <5>2. Tail(a \o r) = Tail(a) \o r
          BY <4>1, <5>1, TailOfConcat
        <5>3. <<>> \o r = r
          BY <5>1, ConcatEmptySeq
        <5> QED BY <4>1, <5>1, <5>2, <5>3 DEF r
      <4>10. IdsKnown(c)' = b \o I
        BY <4>1, <4>4, ConcatEmptySeq
      <4> DEFINE e == pubCounter + 1
      <4>11. e \in Nat /\ HasGap(Append(K, e))
        BY <2>1, <3>4 DEF LossAhead, K
      <4> HIDE DEF e
      <4>12. /\ Append(K, e) \in Seq(Nat) /\ Len(Append(K, e)) >= 2
             /\ Append(K, e)[1] = a[1] /\ Append(K, e)[2] = b[1]
        BY <4>3, <4>6, <4>11, AppendProperties
      <4>13. HasGap(Tail(Append(K, e)))
        BY <2>4, <4>1, <4>11, <4>12, GapIsLater
      <4>14. Tail(Append(K, e)) = Append(Tail(K), e)
        <5>1. K # <<>>
          BY <4>6
        <5> QED BY <4>3, <4>11, <5>1, HeadTailAppend
      <4> QED BY <1>1, <2>2, <4>9, <4>10, <4>13, <4>14 DEF LossAhead, e
    <3> QED BY <1>1, <2>2, <3>1, <3>3, <3>4 DEF ClientInv, Repaired
  <2> QED BY <2>3, <2>4
<1> QED BY <1>2, <1>3

(* The engine takes a message: what it makes of it was foreseen.           *)
LEMMA SyncStep ==
    ASSUME TypeOK, NEW d \in Client, Sync(d), NEW c \in Client, ClientInv(c)
    PROVE  ClientInv(c)'
<1>1. /\ inbox[d] # <<>>
      /\ inbox' = [inbox EXCEPT ![d] = Tail(@)]
      /\ UNCHANGED <<server, outbox, pubCounter, subscribed, connected, link, handled,
                     lastCounter, requests>>
  BY DEF Sync, SyncCopy, SyncTick, SyncKind, serverVars, networkVars, subVars, playerVars
<1>2. CopyRequested(c)' = CopyRequested(c) /\ Changes(c)' = Changes(c)
  BY <1>1 DEF CopyRequested, Changes
<1>3. LossAhead(c)' = LossAhead(c) /\ Reached(c)' = Reached(c)
  BY <1>1 DEF LossAhead, IdsKnown, Reached
<1>4. CASE c # d
  <2>1. inbox'[c] = inbox[c] /\ view'[c] = view[c] /\ syncRequired'[c] = syncRequired[c]
        /\ (c \in heard' <=> c \in heard)
    BY <1>4, <1>1 DEF TypeOK, Sync, SyncCopy, SyncTick
  <2>2. Foreseen(c)' = Foreseen(c) /\ WillListen(c)' = WillListen(c)
    BY <1>1, <2>1 DEF UnderWay, Foreseen, WillListen
  <2> QED BY <1>1, <1>2, <1>3, <2>1, <2>2 DEF ClientInv, Repaired
<1>5. CASE c = d
  <2> DEFINE U == UnderWay(c)
             h == Head(inbox[c])
             S == view[c]
             deaf == syncRequired[c]
  <2>1. /\ inbox[c] \in Seq(Output) /\ inbox[c] # <<>> /\ inbox'[c] = Tail(inbox[c])
        /\ outbox \in Seq(Output) /\ link[c] \in Seq(Envelope)
        /\ deaf \in BOOLEAN /\ h \in Output /\ view[c] \in SUBSET Update
    BY <1>1, <1>5, HeadTailProperties DEF TypeOK
  <2>2. U \in Seq(Output) /\ U # <<>> /\ Head(U) = h /\ UnderWay(c)' = Tail(U)
    <3> DEFINE q == inbox[c]
               M == MessagesIn(link[c])
    <3>1. q \in Seq(Output) /\ q # <<>> /\ M \in Seq(Output) /\ Tail(q) \in Seq(Output)
      BY <2>1, LinkParts, HeadTailProperties
    <3>2. U = (q \o M) \o outbox /\ U \in Seq(Output)
      BY QueueParts
    <3>3. UnderWay(c)' = (Tail(q) \o M) \o outbox
      <4>1. UnderWay(c)' = (inbox'[c] \o MessagesIn(link'[c])) \o outbox'
        BY DEF UnderWay, MessagesIn
      <4> QED BY <1>1, <2>1, <4>1
    <3> HIDE DEF q, M, U
    <3> DEFINE s == q \o M
    <3>4. s # <<>> /\ Head(s) = Head(q) /\ Tail(s) = Tail(q) \o M
      BY <3>1, TailOfConcat
    <3>5. s \in Seq(Output)
      BY <3>1, ConcatProperties
    <3> HIDE DEF s
    <3>6. s \o outbox # <<>> /\ Head(s \o outbox) = Head(s) /\ Tail(s \o outbox) = Tail(s) \o outbox
      BY <2>1, <3>4, <3>5, TailOfConcat
    <3> QED BY <3>2, <3>3, <3>4, <3>6 DEF s, q
  <2>3. /\ Foreseen(c) = Outcome(U, S, deaf)
        /\ Foreseen(c)' = Outcome(Tail(U), view'[c], syncRequired'[c])
        /\ WillListen(c) <=> ~deaf \/ CopiesIn(U) # {}
        /\ WillListen(c)' <=> ~syncRequired'[c] \/ CopiesIn(Tail(U)) # {}
    BY <2>2 DEF Foreseen, WillListen
  <2>4. Reached(c) \/ c \in Host
    BY <2>1 DEF ClientInv, Remote
  <2> HIDE DEF U, h, S, deaf
  <2>5. /\ WillListen(c)' <=> WillListen(c)
        /\ WillListen(c) => Foreseen(c)' = Foreseen(c)
        /\ heard' = heard \/ WillListen(c)
    <3>1. CASE SyncCopy(c)
      <4>1. h.kind = "copy" /\ view'[c] = h.state /\ syncRequired'[c] = FALSE
        BY <3>1 DEF TypeOK, SyncCopy, SyncKind, h
      <4>2. CopiesIn(U) # {} /\ Outcome(U, S, deaf) = Outcome(Tail(U), h.state, FALSE)
        BY <2>1, <2>2, <4>1, OutcomeOfTail
      <4> QED BY <2>3, <4>1, <4>2
    <3>2. CASE SyncTick(c) /\ deaf
      <4>1. h.kind = "tick" /\ view'[c] = S /\ syncRequired'[c] = deaf /\ deaf = TRUE /\ heard' = heard
        BY <2>1, <3>2 DEF SyncTick, SyncKind, h, S, deaf
      <4>2. CopiesIn(Tail(U)) # {} => Outcome(U, S, deaf) = Outcome(Tail(U), S, deaf)
        BY <2>1, <2>2, CopyDecides
      <4>3. CopiesIn(Tail(U)) # {} <=> CopiesIn(U) # {}
        BY <2>1, <2>2, <4>1, OutcomeOfTail
      <4> QED BY <2>3, <4>1, <4>2, <4>3
    <3>3. CASE SyncTick(c) /\ ~deaf
      <4>1. h.kind = "tick" /\ view'[c] = S \cup {h.update} /\ syncRequired'[c] = deaf /\ heard' = heard
        BY <2>1, <3>3 DEF TypeOK, SyncTick, SyncKind, h, S, deaf
      <4>2. Outcome(U, S, FALSE) = Outcome(Tail(U), S \cup {h.update}, FALSE)
        BY <2>1, <2>2, <4>1, OutcomeOfTail
      <4>3. deaf = FALSE
        BY <2>1, <3>3
      <4> QED BY <2>3, <4>1, <4>2, <4>3
    <3> QED BY <1>5, <3>1, <3>2, <3>3 DEF Sync
  <2> QED BY <1>1, <1>2, <1>3, <2>4, <2>5, SyncAssumption DEF ClientInv, Repaired, Remote
<1> QED BY <1>4, <1>5

(* A client that starts asks for a copy; the arrival of its subscription   *)
(* changes nothing of what is under way to it.                             *)
LEMMA ConnectStep ==
    ASSUME TypeOK, NEW d \in Client, Connect(d) \/ Subscribe(d),
           NEW c \in Client, ClientInv(c)
    PROVE  ClientInv(c)'
<1>1. UNCHANGED <<server, outbox, pubCounter, link, handled, lastCounter, view, inbox,
                  syncRequired, heard>>
  BY DEF Connect, Subscribe, serverVars, networkVars, engineVars, subVars, playerVars
<1>2. /\ UnderWay(c)' = UnderWay(c) /\ LossAhead(c)' = LossAhead(c)
      /\ Reached(c)' = Reached(c)
  BY <1>1, QueuesAlone
<1>3. Foreseen(c)' = Foreseen(c) /\ WillListen(c)' = WillListen(c)
  BY <1>1, <1>2 DEF Foreseen, WillListen
<1>4. CASE Connect(d) /\ c = d
  <2>1. requests'[c] = Append(requests[c], RequireCompleteSync) /\ requests[c] \in Seq(Input)
    BY <1>4 DEF TypeOK, Connect
  <2>2. AsksForCopy(requests'[c])
    BY <2>1, MessagesAreTyped, RequestGrows
  <2>3. CopyRequested(c)'
    BY <2>2 DEF AsksForCopy, CopyRequested
  <2> QED BY <1>1, <1>2, <2>3 DEF ClientInv, Repaired
<1>5. CASE Connect(d) /\ c # d
  <2>1. /\ requests'[c] = requests[c] /\ (c \in connected' <=> c \in connected)
        /\ subscribed' = subscribed
    BY <1>5 DEF TypeOK, Connect, networkVars
  <2>2. CopyRequested(c)' = CopyRequested(c) /\ Changes(c)' = Changes(c)
    BY <2>1 DEF CopyRequested, Changes
  <2> QED BY <1>1, <1>2, <1>3, <2>1, <2>2 DEF ClientInv, Repaired
<1>6. CASE Subscribe(d)
  <2>1. subscribed \subseteq subscribed' /\ UNCHANGED <<requests, connected>>
    BY <1>6 DEF Subscribe, playerVars
  <2>2. CopyRequested(c)' = CopyRequested(c) /\ Changes(c)' = Changes(c)
    BY <2>1 DEF CopyRequested, Changes
  <2> QED BY <1>1, <1>2, <1>3, <2>1, <2>2 DEF ClientInv, Repaired
<1> QED BY <1>4, <1>5, <1>6

(* A change of the player is no tick; what it adds to the client, it adds  *)
(* to the requests.                                                        *)
LEMMA PlayerStep ==
    ASSUME TypeOK, NEW d \in Client, Player(d), NEW c \in Client, ClientInv(c)
    PROVE  ClientInv(c)'
<1>1. UNCHANGED <<server, outbox, pubCounter, subscribed, connected, link, handled,
                  lastCounter, inbox, syncRequired, heard>>
  BY DEF Player, MakeASave, LoadFromSave, IssueChange,
         serverVars, networkVars, engineVars, subVars
<1>2. /\ UnderWay(c)' = UnderWay(c) /\ LossAhead(c)' = LossAhead(c)
      /\ Reached(c)' = Reached(c) /\ WillListen(c)' = WillListen(c)
  BY <1>1, QueuesAlone DEF WillListen
<1>3. ASSUME view'[c] = view[c], requests'[c] = requests[c]
      PROVE  ClientInv(c)'
  <2>1. CopyRequested(c)' = CopyRequested(c) /\ Changes(c)' = Changes(c)
    BY <1>3 DEF CopyRequested, Changes
  <2>2. Foreseen(c)' = Foreseen(c)
    BY <1>1, <1>2, <1>3 DEF Foreseen
  <2> QED BY <1>1, <1>2, <2>1, <2>2 DEF ClientInv, Repaired
<1>4. CASE MakeASave(d) \/ c # d
  <2>1. view'[c] = view[c] /\ requests'[c] = requests[c]
    BY <1>4 DEF TypeOK, Player, MakeASave, LoadFromSave, IssueChange, engineVars
  <2> QED BY <2>1, <1>3
<1>5. CASE LoadFromSave(d) /\ c = d
  <2>1. /\ requests'[c] = Append(requests[c], SetBattleState(saved[c]))
        /\ requests[c] \in Seq(Input) /\ saved[c] \in SUBSET Update /\ view' = view
    BY <1>5 DEF TypeOK, LoadFromSave, engineVars
  <2>2. /\ AsksForCopy(requests[c]) => AsksForCopy(requests'[c])
        /\ ChangesIn(requests[c]) \subseteq ChangesIn(requests'[c])
    BY <2>1, MessagesAreTyped, RequestGrows
  <2>3. (CopyRequested(c) => CopyRequested(c)') /\ Changes(c) \subseteq Changes(c)'
    BY <2>2 DEF CopyRequested, AsksForCopy, Changes, ChangesIn
  <2>4. Foreseen(c)' = Foreseen(c)
    BY <1>1, <1>2, <2>1 DEF Foreseen
  <2> QED BY <1>1, <1>2, <2>3, <2>4 DEF ClientInv, Repaired
<1>6. ASSUME NEW o \in Order, IssueChange(d, o), c = d
      PROVE  ClientInv(c)'
  <2>1. /\ requests'[c] = Append(requests[c], Change(o)) /\ view'[c] = view[c] \cup {o}
        /\ requests[c] \in Seq(Input)
    BY <1>6 DEF TypeOK, IssueChange
  <2>2. /\ AsksForCopy(requests[c]) => AsksForCopy(requests'[c])
        /\ ChangesIn(requests[c]) \subseteq ChangesIn(requests'[c])
        /\ o \in ChangesIn(requests'[c])
    <3>1. Change(o) \in Input /\ Change(o).kind = "change" /\ Change(o).order = o
      BY MessagesAreTyped DEF Change
    <3> QED BY <2>1, <3>1, RequestGrows
  <2>3. /\ CopyRequested(c) => CopyRequested(c)'
        /\ Changes(c) \cup {o} \subseteq Changes(c)'
    BY <2>2 DEF CopyRequested, AsksForCopy, Changes, ChangesIn
  <2>4. Foreseen(c) \subseteq Foreseen(c)' /\ Foreseen(c)' \subseteq Foreseen(c) \cup {o}
    <3>1. Foreseen(c)' = Outcome(UnderWay(c), view[c] \cup {o}, syncRequired[c])
      BY <1>1, <1>2, <2>1 DEF Foreseen
    <3> DEFINE before == Outcome(UnderWay(c), view[c], syncRequired[c])
               after == Outcome(UnderWay(c), view[c] \cup {o}, syncRequired[c])
    <3>2. before \subseteq after /\ after \subseteq before \cup {o}
      BY DEF Outcome
    <3> QED BY <3>1, <3>2 DEF Foreseen
  <2>5. Foreseen(c)' \cap Ticks = Foreseen(c) \cap Ticks
    BY <2>4, UpdatesApart
  <2> QED BY <1>1, <1>2, <2>3, <2>4, <2>5 DEF ClientInv, Repaired
<1> QED BY <1>4, <1>5, <1>6 DEF Player

-----------------------------------------------------------------------------
(* The theorems.                                                           *)

LEMMA InitInv == Init => SyncInv
<1> SUFFICES ASSUME Init PROVE SyncInv
  OBVIOUS
<1>1. TypeOK
  BY SyncAssumption DEF Init, TypeOK, Update
<1>2. connected = {} /\ \A c \in Client : link[c] = <<>> /\ handled[c] = 0
      /\ lastCounter[c] = 0 /\ inbox[c] = <<>> /\ syncRequired[c] = TRUE /\ heard = {}
  BY DEF Init
<1> QED BY <1>1, <1>2, ClientByClient DEF ClientInv, Reached

LEMMA StepInv == SyncInv /\ [Next]_vars => SyncInv'
<1> SUFFICES ASSUME SyncInv, [Next]_vars PROVE SyncInv'
  OBVIOUS
<1>1. TypeOK /\ TypeOK' /\ \A c \in Client : ClientInv(c)
  BY TypeStep, ClientByClient DEF SyncInv
<1>2. (SyncInv <=> \A c \in Client : ClientInv(c))'
  BY <1>1, ClientByClient, PTL
<1>3. ASSUME NEW c \in Client PROVE ClientInv(c)'
  <2>1. ClientInv(c)
    BY <1>1
  <2>2. CASE Tick
    BY <1>1, <2>1, <2>2, TickStep
  <2>3. CASE Publish
    BY <1>1, <2>1, <2>3, PublishStep
  <2>4. ASSUME NEW d \in Client, Connect(d) \/ Subscribe(d) PROVE ClientInv(c)'
    BY <1>1, <2>1, <2>4, ConnectStep
  <2>5. ASSUME NEW d \in Client, Serve(d) PROVE ClientInv(c)'
    BY <1>1, <2>1, <2>5, ServeStep
  <2>6. ASSUME NEW d \in Client, Receive(d) PROVE ClientInv(c)'
    BY <1>1, <2>1, <2>6, ReceiveStep
  <2>7. ASSUME NEW d \in Client, Check(d) PROVE ClientInv(c)'
    BY <1>1, <2>1, <2>7, CheckStep
  <2>8. ASSUME NEW d \in Client, Sync(d) PROVE ClientInv(c)'
    BY <1>1, <2>1, <2>8, SyncStep
  <2>9. ASSUME NEW d \in Client, Player(d) PROVE ClientInv(c)'
    BY <1>1, <2>1, <2>9, PlayerStep
  <2>10. CASE UNCHANGED vars
    <3>1. UNCHANGED <<server, outbox, pubCounter, subscribed, connected, link, handled,
                      lastCounter, inbox, syncRequired, requests, view, heard>>
      BY <2>10 DEF vars, serverVars, networkVars, engineVars, subVars, playerVars
    <3>2. /\ UnderWay(c)' = UnderWay(c) /\ LossAhead(c)' = LossAhead(c)
          /\ Reached(c)' = Reached(c)
      BY <3>1, QueuesAlone
    <3>3. CopyRequested(c)' = CopyRequested(c) /\ Changes(c)' = Changes(c)
      BY <3>1 DEF CopyRequested, Changes
    <3>4. Foreseen(c)' = Foreseen(c) /\ WillListen(c)' = WillListen(c)
      BY <3>1, <3>2 DEF Foreseen, WillListen
    <3> QED BY <2>1, <3>1, <3>2, <3>3, <3>4 DEF ClientInv, Repaired
  <2> QED BY <2>2, <2>3, <2>4, <2>5, <2>6, <2>7, <2>8, <2>9, <2>10 DEF Next, Finished
<1> QED BY <1>2, <1>3

(* Envelopes may be lost, copies overtake the detection of a loss or clear *)
(* the flag it has just raised, saves be loaded by anyone: the invariant   *)
(* behind RepairUnderWay and NothingInvented holds throughout, wherever    *)
(* the subscriptions arrive.                                               *)
THEOREM SyncInvariant == Spec => []SyncInv
BY InitInv, StepInv, PTL DEF Spec

(* The queues hold what the threads expect of them, and every id a client  *)
(* has seen is one the PUB thread has given.                               *)
THEOREM TypesKept == Spec => []TypeOK
<1>1. SyncInv => TypeOK
  BY DEF SyncInv
<1> QED BY <1>1, SyncInvariant, PTL

(* A client that hears, or will once it has what is under way, will have   *)
(* the ticks of the server (Engine::sync, network.rs), or the ids will  *)
(* show what it lost (client.rs), or it asks already.                      *)
THEOREM ListenersAreRepaired == Spec => []ListenersFollow
<1>1. SyncInv => ListenersFollow
  BY DEF SyncInv
<1> QED BY <1>1, SyncInvariant, PTL

(* ... and no loss is forgotten (client.rs, Engine::sync): a client that   *)
(* will not listen asks, or will see that it must, unless it is remote and *)
(* has neither taken in a copy nor noticed a loss since it started.        *)
THEOREM RepairNeverForgotten == Spec => []RepairUnderWay
<1>1. SyncInv => RepairUnderWay
  BY DEF SyncInv, ListenersFollow, DeafOnesAsk, RepairUnderWay
<1> QED BY <1>1, SyncInvariant, PTL

(* An order that a save undid on the server does not survive on a client,  *)
(* whatever was lost meanwhile.                                            *)
THEOREM NothingIsInvented == Spec => []NothingInvented
<1>1. SyncInv => NothingInvented
  BY DEF SyncInv
<1> QED BY <1>1, SyncInvariant, PTL
=============================================================================
