------------------------- MODULE SquadCommandProofs -------------------------
(***************************************************************************)
(* For any deployment: the inductive invariant of SquadCommand, the safety *)
(* properties that follow from it, and that SquadCommand implements        *)
(* Roster.                                                                 *)
(***************************************************************************)
EXTENDS SquadCommand, SequenceTheorems, WellFoundedInduction, TLAPS

-----------------------------------------------------------------------------
(* The squads computed from the soldiers' own squad_uuid (update_squads).  *)

(* Electing the first of some soldiers elects one of them.                 *)
LEMMA FirstIsOneOf ==
    ASSUME NEW S \in SUBSET Soldier, S # {}
    PROVE  FirstOf(S) \in S
<1>1. S \subseteq Nat
  BY DeploymentAssumption
<1>2. PICK s \in S : \A c \in S : ~ (<<c, s>> \in OpToRel(<, Nat))
  BY <1>1, NatLessThanWellFounded, WFMin
<1>3. \A c \in S : ~ (c < s)
  BY <1>1, <1>2 DEF OpToRel
<1>4. \A c \in S : s <= c
  BY <1>1, <1>3
<1> QED BY <1>4 DEF FirstOf

(* update_squads gives each soldier's squad a composition, with exactly    *)
(* the soldiers that name it and one of them as leader.                    *)
LEMMA UpdatedSquadsAgree ==
    ASSUME NEW uuids \in [Soldier -> Squad]
    PROVE  LET m == UpdatedSquads(uuids) IN
             /\ DOMAIN m = {uuids[s] : s \in Soldier}
             /\ DOMAIN m \subseteq Squad
             /\ m \in [DOMAIN m -> [leader : Soldier, members : SUBSET Soldier]]
             /\ \A q \in DOMAIN m : m[q].members = Roll(uuids, q)
             /\ \A q \in DOMAIN m : m[q].leader \in m[q].members
<1> DEFINE m == UpdatedSquads(uuids)
<1>1. DOMAIN m = {uuids[s] : s \in Soldier}
  BY DEF UpdatedSquads
<1>2. ASSUME NEW q \in DOMAIN m
      PROVE  /\ m[q] = [leader |-> FirstOf(Roll(uuids, q)), members |-> Roll(uuids, q)]
             /\ Roll(uuids, q) \in SUBSET Soldier
             /\ FirstOf(Roll(uuids, q)) \in Roll(uuids, q)
  <2>1. Roll(uuids, q) \in SUBSET Soldier /\ Roll(uuids, q) # {}
    BY <1>1, <1>2 DEF Roll
  <2> QED BY <2>1, <1>1, <1>2, FirstIsOneOf DEF UpdatedSquads
<1>3. m = [q \in DOMAIN m |-> m[q]]
  BY DEF UpdatedSquads
<1> HIDE DEF m
<1>4. m \in [DOMAIN m -> [leader : Soldier, members : SUBSET Soldier]]
  BY <1>2, <1>3
<1>5. DOMAIN m \subseteq Squad
  BY <1>1
<1>6. \A q \in DOMAIN m : m[q].members = Roll(uuids, q)
  BY <1>2
<1>7. \A q \in DOMAIN m : m[q].leader \in m[q].members
  BY <1>2
<1> QED BY <1>1, <1>4, <1>5, <1>6, <1>7 DEF m

-----------------------------------------------------------------------------
(* The initial state satisfies the invariant.                              *)
LEMMA InitInv == Init => CommandInv
<1> SUFFICES ASSUME Init PROVE CommandInv
  OBVIOUS
<1> USE DeploymentAssumption DEF Init
<1>1. TypeOK
  <2>1. squads \in [Present -> [leader : Soldier, members : SUBSET Soldier]]
        /\ Present \subseteq Squad
    BY UpdatedSquadsAgree DEF Present
  <2>2. behavior \in [Soldier -> Behaviors] /\ order \in [Soldier -> Order]
    BY DEF Behaviors, Order, Orders
  <2>3. pending \in Seq(Message) /\ stage \in Stages /\ events \in 0..MaxEvents
    BY DEF Stages
  <2>4. saved = Soldiers
    OBVIOUS
  <2> QED BY <2>1, <2>2, <2>3, <2>4 DEF TypeOK, Soldiers
<1>2. MembershipAgrees /\ LeaderIsMember
  <2>1. /\ Present = {StartSquad[s] : s \in Soldier}
        /\ \A q \in Present : Members(q) = Roll(StartSquad, q)
        /\ \A q \in Present : Leader(q) \in Members(q)
    BY UpdatedSquadsAgree DEF Present, Members, Leader
  <2>2. MembershipAgrees
    BY <2>1 DEF MembershipAgrees, Roll
  <2> QED BY <2>1, <2>2 DEF LeaderIsMember
<1>3. OneSidePerSquad /\ SaveIsOneSided
  BY DEF OneSidePerSquad, SaveIsOneSided, Soldiers
<1>4. /\ PendingElectionsNameMembers /\ LeadersBeforeDeaths
      /\ PendingDeathsAreFound /\ InputsBetweenTicks
  BY DEF PendingElectionsNameMembers, LeadersBeforeDeaths, PendingDeathsAreFound,
         InputsBetweenTicks
<1> QED BY <1>1, <1>2, <1>3, <1>4 DEF CommandInv

-----------------------------------------------------------------------------
(* The steps that produce messages.                                        *)

(* Messages keep the invariant when none is an election and each death is  *)
(* of a living soldier, produced once elections are over.                  *)
LEMMA ProduceInv ==
    ASSUME CommandInv, NEW msgs \in Seq(Message), Produce(msgs),
           stage \notin {"inputs", "react", "panicked"},
           \A i \in DOMAIN msgs : msgs[i].kind # "SetSquadLeader",
           \A i \in DOMAIN msgs : msgs[i].kind = "SetNotAlive" =>
               msgs[i].soldier \in alive /\ stage \in {"bullets", "explosions"}
    PROVE  CommandInv'
<1> DEFINE n == Len(pending)
<1>1. pending \in Seq(Message) /\ n \in Nat /\ DOMAIN pending = 1..n
  BY DEF CommandInv, TypeOK
<1>2. /\ pending' \in Seq(Message)
      /\ DOMAIN pending' = 1..(n + Len(msgs))
      /\ \A i \in DOMAIN pending : i \in DOMAIN pending' /\ pending'[i] = pending[i]
      /\ \A i \in DOMAIN pending' \ DOMAIN pending :
           n < i /\ i - n \in DOMAIN msgs /\ pending'[i] = msgs[i - n]
  BY <1>1, ConcatProperties DEF Produce
<1>3. UNCHANGED <<alive, unconscious, behavior, order, controlled, squadUuid, squads, saved, stage>>
  BY DEF Produce, soldierVars, squadVars
<1>4. \A i \in DOMAIN pending' \ DOMAIN pending :
        /\ pending'[i].kind # "SetSquadLeader"
        /\ pending'[i].kind = "SetNotAlive" =>
             pending'[i].soldier \in alive /\ stage \in {"bullets", "explosions"}
  BY <1>2
<1> HIDE DEF n
<1>5. TypeOK'
  BY <1>2, <1>3, DeploymentAssumption DEF CommandInv, TypeOK, Produce, Event, Present
<1>6. (MembershipAgrees /\ LeaderIsMember /\ OneSidePerSquad)'
  BY <1>3 DEF CommandInv, MembershipAgrees, LeaderIsMember, OneSidePerSquad,
              Present, Members, Leader
<1>7. PendingElectionsNameMembers'
  BY <1>2, <1>3, <1>4 DEF CommandInv, PendingElectionsNameMembers, Kind, Present, Members
<1>8. LeadersBeforeDeaths'
  BY <1>1, <1>2, <1>3, <1>4 DEF CommandInv, LeadersBeforeDeaths, Kind
<1>9. PendingDeathsAreFound'
  BY <1>2, <1>3, <1>4 DEF CommandInv, PendingDeathsAreFound, Kind, Present
<1>10. InputsBetweenTicks' /\ SaveIsOneSided'
  BY <1>3 DEF CommandInv, InputsBetweenTicks, SaveIsOneSided
<1> QED BY <1>5, <1>6, <1>7, <1>8, <1>9, <1>10 DEF CommandInv

(* The messages of one or two elements the subsystems produce.             *)
LEMMA MessagesOfSubsystems ==
    ASSUME CommandInv
    PROVE  /\ \A s \in Soldier, o \in Order : <<SetOrder(s, o)>> \in Seq(Message)
           /\ \A s \in Soldier, b \in Behaviors : <<SetBehavior(s, b)>> \in Seq(Message)
           /\ \A s \in Soldier, b \in Behaviors, o \in Order :
                <<SetBehavior(s, b), SetOrder(s, o)>> \in Seq(Message)
           /\ \A S \in SUBSET Soldier, s \in Soldier, o \in Order :
                <<MakeIdle(S), SetOrder(s, o)>> \in Seq(Message)
           /\ \A s \in Soldier : /\ Dying(s) \in Seq(Message)
                                 /\ Stunned(s) \in Seq(Message)
                                 /\ Hiding(s) \in Seq(Message)
<1>1. /\ \A s \in Soldier, o \in Order : SetOrder(s, o) \in Message
      /\ \A s \in Soldier, b \in Behaviors : SetBehavior(s, b) \in Message
      /\ \A s \in Soldier : SetUnconscious(s) \in Message /\ SetNotAlive(s) \in Message
      /\ \A S \in SUBSET Soldier : MakeIdle(S) \in Message
  BY DEF Message, SetOrder, SetBehavior, SetUnconscious, SetNotAlive, MakeIdle
<1>2. "Local" \in Order /\ {"Acting", "Unconscious", "Dead"} \subseteq Behaviors
  BY DEF Order, Orders, Behaviors
<1> QED BY <1>1, <1>2 DEF Dying, Stunned, Hiding

(* A squad's leader and members are soldiers; its leader's order an order. *)
LEMMA SquadTypes ==
    ASSUME CommandInv, NEW q \in Present
    PROVE  /\ q \in Squad /\ Leader(q) \in Soldier /\ Members(q) \in SUBSET Soldier
           /\ Leader(q) \in Members(q)
BY DEF CommandInv, TypeOK, LeaderIsMember, Leader, Members, Present

(* Whatever a subsystem produces keeps the invariant.                      *)
LEMMA SubsystemInv ==
    ASSUME CommandInv, Subsystem
    PROVE  CommandInv'
<1> USE MessagesOfSubsystems
<1> DEFINE Quiet(msgs) == \A i \in DOMAIN msgs : msgs[i].kind \notin {"SetSquadLeader", "SetNotAlive"}
<1>0. ASSUME NEW msgs \in Seq(Message), Quiet(msgs), Produce(msgs),
             stage \notin {"inputs", "react", "panicked"}
      PROVE  CommandInv'
  BY <1>0, ProduceInv
<1>a. /\ \A s \in Soldier, o \in Order : Quiet(<<SetOrder(s, o)>>)
      /\ \A s \in Soldier, b \in Behaviors : Quiet(<<SetBehavior(s, b)>>)
      /\ \A s \in Soldier, b \in Behaviors, o \in Order :
            Quiet(<<SetBehavior(s, b), SetOrder(s, o)>>)
      /\ \A S \in SUBSET Soldier, s \in Soldier, o \in Order :
            Quiet(<<MakeIdle(S), SetOrder(s, o)>>)
      /\ \A s \in Soldier : Quiet(Hiding(s)) /\ Quiet(Stunned(s))
  BY DEF SetOrder, SetBehavior, MakeIdle, Hiding, Stunned, SetUnconscious
<1>b. /\ Orders \subseteq Order /\ "Local" \in Order
      /\ "Withdrawing" \in Order /\ "OffMapTransit" \in Order
      /\ "Acting" \in Behaviors /\ "OffMapTransit" \in Behaviors
  BY DEF Order, Orders, Behaviors
<1> HIDE DEF Quiet
<1>1. ASSUME NEW s \in Soldier, Animate(s) PROVE CommandInv'
  <2>1. stage = "soldiers"
    BY <1>1 DEF Animate
  <2>2. CASE Produce(Hiding(s))
    BY <1>0, <1>a, <2>1, <2>2
  <2>3. CASE \E b \in Behaviors : Produce(<<SetBehavior(s, b)>>)
    BY <1>0, <1>a, <2>1, <2>3
  <2> QED BY <1>1, <1>b, <2>2, <2>3 DEF Animate
<1>2. ASSUME NEW s \in Soldier, LeaveMap(s) PROVE CommandInv'
  BY <1>0, <1>2, <1>a, <1>b DEF LeaveMap
<1>3. ASSUME NEW s \in Soldier, ReturnToMap(s) PROVE CommandInv'
  BY <1>0, <1>3, <1>a DEF ReturnToMap
<1>4. ASSUME NEW s \in Soldier, BulletHits(s) PROVE CommandInv'
  <2>1. \A i \in DOMAIN Dying(s) : /\ Dying(s)[i].kind # "SetSquadLeader"
                                   /\ Dying(s)[i].kind = "SetNotAlive" => Dying(s)[i].soldier = s
    BY DEF Dying, SetBehavior, SetNotAlive
  <2>2. s \in alive /\ stage = "bullets" /\ Produce(Dying(s))
    BY <1>4 DEF BulletHits, OnMap
  <2> QED BY <2>1, <2>2, ProduceInv
<1>5. ASSUME NEW s \in Soldier, ExplosionReaches(s) PROVE CommandInv'
  <2>1. PICK cover \in {<<>>, Hiding(s)}, effect \in {<<>>, Dying(s), Stunned(s)} :
          Produce(cover \o effect)
    BY <1>5 DEF ExplosionReaches
  <2>2. s \in alive /\ stage = "explosions"
    BY <1>5 DEF ExplosionReaches, OnMap
  <2>3. cover \in Seq(Message) /\ effect \in Seq(Message)
    <3>1. <<>> \in Seq(Message)
      OBVIOUS
    <3>2. {Hiding(s), Dying(s), Stunned(s)} \subseteq Seq(Message)
      OBVIOUS
    <3> HIDE MessagesOfSubsystems
    <3> QED BY <2>1, <3>1, <3>2
  <2>4. \A m \in {cover, effect} : \A i \in DOMAIN m :
          /\ m[i].kind # "SetSquadLeader"
          /\ m[i].kind = "SetNotAlive" => m[i].soldier = s
    BY <2>1 DEF Hiding, Dying, Stunned, SetBehavior, SetNotAlive, SetUnconscious, SetOrder
  <2>5. /\ cover \o effect \in Seq(Message)
        /\ \A i \in DOMAIN (cover \o effect) :
             /\ (cover \o effect)[i].kind # "SetSquadLeader"
             /\ (cover \o effect)[i].kind = "SetNotAlive" => (cover \o effect)[i].soldier = s
    BY <2>3, <2>4, ConcatProperties
  <2> QED BY <2>1, <2>2, <2>5, ProduceInv
<1>6. ASSUME NEW q \in Present, Withdraw(q) PROVE CommandInv'
  BY <1>0, <1>6, <1>a, <1>b, SquadTypes DEF Withdraw
<1>7. ASSUME NEW q \in Present, LoseSight(q) PROVE CommandInv'
  BY <1>0, <1>7, <1>a, <1>b, SquadTypes DEF LoseSight
<1>8. ASSUME NEW q \in Present, NEW o \in Order, Propagate(q, o) PROVE CommandInv'
  <2>1. PICK m \in Members(q) : Produce(<<SetOrder(m, o)>>)
    BY <1>8 DEF Propagate
  <2>2. m \in Soldier /\ stage = "soldiers"
    BY <1>8, <2>1, SquadTypes DEF Propagate
  <2> QED BY <1>0, <1>a, <2>1, <2>2
<1>9. ASSUME NEW q \in Present, NEW r \in Present, CallSupport(q, r) PROVE CommandInv'
  BY <1>0, <1>9, <1>a, <1>b, SquadTypes DEF CallSupport
<1>10. ASSUME LookupFails PROVE CommandInv'
  <2>1. /\ UNCHANGED <<alive, unconscious, behavior, order, controlled, squadUuid, squads, saved, pending, events>>
        /\ stage' = "panicked"
    BY <1>10 DEF LookupFails, soldierVars, squadVars
  <2> QED BY <2>1 DEF CommandInv, TypeOK, Stages, MembershipAgrees, LeaderIsMember,
             OneSidePerSquad, PendingElectionsNameMembers, LeadersBeforeDeaths,
             PendingDeathsAreFound, InputsBetweenTicks, SaveIsOneSided,
             Present, Members, Leader, Kind
<1> QED BY <1>1, <1>2, <1>3, <1>4, <1>5, <1>6, <1>7, <1>8, <1>9, <1>10 DEF Subsystem

(* Electing a member of a squad that has no election pending.              *)
LEMMA ElectInv ==
    ASSUME CommandInv, NEW q \in Present, NEW s \in Soldier, Elect(q, s)
    PROVE  CommandInv'
<1> DEFINE n == Len(pending)
           e == SetSquadLeader(q, s)
<1>1. /\ pending \in Seq(Message) /\ n \in Nat /\ DOMAIN pending = 1..n
      /\ q \in Squad
  BY DEF CommandInv, TypeOK
<1>2. e \in Message /\ e.kind = "SetSquadLeader" /\ e.squad = q /\ e.soldier = s
  BY <1>1 DEF SetSquadLeader, Message
<1>3. /\ UNCHANGED <<alive, unconscious, behavior, order, controlled, squadUuid, squads, saved, stage, events>>
      /\ stage = "leaders" /\ s \in Members(q) /\ pending' = Append(pending, e)
  BY DEF Elect, soldierVars, squadVars
<1> HIDE DEF e
<1>4. /\ pending' \in Seq(Message)
      /\ DOMAIN pending' = 1..(n + 1)
      /\ \A i \in DOMAIN pending : pending'[i] = pending[i]
      /\ pending'[n + 1] = e
  BY <1>1, <1>2, <1>3, AppendProperties
<1> HIDE DEF n
<1>5. TypeOK'
  BY <1>3, <1>4 DEF CommandInv, TypeOK, Present
<1>6. (MembershipAgrees /\ LeaderIsMember /\ OneSidePerSquad)'
  BY <1>3 DEF CommandInv, MembershipAgrees, LeaderIsMember, OneSidePerSquad,
              Present, Members, Leader
<1>7. PendingElectionsNameMembers'
  BY <1>1, <1>2, <1>3, <1>4
     DEF CommandInv, PendingElectionsNameMembers, Kind, Present, Members
<1>8. \A i \in DOMAIN pending' : pending'[i].kind # "SetNotAlive"
  BY <1>1, <1>2, <1>3, <1>4 DEF CommandInv, LeadersBeforeDeaths, Kind
<1>9. (LeadersBeforeDeaths /\ PendingDeathsAreFound /\ InputsBetweenTicks /\ SaveIsOneSided)'
  BY <1>3, <1>8 DEF CommandInv, LeadersBeforeDeaths, PendingDeathsAreFound,
                    InputsBetweenTicks, SaveIsOneSided, Kind
<1> QED BY <1>5, <1>6, <1>7, <1>9 DEF CommandInv

-----------------------------------------------------------------------------
(* The inputs and the stages.                                              *)

(* The inputs of the clients keep the invariant, a load included.          *)
LEMMA SquadInputInv ==
    ASSUME CommandInv, SquadInput
    PROVE  CommandInv'
<1>1. ASSUME SetBattleState PROVE CommandInv'
  <2>1. /\ stage = "inputs" /\ pending = <<>>
        /\ alive' = saved.alive /\ unconscious' = saved.unconscious
        /\ behavior' = saved.behavior /\ order' = saved.order
        /\ controlled' = saved.controlled /\ squadUuid' = saved.squadUuid
        /\ UNCHANGED <<saved, pending, stage>>
        /\ squads' = UpdatedSquads(squadUuid') /\ events' \in 0..MaxEvents
        /\ squadUuid' \in [Soldier -> Squad]
    BY <1>1, DeploymentAssumption DEF SetBattleState, CommandInv, InputsBetweenTicks, TypeOK, Event
  <2>2. TypeOK'
    <3>1. /\ squads' \in [DOMAIN squads' -> [leader : Soldier, members : SUBSET Soldier]]
          /\ DOMAIN squads' \subseteq Squad
      BY <2>1, UpdatedSquadsAgree
    <3> QED BY <2>1, <3>1 DEF CommandInv, TypeOK, Present
  <2>3. /\ Present' = {squadUuid'[s] : s \in Soldier}
        /\ \A q \in Present' : Members(q)' = Roll(squadUuid', q)
        /\ \A q \in Present' : Leader(q)' \in Members(q)'
    BY <2>1, UpdatedSquadsAgree DEF Present, Members, Leader
  <2>4. MembershipAgrees'
    BY <2>1, <2>2, <2>3 DEF TypeOK, MembershipAgrees, Roll
  <2>5. (LeaderIsMember /\ OneSidePerSquad /\ SaveIsOneSided)'
    BY <2>1, <2>3 DEF CommandInv, LeaderIsMember, OneSidePerSquad, SaveIsOneSided
  <2>6. (/\ PendingElectionsNameMembers /\ LeadersBeforeDeaths
         /\ PendingDeathsAreFound /\ InputsBetweenTicks)'
    BY <2>1 DEF PendingElectionsNameMembers, LeadersBeforeDeaths,
                PendingDeathsAreFound, InputsBetweenTicks
  <2> QED BY <2>2, <2>4, <2>5, <2>6 DEF CommandInv
<1>2. ASSUME NEW q \in Present, NEW o \in Order, PlayerOrders(q, o) PROVE CommandInv'
  <2>1. PICK arrived \in SUBSET Members(q) : \E last \in arrived :
          /\ order' = [s \in Soldier |-> IF s \in arrived THEN o ELSE order[s]]
          /\ controlled' \in {controlled \cup arrived, controlled \cup (arrived \ {last})}
    BY <1>2 DEF PlayerOrders
  <2>2. order' \in [Soldier -> Order] /\ controlled' \subseteq Soldier
    BY <2>1, SquadTypes DEF CommandInv, TypeOK
  <2>3. /\ UNCHANGED <<alive, unconscious, behavior, squadUuid, squads, saved, pending, stage>>
        /\ events' \in 0..MaxEvents
    BY <1>2, DeploymentAssumption DEF PlayerOrders, squadVars, CommandInv, TypeOK, Event
  <2>4. TypeOK'
    BY <2>2, <2>3 DEF CommandInv, TypeOK, Present
  <2> QED BY <2>3, <2>4 DEF CommandInv, MembershipAgrees, LeaderIsMember, OneSidePerSquad,
             PendingElectionsNameMembers, LeadersBeforeDeaths, PendingDeathsAreFound,
             InputsBetweenTicks, SaveIsOneSided, Present, Members, Leader, Kind
<1>3. ASSUME MakeASave PROVE CommandInv'
  <2>1. /\ UNCHANGED <<alive, unconscious, behavior, order, controlled, squadUuid, squads,
                       pending, stage>>
        /\ saved' = Soldiers /\ events' \in 0..MaxEvents
    BY <1>3, DeploymentAssumption DEF MakeASave, soldierVars, squadVars, CommandInv, TypeOK, Event
  <2>2. /\ saved'.alive = alive /\ saved'.unconscious = unconscious
        /\ saved'.behavior = behavior /\ saved'.order = order
        /\ saved'.controlled = controlled /\ saved'.squadUuid = squadUuid
    BY <2>1 DEF Soldiers
  <2>3. TypeOK' /\ SaveIsOneSided'
    BY <2>1, <2>2 DEF CommandInv, TypeOK, OneSidePerSquad, SaveIsOneSided, Present
  <2> QED BY <2>1, <2>3 DEF CommandInv, MembershipAgrees, LeaderIsMember, OneSidePerSquad,
             PendingElectionsNameMembers, LeadersBeforeDeaths, PendingDeathsAreFound,
             InputsBetweenTicks, Present, Members, Leader, Kind
<1> QED BY <1>1, <1>2, <1>3 DEF SquadInput

(* Passing from a subsystem to the next, or to the next tick, keeps it.    *)
LEMMA StageInv ==
    ASSUME CommandInv, NextStage \/ TickEnds \/ Stopped
    PROVE  CommandInv'
<1>1. UNCHANGED <<alive, unconscious, behavior, order, controlled, squadUuid, squads, saved, pending, events>>
  BY DEF NextStage, TickEnds, Stopped, vars, soldierVars, squadVars, tickVars
<1>2. /\ stage' \in Stages
      /\ stage' = "inputs" => pending = <<>>
      /\ stage' \in {"soldiers", "leaders", "support", "visibilities"} =>
           stage \in {"inputs", "soldiers", "leaders", "support", "visibilities"}
  BY DEF NextStage, TickEnds, Stopped, vars, tickVars, Following, Stages, CommandInv, TypeOK,
         InputsBetweenTicks
<1>3. TypeOK'
  BY <1>1, <1>2 DEF CommandInv, TypeOK, Present
<1>4. InputsBetweenTicks' /\ LeadersBeforeDeaths'
  BY <1>1, <1>2 DEF CommandInv, InputsBetweenTicks, LeadersBeforeDeaths, Kind
<1> QED BY <1>1, <1>3, <1>4 DEF CommandInv, MembershipAgrees, LeaderIsMember,
           OneSidePerSquad, PendingElectionsNameMembers, PendingDeathsAreFound,
           SaveIsOneSided, Present, Members, Leader, Kind

-----------------------------------------------------------------------------
(* The application of the messages.                                        *)

(* Taking the head of the messages leaves a suffix of them.                *)
LEMMA ReactTakesHead ==
    ASSUME CommandInv, NEW kind, React(kind)
    PROVE  /\ stage = "react" /\ events' = events /\ controlled' = controlled
           /\ saved' = saved
           /\ 1 \in DOMAIN pending /\ Head(pending) = pending[1]
           /\ pending[1] \in Message /\ pending[1].kind = kind
           /\ pending' \in Seq(Message)
           /\ \A i \in DOMAIN pending' : i + 1 \in DOMAIN pending /\ pending'[i] = pending[i + 1]
           /\ DOMAIN pending' \subseteq Nat \ {0}
<1>1. pending \in Seq(Message) /\ pending # <<>>
  BY DEF CommandInv, TypeOK, React
<1>2. /\ Len(pending) \in Nat \ {0} /\ DOMAIN pending = 1..Len(pending)
      /\ Head(pending) = pending[1] /\ pending[1] \in Message
  BY <1>1
<1>3. /\ Tail(pending) \in Seq(Message)
      /\ DOMAIN Tail(pending) = 1..(Len(pending) - 1)
      /\ \A i \in 1..(Len(pending) - 1) : Tail(pending)[i] = pending[i + 1]
  BY <1>1, <1>2, HeadTailProperties
<1> QED BY <1>2, <1>3 DEF React

(* The order of elections and deaths survives the removal of the head, and *)
(* the save is left alone.                                                 *)
LEMMA ReactKeepsOrder ==
    ASSUME CommandInv, NEW kind, React(kind), stage' \in {"react", "panicked"}
    PROVE  LeadersBeforeDeaths' /\ InputsBetweenTicks' /\ SaveIsOneSided'
<1>1. InputsBetweenTicks' /\ SaveIsOneSided'
  BY ReactTakesHead DEF CommandInv, InputsBetweenTicks, SaveIsOneSided
<1>2. ASSUME NEW i \in DOMAIN pending', NEW j \in DOMAIN pending', i < j,
             pending'[i].kind = "SetNotAlive"
      PROVE  pending'[j].kind # "SetSquadLeader"
  <2>1. i + 1 < j + 1 /\ i + 1 \in DOMAIN pending /\ j + 1 \in DOMAIN pending
    BY <1>2, ReactTakesHead
  <2> QED BY <1>2, <2>1, ReactTakesHead DEF CommandInv, LeadersBeforeDeaths, Kind
<1> QED BY <1>1, <1>2 DEF LeadersBeforeDeaths, Kind

(* A message that leaves lives and squads alone keeps the invariant.       *)
LEMMA ReactSoldierInv ==
    ASSUME CommandInv, NEW kind, React(kind),
           UNCHANGED <<alive, squadUuid, squads, stage>>,
           unconscious' \subseteq Soldier,
           behavior' \in [Soldier -> Behaviors],
           order' \in [Soldier -> Order]
    PROVE  CommandInv'
<1>1. TypeOK'
  BY ReactTakesHead DEF CommandInv, TypeOK, Present
<1>2. (LeadersBeforeDeaths /\ InputsBetweenTicks /\ SaveIsOneSided)'
  BY ReactTakesHead, ReactKeepsOrder
<1>3. (MembershipAgrees /\ LeaderIsMember /\ OneSidePerSquad)'
  BY DEF CommandInv, MembershipAgrees, LeaderIsMember, OneSidePerSquad,
         Present, Members, Leader
<1>4. PendingElectionsNameMembers'
  BY ReactTakesHead DEF CommandInv, PendingElectionsNameMembers, Kind, Present, Members
<1>5. PendingDeathsAreFound'
  BY ReactTakesHead DEF CommandInv, PendingDeathsAreFound, Kind, Present
<1> QED BY <1>1, <1>2, <1>3, <1>4, <1>5 DEF CommandInv

(* A death finds the squad it is logged with, and keeps the invariant.     *)
LEMMA ReactSetNotAliveInv ==
    ASSUME CommandInv, ReactSetNotAlive
    PROVE  /\ CommandInv'
           /\ squadUuid[Head(pending).soldier] \in Present
<1> DEFINE d == Head(pending).soldier
<1>1. React("SetNotAlive")
  BY DEF ReactSetNotAlive
<1>2. d \in Soldier /\ Kind(1) = "SetNotAlive" /\ pending[1].soldier = d /\ 1 \in DOMAIN pending
  BY <1>1, ReactTakesHead DEF Message, Kind
<1>3. squadUuid[d] \in Present
  BY <1>2 DEF CommandInv, PendingDeathsAreFound, MembershipAgrees
<1>4. \A i \in DOMAIN pending' : pending'[i].kind # "SetSquadLeader"
  <2> SUFFICES ASSUME NEW i \in DOMAIN pending' PROVE pending[i + 1].kind # "SetSquadLeader"
    BY <1>1, ReactTakesHead
  <2>1. i + 1 \in DOMAIN pending /\ 1 < i + 1
    BY <1>1, ReactTakesHead
  <2> QED BY <1>2, <2>1 DEF CommandInv, LeadersBeforeDeaths, Kind
<1>5. /\ alive' = alive \ {d}
      /\ UNCHANGED <<unconscious, behavior, order, squadUuid, squads, stage>>
  BY <1>3 DEF ReactSetNotAlive, squadVars
<1> HIDE DEF d
<1>6. TypeOK'
  BY <1>1, <1>5, ReactTakesHead DEF CommandInv, TypeOK, Present
<1>7. (LeadersBeforeDeaths /\ InputsBetweenTicks /\ SaveIsOneSided)'
  BY <1>1, <1>5, ReactTakesHead, ReactKeepsOrder
<1>8. (MembershipAgrees /\ LeaderIsMember /\ OneSidePerSquad)'
  BY <1>5 DEF CommandInv, MembershipAgrees, LeaderIsMember, OneSidePerSquad,
              Present, Members, Leader
<1>9. PendingElectionsNameMembers'
  BY <1>4 DEF PendingElectionsNameMembers, Kind
<1>10. PendingDeathsAreFound'
  <2> SUFFICES ASSUME NEW i \in DOMAIN pending', pending'[i].kind = "SetNotAlive",
                      pending'[i].soldier \notin alive'
               PROVE  squadUuid'[pending'[i].soldier] \in Present'
    BY <1>4 DEF PendingDeathsAreFound, Kind
  <2>1. i + 1 \in DOMAIN pending /\ pending'[i] = pending[i + 1]
    BY <1>1, ReactTakesHead
  <2>2. CASE pending'[i].soldier = d
    BY <1>3, <1>5, <2>2 DEF Present
  <2>3. CASE pending'[i].soldier # d
    BY <1>5, <2>1, <2>3 DEF CommandInv, PendingDeathsAreFound, Kind, Present
  <2> QED BY <2>2, <2>3
<1> QED BY <1>3, <1>6, <1>7, <1>8, <1>9, <1>10 DEF CommandInv, d

(* What FollowLeader writes are orders and behaviors.                      *)
LEMMA FollowLeaderTypes ==
    ASSUME CommandInv, NEW followers, NEW l \in Soldier, FollowLeader(followers, l)
    PROVE  order' \in [Soldier -> Order] /\ behavior' \in [Soldier -> Behaviors]
BY DEF CommandInv, TypeOK, FollowLeader, Order, Orders, Behaviors

(* While an election waits to be applied, nobody marked to die in this     *)
(* tick is dead already.                                                   *)
LEMMA ElectionHead ==
    ASSUME CommandInv, React("SetSquadLeader")
    PROVE  /\ Head(pending).squad \in Squad /\ Head(pending).soldier \in Soldier
           /\ Head(pending).squad \in Present =>
                Head(pending).soldier \in Members(Head(pending).squad)
           /\ \A i \in DOMAIN pending' : Kind(i)' = "SetNotAlive" =>
                pending'[i].soldier \in alive
<1>1. /\ 1 \in DOMAIN pending /\ Kind(1) = "SetSquadLeader" /\ Head(pending) = pending[1]
      /\ pending[1] \in Message
  BY ReactTakesHead DEF Kind
<1>2. Head(pending).squad \in Squad /\ Head(pending).soldier \in Soldier
  BY <1>1 DEF Message, Kind
<1>3. Head(pending).squad \in Present => Head(pending).soldier \in Members(Head(pending).squad)
  BY <1>1 DEF CommandInv, PendingElectionsNameMembers
<1>4. ASSUME NEW i \in DOMAIN pending', Kind(i)' = "SetNotAlive"
      PROVE  pending'[i].soldier \in alive
  BY <1>1, <1>4, ReactTakesHead DEF CommandInv, PendingDeathsAreFound, Kind
<1> QED BY <1>2, <1>3, <1>4

(* The survivors of a squad are the living soldiers that name it.          *)
LEMMA SurvivorsAreTheLiving ==
    ASSUME CommandInv, NEW q \in Present
    PROVE  Survivors(q) = {s \in alive : squadUuid[s] = q}
BY DEF CommandInv, MembershipAgrees, Survivors

(* A host is another squad, led by a living soldier of the same side.      *)
LEMMA HostProperties ==
    ASSUME CommandInv, NEW q \in Present, NEW t \in Hosts(q)
    PROVE  /\ t \in Present /\ t # q
           /\ Leader(t) \in alive /\ Leader(t) \in Soldier /\ squadUuid[Leader(t)] = t
           /\ \A s, c \in Soldier : squadUuid[s] = q /\ squadUuid[c] = t =>
                SoldierSide[s] = SoldierSide[c]
<1>1. t \in Present /\ t # q /\ Leader(t) \in alive
  BY DEF Hosts
<1>2. PICK m \in Members(q) : SoldierSide[m] = SoldierSide[Leader(t)]
  BY DEF Hosts
<1>3. Leader(t) \in Soldier /\ squadUuid[Leader(t)] = t
  BY <1>1, SquadTypes DEF CommandInv, MembershipAgrees
<1>4. m \in Soldier /\ squadUuid[m] = q
  BY SquadTypes DEF CommandInv, MembershipAgrees
<1> QED BY <1>1, <1>2, <1>3, <1>4 DEF CommandInv, OneSidePerSquad

(* A squad merged into a host.                                             *)
LEMMA MergeInv ==
    ASSUME CommandInv, React("SetSquadLeader"), NEW q \in Present, NEW t \in Hosts(q),
           q = Head(pending).squad, Merge(q, t),
           UNCHANGED <<alive, unconscious, stage>>
    PROVE  CommandInv'
<1>1. /\ t \in Present /\ t # q /\ Leader(t) \in Soldier
      /\ q \in Squad /\ t \in Squad
  BY HostProperties, SquadTypes
<1>2. Survivors(q) = {s \in alive : squadUuid[s] = q}
  BY SurvivorsAreTheLiving
<1>3. /\ squadUuid' \in [Soldier -> Squad]
      /\ \A s \in Soldier : squadUuid'[s] = IF s \in Survivors(q) THEN t ELSE squadUuid[s]
  BY <1>1 DEF Merge, CommandInv, TypeOK
<1>4. /\ Present' = Present \ {q}
      /\ \A u \in Present' : Leader(u)' = Leader(u)
      /\ Members(t)' = Members(t) \cup Survivors(q)
      /\ \A u \in Present' \ {t} : Members(u)' = Members(u)
      /\ squads' \in [Present' -> [leader : Soldier, members : SUBSET Soldier]]
  <2>1. /\ squads' = [u \in Present \ {q} |->
             IF u = t THEN [squads[t] EXCEPT !.members = @ \cup Survivors(q)] ELSE squads[u]]
    BY DEF Merge
  <2>2. squads \in [Present -> [leader : Soldier, members : SUBSET Soldier]]
    BY DEF CommandInv, TypeOK
  <2>3. Survivors(q) \in SUBSET Soldier
    BY <1>2 DEF CommandInv, TypeOK
  <2>4. Present' = Present \ {q}
    BY <2>1 DEF Present
  <2>5. \A u \in Present' \ {t} : squads'[u] = squads[u]
    BY <2>1, <2>4
  <2>6. /\ squads'[t] = [leader |-> squads[t].leader, members |-> squads[t].members \cup Survivors(q)]
    BY <1>1, <2>1, <2>2, <2>4
  <2> QED BY <1>1, <2>1, <2>2, <2>3, <2>4, <2>5, <2>6 DEF Leader, Members
<1>5. TypeOK'
  BY <1>1, <1>3, <1>4, FollowLeaderTypes, ReactTakesHead DEF Merge, CommandInv, TypeOK
<1>6. MembershipAgrees'
  <2>1. ASSUME NEW s \in alive'
        PROVE  squadUuid'[s] \in Present' /\ s \in squads'[squadUuid'[s]].members
    <3>1. s \in alive /\ s \in Soldier
      BY <2>1 DEF CommandInv, TypeOK
    <3>2. squadUuid[s] \in Present /\ s \in Members(squadUuid[s])
      BY <3>1 DEF CommandInv, MembershipAgrees
    <3>3. CASE squadUuid[s] = q
      <4>1. s \in Survivors(q) /\ squadUuid'[s] = t
        BY <1>2, <1>3, <3>1, <3>3
      <4> QED BY <1>1, <1>4, <4>1 DEF Members
    <3>4. CASE squadUuid[s] # q
      <4>1. squadUuid'[s] = squadUuid[s]
        BY <1>2, <1>3, <3>1, <3>4
      <4>2. PICK u \in Present' : u = squadUuid[s]
        BY <1>4, <3>2, <3>4
      <4>3. s \in squads'[u].members
        BY <1>4, <3>2, <4>2 DEF Members
      <4> QED BY <4>1, <4>2, <4>3
    <3> QED BY <3>3, <3>4
  <2>2. ASSUME NEW u \in Present', NEW m \in Members(u)'
        PROVE  squadUuid'[m] = u
    <3>1. m \in Soldier /\ u \in Present
      BY <1>2, <1>4, SquadTypes DEF CommandInv, TypeOK
    <3>2. CASE m \in Survivors(q)
      <4>1. squadUuid[m] = q /\ squadUuid'[m] = t
        BY <1>2, <1>3, <3>1, <3>2
      <4>2. u # t => m \in Members(u)
        BY <1>4
      <4> QED BY <1>4, <4>1, <4>2 DEF CommandInv, MembershipAgrees
    <3>3. CASE m \notin Survivors(q)
      <4>1. m \in Members(u)
        BY <1>4, <3>3
      <4> QED BY <1>3, <3>1, <3>3, <4>1 DEF CommandInv, MembershipAgrees
    <3> QED BY <3>2, <3>3
  <2> QED BY <2>1, <2>2 DEF MembershipAgrees, Members, Present
<1>7. LeaderIsMember'
  BY <1>1, <1>4 DEF CommandInv, LeaderIsMember
<1>8. OneSidePerSquad'
  <2> SUFFICES ASSUME NEW s \in Soldier, NEW c \in Soldier, squadUuid'[s] = squadUuid'[c]
               PROVE  SoldierSide[s] = SoldierSide[c]
    BY DEF OneSidePerSquad
  <2>1. s \in Survivors(q) => squadUuid[s] = q
    BY <1>2
  <2>2. c \in Survivors(q) => squadUuid[c] = q
    BY <1>2
  <2> QED BY <1>3, <2>1, <2>2, HostProperties DEF CommandInv, OneSidePerSquad
<1>9. PendingElectionsNameMembers'
  BY <1>1, <1>4, ReactTakesHead DEF CommandInv, PendingElectionsNameMembers, Kind
<1>10. PendingDeathsAreFound'
  BY ElectionHead DEF PendingDeathsAreFound
<1>11. (LeadersBeforeDeaths /\ InputsBetweenTicks /\ SaveIsOneSided)'
  BY ReactTakesHead, ReactKeepsOrder
<1> QED BY <1>5, <1>6, <1>7, <1>8, <1>9, <1>10, <1>11 DEF CommandInv

(* A squad handed over to the member elected.                              *)
LEMMA HandOverInv ==
    ASSUME CommandInv, React("SetSquadLeader"), NEW q \in Present, NEW s \in Soldier,
           q = Head(pending).squad, s = Head(pending).soldier, HandOver(q, s),
           UNCHANGED <<alive, unconscious, stage>>
    PROVE  CommandInv'
<1>1. s \in Members(q)
  BY ElectionHead
<1>2. /\ Present' = Present
      /\ \A u \in Present : Members(u)' = Members(u)
      /\ \A u \in Present \ {q} : Leader(u)' = Leader(u)
      /\ Leader(q)' = s
      /\ squads' \in [Present -> [leader : Soldier, members : SUBSET Soldier]]
  BY DEF HandOver, CommandInv, TypeOK, Present, Members, Leader
<1>3. squadUuid' = squadUuid
  BY DEF HandOver
<1>4. TypeOK'
  BY <1>2, <1>3, FollowLeaderTypes, ReactTakesHead DEF HandOver, CommandInv, TypeOK
<1>5. MembershipAgrees'
  BY <1>2, <1>3 DEF CommandInv, MembershipAgrees
<1>6. LeaderIsMember' /\ OneSidePerSquad'
  BY <1>1, <1>2, <1>3 DEF CommandInv, LeaderIsMember, OneSidePerSquad
<1>7. PendingElectionsNameMembers'
  BY <1>2, ReactTakesHead DEF CommandInv, PendingElectionsNameMembers, Kind
<1>8. PendingDeathsAreFound'
  BY ElectionHead DEF PendingDeathsAreFound
<1>9. (LeadersBeforeDeaths /\ InputsBetweenTicks /\ SaveIsOneSided)'
  BY ReactTakesHead, ReactKeepsOrder
<1> QED BY <1>4, <1>5, <1>6, <1>7, <1>8, <1>9 DEF CommandInv

(* A change of leader, whichever way it is applied, keeps the invariant.   *)
LEMMA ReactSetSquadLeaderInv ==
    ASSUME CommandInv, ReactSetSquadLeader
    PROVE  CommandInv'
<1> DEFINE q == Head(pending).squad
           s == Head(pending).soldier
<1>1. React("SetSquadLeader") /\ UNCHANGED <<alive, unconscious, stage>>
  BY DEF ReactSetSquadLeader
<1>2. q \in Squad /\ s \in Soldier
  BY <1>1, ElectionHead
<1>3. CASE q \notin Present /\ UNCHANGED <<behavior, order, squadVars>>
  BY <1>1, <1>3, ReactSoldierInv DEF squadVars, CommandInv, TypeOK
<1>4. CASE q \in Present /\ \E t \in Hosts(q) : Merge(q, t)
  BY <1>1, <1>4, MergeInv
<1>5. CASE q \in Present /\ HandOver(q, s)
  BY <1>1, <1>2, <1>5, HandOverInv
<1> QED BY <1>3, <1>4, <1>5 DEF ReactSetSquadLeader

(* Applying any message keeps the invariant.                               *)
LEMMA ReactionInv ==
    ASSUME CommandInv, Reaction
    PROVE  CommandInv'
<1>1. ASSUME NEW kind, React(kind)
      PROVE  Head(pending).kind = kind /\ Head(pending) \in Message
  BY <1>1, ReactTakesHead
<1>2. CASE ReactSetOrder
  BY <1>1, <1>2, ReactSoldierInv DEF ReactSetOrder, squadVars, CommandInv, TypeOK, Message
<1>3. CASE ReactSetBehavior
  BY <1>1, <1>3, ReactSoldierInv DEF ReactSetBehavior, squadVars, CommandInv, TypeOK, Message
<1>4. CASE ReactMakeIdle
  <2>1. order' \in [Soldier -> Order] /\ behavior' \in [Soldier -> Behaviors]
    BY <1>4 DEF ReactMakeIdle, CommandInv, TypeOK, Order, Orders, Behaviors
  <2> QED BY <1>4, <2>1, ReactSoldierInv DEF ReactMakeIdle, squadVars, CommandInv, TypeOK
<1>5. CASE ReactSetUnconscious
  <2>1. unconscious' \subseteq Soldier
    BY <1>1, <1>5 DEF ReactSetUnconscious, CommandInv, TypeOK, Message
  <2> QED BY <1>5, <2>1, ReactSoldierInv DEF ReactSetUnconscious, squadVars, CommandInv, TypeOK
<1>6. CASE ReactSetNotAlive
  BY <1>6, ReactSetNotAliveInv
<1>7. CASE ReactSetSquadLeader
  BY <1>7, ReactSetSquadLeaderInv
<1> QED BY <1>2, <1>3, <1>4, <1>5, <1>6, <1>7 DEF Reaction

(* A step that changes nothing keeps the invariant.                        *)
LEMMA StutterInv == CommandInv /\ UNCHANGED vars => CommandInv'
BY DEF CommandInv, TypeOK, MembershipAgrees, LeaderIsMember, OneSidePerSquad,
       PendingElectionsNameMembers, LeadersBeforeDeaths, PendingDeathsAreFound,
       InputsBetweenTicks, SaveIsOneSided, Present, Members, Leader, Kind, vars,
       soldierVars, squadVars, tickVars

-----------------------------------------------------------------------------
(* The invariant and the properties that follow from it.                   *)

(* CommandInv is inductive: it holds of a deployment just injected, and no *)
(* input, subsystem, message or stage of the tick breaks it.               *)
THEOREM CommandInvariant == Spec => []CommandInv
<1>1. Init => CommandInv
  BY InitInv
<1>2. CommandInv /\ [Next]_vars => CommandInv'
  <2> SUFFICES ASSUME CommandInv, [Next]_vars PROVE CommandInv'
    OBVIOUS
  <2>1. CASE Election
    BY <2>1, ElectInv DEF Election
  <2>2. CASE UNCHANGED vars
    BY <2>2, StutterInv
  <2> QED BY <2>1, <2>2, SquadInputInv, SubsystemInv, ReactionInv, StageInv DEF Next
<1> QED BY <1>1, <1>2, PTL DEF Spec

(* The state keeps its types through every tick.                           *)
THEOREM TypeCorrect == Spec => []TypeOK
BY CommandInvariant, PTL DEF CommandInv

(* The soldiers' squad_uuid and the compositions agree, whatever squads    *)
(* the messages of a tick merge or hand over.                              *)
THEOREM MembershipAlwaysAgrees == Spec => []MembershipAgrees
BY CommandInvariant, PTL DEF CommandInv

(* A squad is led by one of its members.                                   *)
THEOREM LeaderAlwaysMember == Spec => []LeaderIsMember
BY CommandInvariant, PTL DEF CommandInv

(* No merge puts soldiers of two sides in one squad.                       *)
THEOREM OneSideForEver == Spec => []OneSidePerSquad
BY CommandInvariant, PTL DEF CommandInv

(* The lookup that logs a death never panics: every SetAlive(false) about  *)
(* to be applied finds the squad of its soldier.                           *)
THEOREM DeathLookupAlwaysFound == Spec => []DeathLookupIsFound
<1>1. CommandInv => DeathLookupIsFound
  <2> SUFFICES ASSUME CommandInv, pending # <<>>, Head(pending).kind = "SetNotAlive"
               PROVE  squadUuid[Head(pending).soldier] \in Present
    BY DEF DeathLookupIsFound
  <2>1. 1 \in DOMAIN pending /\ Head(pending) = pending[1] /\ pending[1] \in Message
    BY DEF CommandInv, TypeOK
  <2>2. pending[1].soldier \in Soldier
    BY <2>1 DEF Message
  <2> QED BY <2>1, <2>2 DEF CommandInv, PendingDeathsAreFound, MembershipAgrees, Kind
<1> QED BY <1>1, CommandInvariant, PTL

-----------------------------------------------------------------------------
(* Refinement of Roster.                                                   *)

(* A change of leader that merges squads is a Join of Roster.              *)
LEMMA MergeJoins ==
    ASSUME CommandInv, NEW q \in Present, NEW t \in Hosts(q), Merge(q, t),
           UNCHANGED <<alive, saved>>
    PROVE  R!Next
<1>1. /\ t \in Squad /\ q \in Squad
      /\ Leader(t) \in alive /\ squadUuid[Leader(t)] = t
  BY HostProperties, SquadTypes
<1>2. \A s \in alive, c \in Soldier :
        squadUuid[s] = q /\ squadUuid[c] = t => SoldierSide[s] = SoldierSide[c]
  BY HostProperties DEF CommandInv, TypeOK
<1>3. squadUuid' = [s \in Soldier |-> IF s \in alive /\ squadUuid[s] = q
                                        THEN t ELSE squadUuid[s]]
  BY SurvivorsAreTheLiving DEF Merge
<1>4. R!Join(q, t)
  BY <1>1, <1>2, <1>3 DEF R!Join
<1> QED BY <1>1, <1>4 DEF R!Next

(* SquadCommand implements Roster: whatever a tick's messages do, the      *)
(* living change squad all together, for a squad of their side that        *)
(* somebody living belongs to; only the load of a save brings the dead     *)
(* back, and with them the squad each soldier had in it.                   *)
THEOREM RosterImplemented == Spec => ImplementsRoster
<1>1. Init => R!Init
  BY DEF Init, R!Init, R!Now, Soldiers
<1> DEFINE kept == [living |-> saved.alive, squadOf |-> saved.squadUuid]
<1>2. CommandInv /\ [Next]_vars => [R!Next]_<<alive, squadUuid, kept>>
  <2> SUFFICES ASSUME CommandInv, Next, ~UNCHANGED <<alive, squadUuid, kept>>
               PROVE  R!Next
    BY DEF vars, soldierVars, squadVars
  <2>1. CASE ReactSetNotAlive
    <3>1. /\ alive' = alive \ {Head(pending).soldier} /\ squadUuid' = squadUuid
          /\ saved' = saved
      BY <2>1, ReactSetNotAliveInv DEF ReactSetNotAlive, React, squadVars
    <3>2. Head(pending).soldier \in alive
      BY <3>1
    <3>3. R!Die(Head(pending).soldier)
      BY <3>1, <3>2 DEF R!Die
    <3> QED BY <3>2, <3>3 DEF R!Next, CommandInv, TypeOK
  <2>2. CASE ReactSetSquadLeader
    <3>0. UNCHANGED <<alive, saved, kept>>
      BY <2>2 DEF ReactSetSquadLeader, React
    <3>1. PICK q \in Present : \E t \in Hosts(q) : Merge(q, t)
      BY <2>2, <3>0 DEF ReactSetSquadLeader, HandOver, squadVars
    <3> QED BY <3>0, <3>1, MergeJoins
  <2>3. CASE MakeASave
    <3>1. R!Keep
      BY <2>3 DEF MakeASave, Soldiers, soldierVars, squadVars, R!Keep, R!Now
    <3> QED BY <3>1 DEF R!Next
  <2>4. CASE SetBattleState
    <3>1. R!Restore
      BY <2>4 DEF SetBattleState, R!Restore
    <3> QED BY <3>1 DEF R!Next
  <2>5. ASSUME ~ReactSetNotAlive, ~ReactSetSquadLeader, ~MakeASave, ~SetBattleState
        PROVE  UNCHANGED <<alive, squadUuid, saved>>
    <3>1. CASE SquadInput
      BY <2>5, <3>1 DEF SquadInput, PlayerOrders, soldierVars, squadVars
    <3>2. CASE Subsystem
      BY <3>2 DEF Subsystem, Animate, LeaveMap, ReturnToMap,
             BulletHits, ExplosionReaches,
             Withdraw, LoseSight, Propagate, CallSupport, LookupFails, Produce,
             soldierVars, squadVars
    <3>3. CASE Election
      BY <3>3 DEF Election, Elect, soldierVars, squadVars
    <3>4. CASE Reaction
      BY <2>5, <3>4 DEF Reaction, ReactSetOrder, ReactSetBehavior, ReactMakeIdle,
             ReactSetUnconscious, React, squadVars
    <3>5. CASE NextStage \/ TickEnds \/ Stopped
      BY <3>5 DEF NextStage, TickEnds, Stopped, vars, soldierVars, squadVars
    <3> QED BY <3>1, <3>2, <3>3, <3>4, <3>5 DEF Next
  <2> QED BY <2>1, <2>2, <2>3, <2>4, <2>5
<1> QED BY <1>1, <1>2, CommandInvariant, PTL DEF Spec, ImplementsRoster, R!Spec, R!rosterVars

=============================================================================
