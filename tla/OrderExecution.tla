---------------------------- MODULE OrderExecution ----------------------------
(***************************************************************************)
(* How an order becomes what a soldier does, and how it ends.              *)
(*                                                                         *)
(* A soldier has an order (what it was told) and a behavior (what it       *)
(* does).  Every soldier_animate_freq ticks soldier_behavior reads the     *)
(* order, may replace it, and computes a behavior from it, which a squad   *)
(* leader passes on to its subordinates as orders.  Every tick             *)
(* movement_updates walks one step of the path of the BEHAVIOR, whatever   *)
(* the order has become meanwhile; each point reached is taken out of the  *)
(* paths of both (ReachBehaviorStep), and the end of either one replaces   *)
(* both by what the order says comes next.                                 *)
(*                                                                         *)
(* As in SquadCommand, a tick computes all its messages from the state it  *)
(* found and then applies them one by one; the SideEffects they cause are  *)
(* executed after the last one.                                            *)
(*                                                                         *)
(* Abstractions.  A path is the number of its points that are left; moving *)
(* fast, sneaking or driving is moving.  "Hold" is Defend or Hide,         *)
(* "Engage" is EngageSquad, SuppressFire or EngageSoldier.  The soldiers   *)
(* are those of one side; who sees whom, stress, ammunition and interiors  *)
(* only decide which of the code's decisions is taken, and are a choice.   *)
(***************************************************************************)
EXTENDS Naturals, Sequences, SequencesExt

CONSTANTS
    Soldier,        \* indexes of the soldiers, 1 to LastSoldier
    LastSoldier,    \* how many there are
    StartLeader,    \* the leader of the squad each one is deployed in
    MaxPoints,      \* bound: the longest path
    Limit,          \* bound: how many orders of players, decisions, news (a
                    \* flag taken, sight lost), soldiers hit
    MaxEvents       \* bound: how many of these in all

ASSUME SoldierAssumption ==
    /\ LastSoldier \in Nat \ {0}
    /\ Soldier = 1..LastSoldier
    /\ StartLeader \in [Soldier -> Soldier]
    /\ \A s \in Soldier : StartLeader[StartLeader[s]] = StartLeader[s]

Kinds == {"order", "decision", "news", "hit"}

ASSUME BoundAssumption ==
    /\ MaxPoints \in Nat \ {0}
    /\ Limit \in [Kinds -> Nat]
    /\ MaxEvents \in Nat

VARIABLES
    battle,         \* Phase::Battle; Phase::Placement before
    alive,          \* soldiers whose `alive` flag is set
    stunned,        \* soldiers whose `unconscious` flag is set
    leader,         \* the leader of the squad each soldier is in
    order,          \* Soldier::order
    behavior,       \* Soldier::behavior
    controlled,     \* soldiers whose `player_controlled` flag is set
    inbound,        \* soldiers whose SetPlayerControlled is not read yet
    pending,        \* messages of this tick not applied yet
    sideEffects,    \* SoldierFinishHisBehavior of this tick
    stage,          \* what the tick is doing
    turn,           \* the soldier it is at
    events,         \* how many of each kind have happened
    untaken,        \* history: whose order came from somebody else and has
                    \* not been looked at by soldier_behavior
    merged          \* history: a SetSquadLeader has been applied

soldierVars == <<alive, stunned, leader, order, behavior, controlled>>
tickVars    == <<pending, sideEffects, stage, turn>>
vars == <<soldierVars, tickVars, battle, inbound, events, untaken, merged>>

-----------------------------------------------------------------------------
(* Orders, behaviors, and what comes after a move: `then`, which is an     *)
(* order itself; "Flag" and "Assault" are the two that are moves, to a     *)
(* flag from the wall of its building, and to a place to attack.           *)

Thens  == {"None", "Idle", "Hold", "Away", "Flag", "Assault"}
Still  == {"Idle", "Hold", "Engage", "Away"}
Points == 0..MaxPoints

Order    == [kind : {"Move"}, left : Points, then : Thens]
            \cup [kind : Still, left : {0}, then : {"None"}]
Behavior == [kind : {"Move"}, left : Points]
            \cup [kind : Still \cup {"Dead", "Unconscious"}, left : {0}]

Move(left, then) == [kind |-> "Move", left |-> left, then |-> then]
Be(kind)         == [kind |-> kind, left |-> 0, then |-> "None"]
Does(kind)       == [kind |-> kind, left |-> 0]

IsMove(x)    == x.kind = "Move"
NewMoves(T)  == {Move(left, then) : left \in 1..MaxPoints, then \in T}

NoIdleAfter(then) ==                                               \* a mutant
    CASE then = "Flag"    -> Move(MaxPoints, "None")
      [] then = "Assault" -> Move(MaxPoints, "Hold")
      [] OTHER -> Be(then)

(* Order::then, and Idle where there is none.                              *)
After(then) ==
    CASE then = "Flag"    -> Move(MaxPoints, "None")
      [] then = "Assault" -> Move(MaxPoints, "Hold")
      [] then \in {"None", "Idle"} -> Be("Idle")
      [] OTHER -> Be(then)

(* Behavior::from_order.                                                   *)
FromOrder(o) == [kind |-> o.kind, left |-> o.left]

(* can_feel_bullet_fire or explosion; can_be_animated or a leader; and     *)
(* soldier_behavior's first return.                                        *)
Feels(s)    == s \in alive /\ behavior[s].kind # "Away"
Able(s)     == Feels(s) /\ s \notin stunned
Animated(s) == Able(s) /\ s \notin controlled
Leads(s)    == leader[s] = s
SquadOf(s)  == {m \in Soldier : leader[m] = s}
Squads      == {s \in Soldier : Leads(s)}

-----------------------------------------------------------------------------
(* Messages.  SetOrders is a block of SetOrder messages to several         *)
(* soldiers; `own` says that soldier_behavior or movement_updates computed *)
(* it for the soldier itself, together with its behavior.                  *)

PartialOrders == UNION {[S -> Order] : S \in SUBSET Soldier}

SetOrders(f, own) == [kind |-> "SetOrders", orders |-> f, own |-> own]
SetOrder(s, o, own) == SetOrders([x \in {s} |-> o], own)
SetBehavior(s, b) == [kind |-> "SetBehavior", soldier |-> s, behavior |-> b]
ReachStep(s)      == [kind |-> "ReachBehaviorStep", soldier |-> s]
MakeIdle(S)       == [kind |-> "MakeIdle", soldiers |-> S]
Die(s)            == [kind |-> "SetAlive", soldier |-> s]
Faint(s)          == [kind |-> "SetUnconscious", soldier |-> s]
SetSquadLeader(q, s) == [kind |-> "SetSquadLeader", squad |-> q, soldier |-> s]

Message ==
         [kind : {"SetOrders"}, orders : PartialOrders, own : BOOLEAN]
    \cup [kind : {"SetBehavior"}, soldier : Soldier, behavior : Behavior]
    \cup [kind : {"ReachBehaviorStep", "SetAlive", "SetUnconscious"}, soldier : Soldier]
    \cup [kind : {"MakeIdle"}, soldiers : SUBSET Soldier]
    \cup [kind : {"SetSquadLeader"}, squad : Soldier, soldier : Soldier]

-----------------------------------------------------------------------------
Init ==
    /\ battle = FALSE
    /\ alive = Soldier
    /\ stunned = {}
    /\ leader = StartLeader
    /\ order = [s \in Soldier |-> Be("Idle")]
    /\ behavior = [s \in Soldier |-> Does("Idle")]
    /\ controlled = {}
    /\ inbound = {}
    /\ pending = <<>>
    /\ sideEffects = <<>>
    /\ stage = "inputs"
    /\ turn = 1
    /\ events = [k \in Kinds |-> 0]
    /\ untaken = {}
    /\ merged = FALSE

Event(k) ==
    /\ events[k] < Limit[k]
    /\ events["order"] + events["decision"] + events["news"] + events["hit"] < MaxEvents
    /\ events' = [events EXCEPT ![k] = @ + 1]

-----------------------------------------------------------------------------
(* Inputs.                                                                 *)

Begin ==
    /\ stage = "inputs"
    /\ ~battle
    /\ battle' = TRUE
    /\ UNCHANGED <<soldierVars, tickVars, inbound, events, untaken, merged>>

(* define_order sends SetOrder and SetPlayerControlled for each member of  *)
(* the squad; they are read one by one, a tick may come in between.  In    *)
(* the placement phase a soldier that has a cover to hold, or leads, takes *)
(* the behavior at once.                                                   *)
PlayerOrders == NewMoves({"None"}) \cup {Be("Hold"), Be("Engage")}

ReceiveOrder(s, o) ==
    /\ stage = "inputs"
    /\ Event("order")
    /\ order' = [order EXCEPT ![s] = o]
    /\ behavior' \in IF ~battle /\ o = Be("Hold")
                      THEN {behavior, [behavior EXCEPT ![s] = Does("Hold")]}
                      ELSE {behavior}
    /\ inbound' = inbound \cup {s}
    /\ untaken' = untaken \cup {s}
    /\ UNCHANGED <<alive, stunned, leader, controlled, tickVars, battle, merged>>

ReceiveControl(s) ==
    /\ stage = "inputs"
    /\ s \in inbound
    /\ inbound' = inbound \ {s}
    /\ controlled' = controlled \cup {s}
    /\ UNCHANGED <<alive, stunned, leader, order, behavior, tickVars, battle,
                   events, untaken, merged>>

(* A chat command made of clicks only: the leader of a squad is told to    *)
(* move, or to attack, or to move and then attack.                         *)
ChatOrder(s, o) ==
    /\ stage = "inputs"
    /\ Leads(s)
    /\ Event("order")
    /\ order' = [order EXCEPT ![s] = o]
    /\ untaken' = untaken \cup {s}
    /\ UNCHANGED <<alive, stunned, leader, behavior, controlled, tickVars, battle,
                   inbound, merged>>

AnimatingFromTheSecond(animate) ==                                  \* a mutant
    /\ stage = "inputs"
    /\ animate => battle
    /\ stage' = IF animate THEN "animate" ELSE "update"
    /\ turn' = IF animate /\ LastSoldier > 1 THEN 2 ELSE 1
    /\ UNCHANGED <<soldierVars, pending, sideEffects, battle, inbound, events,
                   untaken, merged>>

(* A tick begins; the soldiers are animated in some ticks of a battle.     *)
StartTick(animate) ==
    /\ stage = "inputs"
    /\ animate => battle
    /\ stage' = IF animate THEN "animate" ELSE "update"
    /\ turn' = 1
    /\ UNCHANGED <<soldierVars, pending, sideEffects, battle, inbound, events,
                   untaken, merged>>

(* tick_flags comes before the soldiers, in any phase: once a flag is      *)
(* taken, those that fire at it are made idle, and a leader that took it   *)
(* is told to go back to its checkpoint.                                   *)
FlagTaken(animate) ==
    /\ stage = "inputs"
    /\ animate => battle
    /\ Event("news")
    /\ \E R \in SUBSET {s \in alive : order[s].kind = "Engage"},
          L \in SUBSET (Squads \cap alive) :
       \E f \in [L -> NewMoves({"Idle"})] :
          pending' = pending \o <<MakeIdle(R), SetOrders(f, FALSE)>>
    /\ stage' = IF animate THEN "animate" ELSE "update"
    /\ turn' = 1
    /\ UNCHANGED <<soldierVars, sideEffects, battle, inbound, untaken, merged>>

-----------------------------------------------------------------------------
(* animate_soldier.  A decision is the order the soldier gives itself, if  *)
(* any, and the behavior it takes.                                         *)

Keep(b)   == [orders |-> {}, behavior |-> b]
Change(o) == [orders |-> {o}, behavior |-> FromOrder(o)]

(* Without anything new: the behavior of the order; who engages goes on    *)
(* until there is no opponent left.                                        *)
Routine(s) ==
    IF order[s].kind # "Engage" THEN {Keep(FromOrder(order[s]))}
    ELSE {Keep(Does("Idle"))}
         \cup ({Keep(Does("Engage"))} \cap {Keep(behavior[s])})

(* With something new.  Danger makes anyone hide where it is.             *)
Panic == {Change(Be("Hold"))}

(* An opponent near enough is engaged, whatever the order says.            *)
AtContact == {Keep(Does("Engage"))}

(* Without ammunition: supplied at the checkpoint of the squad, on the way *)
(* to it, or hiding because no path leads there.                           *)
FetchAmmunition ==
    {Change(Be("Idle")), Keep(Does("Hold"))} \cup {Change(o) : o \in NewMoves({"Idle"})}

(* Someone with nothing to do flanks its target, goes back to the          *)
(* checkpoint, or sets out for a flag, through the wall of its building    *)
(* if it is in one; indoors, it hides.                                     *)
Flank              == {Change(o) : o \in NewMoves({"Idle"})}
ReturnToCheckpoint == {Change(o) : o \in NewMoves({"Idle"})}
SetOutForFlag      == {Change(o) : o \in NewMoves({"None", "Flag"})}
Indoors            == {Keep(Does("Hold"))}

(* Someone on the way into a building sneaks to its wall first, waits      *)
(* there while it throws, and then confirms the assault.                   *)
StackUp(s) == {Change(o) : o \in NewMoves({"Hold"}) \cup {Be("Hold"), order[s]}}

(* Who holds may be awake again and does what it would with no order.      *)
Decisions(s) ==
    Panic
    \cup (IF order[s].kind # "Away" THEN AtContact \cup FetchAmmunition ELSE {})
    \cup (IF IsMove(order[s]) /\ order[s].left > 0 THEN StackUp(s) ELSE {})
    \cup (IF order[s].kind \in {"Idle", "Hold"}
             THEN Flank \cup ReturnToCheckpoint \cup SetOutForFlag \cup Indoors
             ELSE {})

(* propagate_behavior: what a subordinate may be told.  It copies the path *)
(* of its leader, goes to a cover to hold there, fires at what the leader  *)
(* fires at or goes where it can.                                          *)
ToldToMove(left) == {Move(left, "None")}
ToldToHold       == {Move(MaxPoints, "Hold")}
ToldToEngage     == {Be("Engage")} \cup NewMoves({"None"})

Told(b) ==
    CASE b.kind = "Move"   -> ToldToMove(b.left)
      [] b.kind = "Hold"   -> ToldToHold
      [] b.kind = "Engage" -> ToldToEngage
      [] b.kind = "Away"   -> {Be("Away")}
      [] OTHER -> {}

(* Who panics is not told, who has the order already neither.  A leader in *)
(* sight of an enemy holds instead of seeing to covers; one that fights at *)
(* a disadvantage sneaks away, and the other squads fire to cover it.      *)
Flees(s, C) ==
    {[x \in {s} \cup C |-> IF x = s THEN o ELSE Be("Engage")] :
       o \in NewMoves({"Hold"}) \cup {Move(MaxPoints, "Away")}}

Propagations(s, b) ==
    (UNION {[S -> Told(b)] : S \in SUBSET ((SquadOf(s) \cap alive) \ {s})})
    \cup (IF b.kind = "Hold" THEN {[x \in {s} |-> Be("Hold")]} ELSE {})
    \cup (IF b.kind = "Engage"
             THEN UNION {Flees(s, C) : C \in SUBSET (alive \ SquadOf(s))} ELSE {})

Changes(s, d) == d.orders # {} \/ d.behavior # behavior[s]

Acting(s, d, told) ==
    (IF d.orders = {} THEN <<>>
     ELSE <<SetOrder(s, CHOOSE o \in d.orders : TRUE, TRUE)>>)
    \o (IF DOMAIN told = {} THEN <<>> ELSE <<SetOrders(told, FALSE)>>)
    \o (IF Changes(s, d) THEN <<SetBehavior(s, d.behavior)>> ELSE <<>>)

NextTurn(next) ==
    IF turn < LastSoldier THEN turn' = turn + 1 /\ UNCHANGED stage
                          ELSE turn' = 1 /\ stage' = next

Animate(s) ==
    /\ stage = "animate"
    /\ turn = s
    /\ Animated(s)
    /\ \/ \E d \in Routine(s) : \E told \in
             IF Leads(s) /\ Changes(s, d) THEN Propagations(s, d.behavior) ELSE {<<>>} :
           pending' = pending \o Acting(s, d, told) /\ UNCHANGED events
       \/ Event("decision") /\ \E d \in Decisions(s) : \E told \in
             IF Leads(s) /\ Changes(s, d) THEN Propagations(s, d.behavior) ELSE {<<>>} :
           pending' = pending \o Acting(s, d, told)
    /\ untaken' = untaken \ {s}
    /\ NextTurn("update")
    /\ UNCHANGED <<soldierVars, sideEffects, battle, inbound, merged>>

NotAnimated(s) ==
    /\ stage = "animate"
    /\ turn = s
    /\ ~Animated(s)
    /\ NextTurn("update")
    /\ UNCHANGED <<soldierVars, pending, sideEffects, battle, inbound, events,
                   untaken, merged>>

-----------------------------------------------------------------------------
(* update_soldier: one step of the behavior.                               *)

Walking(s) == IsMove(behavior[s])

Updated(s, msgs) ==
    /\ stage = "update"
    /\ turn = s
    /\ pending' = pending \o msgs
    /\ NextTurn("leaders")
    /\ UNCHANGED <<soldierVars, sideEffects, battle, inbound, events, untaken, merged>>

(* movement_updates at the last point of the path of the behavior: what    *)
(* the ORDER says comes next takes over.                                   *)
EndOfPath(s) ==
    /\ Walking(s)
    /\ behavior[s].left = 1
    /\ LET next == After(order[s].then) IN
         Updated(s, <<SetBehavior(s, FromOrder(next)), SetOrder(s, next, TRUE)>>)

PointReached(s) ==
    /\ Walking(s)
    /\ behavior[s].left > 1
    /\ Updated(s, <<ReachStep(s)>>)

(* off_map_update, once the return frame has come.                         *)
ReturnToMap(s) ==
    /\ behavior[s].kind = "Away"
    /\ Updated(s, <<SetOrder(s, Be("Hold"), TRUE), SetBehavior(s, Does("Hold"))>>)

(* Not there yet, or nothing to do.                                        *)
NoStep(s) ==
    /\ Walking(s) => behavior[s].left > 0
    /\ Updated(s, <<>>)

(* movement_updates finds no next point: "Must have point in path".        *)
NoPointInPath(s) ==
    /\ stage = "update"
    /\ turn = s
    /\ Walking(s)
    /\ behavior[s].left = 0
    /\ stage' = "panicked"
    /\ UNCHANGED <<soldierVars, pending, sideEffects, turn, battle, inbound,
                   events, untaken, merged>>

-----------------------------------------------------------------------------
(* The rest of the tick: squad leaders, what frees soldiers of what they   *)
(* do, and what hits them.                                                 *)

Produce(msgs, next) ==
    /\ pending' = pending \o msgs
    /\ stage' = next
    /\ UNCHANGED <<soldierVars, sideEffects, turn, battle, inbound, untaken, merged>>

Headless    == {q \in Squads : ~Able(q) /\ \E m \in SquadOf(q) : Able(m)}
Elected(q)  == \E i \in DOMAIN pending :
                  pending[i].kind = "SetSquadLeader" /\ pending[i].squad = q

Elect(q, s) ==
    /\ stage = "leaders"
    /\ q \in Headless
    /\ ~Elected(q)
    /\ s \in SquadOf(q)
    /\ Able(s)
    /\ Produce(<<SetSquadLeader(q, s)>>, stage)
    /\ UNCHANGED events

(* An idle squad is sent to the help of another: all its members are made  *)
(* idle, then its leader alone is told to move.                            *)
CallSupport(q) ==
    /\ stage = "leaders"
    /\ \A h \in Headless : Elected(h)
    /\ q \in Squads \cap alive
    /\ order[q].kind \in {"Idle", "Hold"}
    /\ Event("decision")
    /\ \E o \in NewMoves({"Hold"}) :
         Produce(<<MakeIdle(SquadOf(q)), SetOrder(q, o, FALSE)>>, stage)

LeadersHaveSent == stage = "leaders" /\ \A q \in Headless : Elected(q)

(* update_orders_due_to_visibilities: nobody sees the squad to engage.     *)
LoseSight(q) ==
    /\ LeadersHaveSent \/ stage = "relief"
    /\ battle
    /\ q \in Squads
    /\ order[q].kind = "Engage"
    /\ Event("news")
    /\ Produce(<<SetOrder(q, Be("Idle"), FALSE)>>, "relief")

LeadersDone ==
    /\ LeadersHaveSent \/ stage = "relief"
    /\ stage' = "hits"
    /\ UNCHANGED <<soldierVars, pending, sideEffects, turn, battle, inbound,
                   events, untaken, merged>>

(* soldier_die, soldier_blast_stunned, and the cover everybody near an     *)
(* explosion takes, whatever else becomes of it.                           *)
Death(s)     == <<SetBehavior(s, Does("Dead")), Die(s)>>
Stun(s)      == <<SetBehavior(s, Does("Unconscious")), Faint(s)>>
TakeCover(s) == <<SetOrder(s, Be("Hold"), TRUE), SetBehavior(s, Does("Hold"))>>

(* bullet_fire_effects, of all bullets before all explosions.              *)
Killed(s) ==
    /\ stage = "hits"
    /\ battle
    /\ Feels(s)
    /\ Event("hit")
    /\ Produce(Death(s), stage)

(* explosion_effects on one soldier, that a bullet or another explosion    *)
(* may have killed in this tick.                                           *)
Blasted(s) ==
    /\ stage \in {"hits", "blasts"}
    /\ battle
    /\ Feels(s)
    /\ Event("hit")
    /\ \E cover \in {<<>>} \cup (IF s \in stunned THEN {} ELSE {TakeCover(s)}),
          harm  \in {<<>>, Death(s), Stun(s)} :
         Produce(cover \o harm, "blasts")

HitsDone ==
    /\ stage \in {"hits", "blasts"}
    /\ stage' = "react"
    /\ UNCHANGED <<soldierVars, pending, sideEffects, turn, battle, inbound,
                   events, untaken, merged>>

-----------------------------------------------------------------------------
(* Runner::react.                                                          *)

React(kind) ==
    /\ stage = "react"
    /\ pending # <<>>
    /\ Head(pending).kind = kind
    /\ pending' = Tail(pending)
    /\ UNCHANGED <<controlled, turn, battle, inbound, events>>

ReactSetOrders ==
    /\ React("SetOrders")
    /\ LET f == Head(pending).orders IN
         /\ order' = [s \in Soldier |-> IF s \in DOMAIN f THEN f[s] ELSE order[s]]
         /\ untaken' = IF Head(pending).own THEN untaken \ DOMAIN f
                                            ELSE untaken \cup DOMAIN f
    /\ UNCHANGED <<alive, stunned, leader, behavior, sideEffects, stage, merged>>

ReactSetBehavior ==
    /\ React("SetBehavior")
    /\ behavior' = [behavior EXCEPT ![Head(pending).soldier] = Head(pending).behavior]
    /\ UNCHANGED <<alive, stunned, leader, order, sideEffects, stage, untaken, merged>>

ReactMakeIdle ==
    /\ React("MakeIdle")
    /\ LET S == Head(pending).soldiers IN
         /\ order' = [s \in Soldier |-> IF s \in S THEN Be("Idle") ELSE order[s]]
         /\ behavior' = [s \in Soldier |->
                           IF s \in S THEN Does("Idle") ELSE behavior[s]]
         /\ untaken' = untaken \ S
    /\ UNCHANGED <<alive, stunned, leader, sideEffects, stage, merged>>

ReactSetAlive ==
    /\ React("SetAlive")
    /\ alive' = alive \ {Head(pending).soldier}
    /\ UNCHANGED <<stunned, leader, order, behavior, sideEffects, stage, untaken, merged>>

ReactSetUnconscious ==
    /\ React("SetUnconscious")
    /\ stunned' = stunned \cup {Head(pending).soldier}
    /\ UNCHANGED <<alive, leader, order, behavior, sideEffects, stage, untaken, merged>>

StepKeepingThePoint(x) == x                                         \* a mutant

(* Order::reach_step: take a point out; true when none is left.            *)
Step(x) == [x EXCEPT !.left = IF @ = 0 THEN 0 ELSE @ - 1]

OrderEnds(o) == IsMove(o) /\ o.left <= 1

ReachStepOfBehaviorOnly ==                                          \* a mutant
    /\ React("ReachBehaviorStep")
    /\ LET s == Head(pending).soldier IN
         /\ behavior' = IF ~IsMove(behavior[s]) THEN behavior
                        ELSE [behavior EXCEPT ![s] = Step(behavior[s])]
         /\ sideEffects' = IF IsMove(behavior[s]) /\ behavior[s].left <= 1
              THEN Append(sideEffects, [soldier |-> s, then |-> order[s].then])
              ELSE sideEffects
    /\ UNCHANGED <<alive, stunned, leader, order, stage, untaken, merged>>

(* ReachBehaviorStep: `order.reach_step() || behavior.reach_step()`.  The  *)
(* behavior steps only when the order did not end.                         *)
ReactReachStep ==
    /\ React("ReachBehaviorStep")
    /\ LET s    == Head(pending).soldier
           o    == order[s]
           ends == OrderEnds(o) \/ (IsMove(behavior[s]) /\ behavior[s].left <= 1)
       IN  /\ order' = IF IsMove(o) THEN [order EXCEPT ![s] = Step(o)] ELSE order
           /\ behavior' = IF OrderEnds(o) \/ ~IsMove(behavior[s]) THEN behavior
                          ELSE [behavior EXCEPT ![s] = Step(behavior[s])]
           /\ sideEffects' = IF ends
                THEN Append(sideEffects, [soldier |-> s, then |-> o.then])
                ELSE sideEffects
           /\ stage' = IF ~OrderEnds(o) /\ behavior[s] = [kind |-> "Move", left |-> 0]
                         THEN "panicked" ELSE stage
    /\ UNCHANGED <<alive, stunned, leader, untaken, merged>>

(* SetSquadLeader: the living members are made idle, then join the squad   *)
(* of another living leader and copy its order and behavior as they are at *)
(* this point of the messages; without one, the elected soldier leads.     *)
ReactSetSquadLeader ==
    /\ React("SetSquadLeader")
    /\ LET q    == Head(pending).squad
           s    == Head(pending).soldier
           join(h, led) ==
             LET F == SquadOf(q) \cap alive
                 idle == h \in F
             IN  /\ leader' = [x \in Soldier |-> IF x \in led THEN h ELSE leader[x]]
                 /\ order' = [x \in Soldier |->
                      IF x \notin F THEN order[x]
                      ELSE IF idle THEN Be("Idle") ELSE order[h]]
                 /\ behavior' = [x \in Soldier |->
                      IF x \notin F THEN behavior[x]
                      ELSE IF idle THEN Does("Idle") ELSE behavior[h]]
           hosts == (Squads \cap alive) \ {q}
       IN  \/ /\ ~Leads(q)
              /\ UNCHANGED <<leader, order, behavior, merged>>
           \/ /\ Leads(q)
              /\ merged' = TRUE
              /\ IF hosts = {} THEN join(s, SquadOf(q))
                 ELSE \E h \in hosts : join(h, SquadOf(q) \cap alive)
    /\ UNCHANGED <<alive, stunned, sideEffects, stage, untaken>>

AllApplied ==
    /\ stage = "react"
    /\ pending = <<>>
    /\ stage' = "sideEffects"
    /\ UNCHANGED <<soldierVars, pending, sideEffects, turn, battle, inbound,
                   events, untaken, merged>>

FinishOrderOnly ==                                                  \* a mutant
    /\ stage = "sideEffects"
    /\ sideEffects # <<>>
    /\ sideEffects' = Tail(sideEffects)
    /\ LET s == Head(sideEffects).soldier IN
         order' = [order EXCEPT ![s] = After(Head(sideEffects).then)]
    /\ UNCHANGED <<alive, stunned, leader, behavior, controlled, pending, stage, turn,
                   battle, inbound, events, untaken, merged>>

(* side_effect: SoldierFinishHisBehavior, of who is still alive.           *)
FinishBehavior ==
    /\ stage = "sideEffects"
    /\ sideEffects # <<>>
    /\ sideEffects' = Tail(sideEffects)
    /\ LET s    == Head(sideEffects).soldier
           next == After(Head(sideEffects).then)
       IN  IF s \in alive
             THEN /\ order' = [order EXCEPT ![s] = next]
                  /\ behavior' = [behavior EXCEPT ![s] = FromOrder(next)]
                  /\ untaken' = untaken \ {s}
             ELSE UNCHANGED <<order, behavior, untaken>>
    /\ UNCHANGED <<alive, stunned, leader, controlled, pending, stage, turn, battle,
                   inbound, events, merged>>

TickEnds ==
    /\ stage = "sideEffects"
    /\ sideEffects = <<>>
    /\ stage' = "inputs"
    /\ UNCHANGED <<soldierVars, pending, sideEffects, turn, battle, inbound,
                   events, untaken, merged>>

Stopped == stage = "panicked" /\ UNCHANGED vars

-----------------------------------------------------------------------------
Input ==
    \/ Begin
    \/ \E s \in Soldier : ReceiveControl(s)
    \/ \E s \in Soldier : \E o \in PlayerOrders : ReceiveOrder(s, o)
    \/ \E s \in Soldier : \E o \in NewMoves({"None", "Hold", "Assault"}) :
         ChatOrder(s, o)

Update(s) == EndOfPath(s) \/ PointReached(s) \/ ReturnToMap(s) \/ NoStep(s)

SoldiersTurn ==
    \E s \in Soldier : Animate(s) \/ NotAnimated(s) \/ Update(s) \/ NoPointInPath(s)

Reaction ==
    \/ ReactSetOrders \/ ReactSetBehavior \/ ReactMakeIdle \/ ReactSetAlive
    \/ ReactSetUnconscious \/ ReactReachStep \/ ReactSetSquadLeader \/ FinishBehavior

Ticking ==
    \/ \E animate \in BOOLEAN : StartTick(animate)
    \/ SoldiersTurn \/ (\E q, s \in Soldier : Elect(q, s)) \/ LeadersDone
    \/ HitsDone \/ Reaction \/ AllApplied \/ TickEnds

Next ==
    \/ Input \/ Ticking
    \/ \E animate \in BOOLEAN : FlagTaken(animate)
    \/ \E s \in Soldier : \/ CallSupport(s) \/ LoseSight(s) \/ Killed(s)
                           \/ Blasted(s)
    \/ Stopped

Spec == Init /\ [][Next]_vars

(* The server thread goes on and reads its inputs; a battle once deployed  *)
(* begins; one tick in soldier_animate_freq is animated; a soldier that    *)
(* walks comes nearer by its velocity each tick, so it comes to its point, *)
(* and one off the map comes back at its frame.                            *)
Fairness ==
    /\ WF_vars(Ticking)
    /\ SF_vars(Begin \/ \E s \in Soldier : ReceiveControl(s))
    /\ SF_vars(StartTick(TRUE))
    /\ \A s \in Soldier : SF_vars(EndOfPath(s) \/ PointReached(s) \/ ReturnToMap(s))

FairSpec == Spec /\ Fairness

-----------------------------------------------------------------------------
(* Properties.                                                             *)

(* Types; the bound on events is one of them.                              *)
TypeOK ==
    /\ battle \in BOOLEAN
    /\ alive \subseteq Soldier
    /\ stunned \subseteq Soldier
    /\ leader \in [Soldier -> Soldier]
    /\ order \in [Soldier -> Order]
    /\ behavior \in [Soldier -> Behavior]
    /\ controlled \subseteq Soldier
    /\ inbound \subseteq Soldier
    /\ pending \in Seq(Message)
    /\ sideEffects \in Seq([soldier : Soldier, then : Thens])
    /\ stage \in {"inputs", "animate", "update", "leaders", "relief", "hits",
                  "blasts", "react", "sideEffects", "panicked"}
    /\ turn \in Soldier
    /\ events \in [Kinds -> Nat] /\ \A k \in Kinds : events[k] <= Limit[k]
    /\ untaken \subseteq Soldier
    /\ merged \in BOOLEAN

(* The expect()s of movement_updates and of reach_step ("Must have point   *)
(* in path", "Reach a move behavior implies containing point"): the paths  *)
(* of orders and behaviors are taken apart by separate messages, yet no    *)
(* soldier walks a path without points unless a squad was merged.          *)
OnlyMergesPanic == stage = "panicked" => merged

(* What a soldier walks is what it was told to walk, point for point,      *)
(* unless somebody gave it an order it has not looked at yet.              *)
WalksItsOrder ==
    stage = "inputs" /\ ~merged =>
      \A s \in alive \ untaken :
        Walking(s) => IsMove(order[s]) /\ order[s].left = behavior[s].left

(* The invariant behind the two, up to the first merge.  What a soldier    *)
(* will be when the messages under way have been applied: `ended` says     *)
(* that a side effect is to replace its order and its behavior.            *)
Ended(s) == \E i \in DOMAIN sideEffects : sideEffects[i].soldier = s

Now(s) == [soldier |-> s, order |-> order[s], behavior |-> behavior[s],
           untaken |-> s \in untaken, ended |-> Ended(s)]

Becomes(x, m) ==
    CASE m.kind = "SetOrders" /\ x.soldier \in DOMAIN m.orders ->
           [x EXCEPT !.order = m.orders[x.soldier], !.untaken = ~m.own]
      [] m.kind = "SetBehavior" /\ x.soldier = m.soldier ->
           [x EXCEPT !.behavior = m.behavior]
      [] m.kind = "MakeIdle" /\ x.soldier \in m.soldiers ->
           [x EXCEPT !.order = Be("Idle"), !.behavior = Does("Idle"), !.untaken = FALSE]
      [] m.kind = "ReachBehaviorStep" /\ x.soldier = m.soldier ->
           [x EXCEPT !.order = IF IsMove(@) THEN Step(@) ELSE @,
                     !.behavior = IF OrderEnds(x.order) \/ ~IsMove(@) THEN @ ELSE Step(@),
                     !.ended = @ \/ OrderEnds(x.order)
                               \/ (IsMove(x.behavior) /\ x.behavior.left <= 1)]
      [] OTHER -> x

Applied(x, msgs) == FoldLeft(Becomes, x, msgs)

Foreseen(s) == Applied(Now(s), pending)

(* It will walk what it was told, or has still to look at it, or is at the *)
(* end of it.                                                              *)
Agree(o, b) == IsMove(b) => IsMove(o) /\ o.left = b.left
Settled(x)  == x.untaken \/ x.ended \/ Agree(x.order, x.behavior)

WillAgree == \A s \in alive : Settled(Foreseen(s))

(* The messages of a tick come in an order: before its turn a soldier is   *)
(* only told, unless it engages and is made idle; it reaches one point in  *)
(* its turn; and nobody is set to walk after a death.                      *)
TouchedBy(m) ==
    CASE m.kind = "SetOrders" -> DOMAIN m.orders
      [] m.kind = "MakeIdle" -> m.soldiers
      [] m.kind = "SetSquadLeader" -> {}
      [] OTHER -> {m.soldier}

Engaged(S) == \A s \in S : order[s].kind = "Engage"

Timely(m) ==
    /\ stage = "animate" => \/ m.kind = "SetOrders" /\ ~m.own
                            \/ TouchedBy(m) \subseteq 1..(turn - 1)
                            \/ m.kind = "MakeIdle" /\ Engaged(m.soldiers)
    /\ m.kind = "ReachBehaviorStep" =>
          stage # "animate" /\ (stage = "update" => m.soldier < turn)
    /\ m.kind = "SetAlive" => stage \notin {"animate", "update", "leaders", "relief"}

InTurn == \A i \in DOMAIN pending : Timely(pending[i])

OneStepEach ==
    \A i, j \in DOMAIN pending :
        pending[i].kind = "ReachBehaviorStep" /\ pending[j] = pending[i] => i = j

Halts(m) ==
    \/ m.kind \in {"SetOrders", "SetAlive", "SetUnconscious"}
    \/ m.kind = "SetBehavior" /\ ~IsMove(m.behavior)

DeadLast ==
    \A i \in DOMAIN pending : pending[i].kind = "SetAlive" =>
        /\ \A j \in DOMAIN pending : j > i => Halts(pending[j])
        /\ IF i = 1 THEN ~Walking(pending[i].soldier)
           ELSE pending[i - 1] = SetBehavior(pending[i].soldier, Does("Dead"))

(* Who walks is alive, and has a point to walk to, or is about to stop; no *)
(* message makes it otherwise, nor elects into a squad that is gone.       *)
HasPoints(x) == IsMove(x) => x.left > 0

DeadStandStill == \A s \in Soldier : Walking(s) => s \in alive

PathsHavePoints ==
    \A s \in alive : Ended(s) \/ (HasPoints(order[s]) /\ HasPoints(behavior[s]))

Fits(m) ==
    CASE m.kind = "SetOrders" -> \A s \in DOMAIN m.orders : HasPoints(m.orders[s])
      [] m.kind = "SetBehavior" ->
           HasPoints(m.behavior) /\ (IsMove(m.behavior) => m.soldier \in alive)
      [] m.kind = "ReachBehaviorStep" -> m.soldier \in alive /\ ~Ended(m.soldier)
      [] m.kind = "SetSquadLeader" -> Leads(m.squad)
      [] OTHER -> TRUE

MessagesFit == \A i \in DOMAIN pending : Fits(pending[i])

(* Between two stages nothing is left over.                                *)
StagesAreDone ==
    /\ stage \in {"inputs", "sideEffects"} => pending = <<>>
    /\ stage \in {"inputs", "animate", "update", "leaders", "relief", "hits", "blasts"} =>
          sideEffects = <<>>

Orderly ==
    /\ stage # "panicked"
    /\ WillAgree /\ InTurn /\ OneStepEach /\ DeadLast
    /\ DeadStandStill /\ PathsHavePoints /\ MessagesFit

OrderInv == TypeOK /\ StagesAreDone /\ (~merged => Orderly)

(* Who walks comes to an end of it.                                        *)
EveryWalkEnds == \A s \in Soldier : []<>~Walking(s)

(* An order given to a soldier that no player controls is looked at, or    *)
(* replaced, unless the soldier cannot act any more.                       *)
OrdersAreTaken ==
    \A s \in Soldier :
      []<>(s \notin untaken \/ ~Animated(s) \/ stage = "panicked")

(* doc/player/index.md says of the orders of players given in the          *)
(* placement phase that they "will be executed only when battle start".    *)
PlayerOrdersAreExecuted ==
    \A s \in Soldier :
      s \in controlled /\ ~IsMove(behavior[s]) /\ IsMove(order[s])
        ~> Walking(s) \/ s \notin alive \/ ~IsMove(order[s]) \/ stage = "panicked"
=============================================================================
