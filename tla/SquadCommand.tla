---------------------------- MODULE SquadCommand ----------------------------
(***************************************************************************)
(* Who belongs to which squad and who leads it, while the battle server    *)
(* runs.                                                                   *)
(*                                                                         *)
(* A tick of battle_server::runner first applies the inputs of the         *)
(* clients, then lets each subsystem (soldiers, squad leaders, support,    *)
(* visibilities, bullets, explosions) compute messages from the state as   *)
(* the tick found it, and only then applies those messages, one after the  *)
(* other (Runner::tick).  A message may thus be applied to a state that    *)
(* the messages before it have changed: the squad a soldier died in may    *)
(* have been merged into another, the soldier told to hide may be dead.    *)
(* The model keeps exactly that: `stage` says which subsystem is           *)
(* computing, `pending` is the tick's message list, and the stage "react"  *)
(* applies its head at each step.                                          *)
(*                                                                         *)
(* Positions, weapons, stress and visibility only decide WHICH messages a  *)
(* subsystem produces; they are abstracted to a free choice among the      *)
(* messages the code's own conditions on the modelled state allow.         *)
(***************************************************************************)
EXTENDS Naturals, Sequences

CONSTANTS
    Soldier,        \* indexes in BattleState::soldiers (SoldierIndex)
    Squad,          \* the squad identifiers (SquadUuid)
    SoldierSide,    \* the side each soldier fights for
    StartSquad,     \* the squad each soldier is deployed with
    MaxEvents       \* bound: hits, orders, moves, saves and loads of a behaviour

Orders    == {"Local", "Withdrawing", "OffMapTransit"}
Behaviors == {"Acting", "OffMapTransit", "Unconscious", "Dead"}

(* A deployment gives each soldier one squad, whose soldiers are all of    *)
(* one side; indexes are numbers, so any soldiers have a first one.        *)
ASSUME DeploymentAssumption ==
    /\ Soldier \subseteq Nat
    /\ StartSquad \in [Soldier -> Squad]
    /\ \A s, c \in Soldier :
         StartSquad[s] = StartSquad[c] => SoldierSide[s] = SoldierSide[c]
    /\ Squad \cap Orders = {}
    /\ MaxEvents \in Nat

VARIABLES
    alive,          \* soldiers whose `alive` flag is set
    unconscious,    \* soldiers whose `unconscious` flag is set
    behavior,       \* Soldier::behavior
    order,          \* Soldier::order; a squad stands for EngageSquad(squad)
    controlled,     \* soldiers whose `player_controlled` flag is set
    squadUuid,      \* Soldier::squad_uuid
    squads,         \* BattleState::squads, the map of SquadCompositions
    saved,          \* the soldiers of the save a player may load
    pending,        \* the messages of the tick not applied yet
    stage,          \* what the tick is doing
    events          \* how many bounded events have happened

soldierVars == <<alive, unconscious, behavior, order, controlled>>
squadVars   == <<squadUuid, squads>>
tickVars    == <<pending, stage, events>>
vars        == <<soldierVars, squadVars, saved, tickVars>>

-----------------------------------------------------------------------------
(* Messages of a tick (BattleStateMessage and SoldierMessage).  MakeIdle   *)
(* stands for an uninterrupted block of SetOrder and SetBehavior messages, *)
(* two for each of several soldiers.                                       *)

Order == Orders \cup Squad

SetOrder(s, o)        == [kind |-> "SetOrder", soldier |-> s, order |-> o]
SetBehavior(s, b)     == [kind |-> "SetBehavior", soldier |-> s, behavior |-> b]
SetUnconscious(s)     == [kind |-> "SetUnconscious", soldier |-> s]
SetNotAlive(s)        == [kind |-> "SetNotAlive", soldier |-> s]
MakeIdle(S)           == [kind |-> "MakeIdle", soldiers |-> S]
SetSquadLeader(q, s)  == [kind |-> "SetSquadLeader", squad |-> q, soldier |-> s]

Message ==
         [kind : {"SetOrder"}, soldier : Soldier, order : Order]
    \cup [kind : {"SetBehavior"}, soldier : Soldier, behavior : Behaviors]
    \cup [kind : {"SetUnconscious", "SetNotAlive"}, soldier : Soldier]
    \cup [kind : {"MakeIdle"}, soldiers : SUBSET Soldier]
    \cup [kind : {"SetSquadLeader"}, squad : Squad, soldier : Soldier]

(* soldier_die, soldier_blast_stunned, and an order to stay about together *)
(* with its behavior, as explosion_effects gives it for taking cover.      *)
Dying(s)    == <<SetBehavior(s, "Dead"), SetNotAlive(s)>>
Stunned(s)  == <<SetBehavior(s, "Unconscious"), SetUnconscious(s)>>
Hiding(s)   == <<SetOrder(s, "Local"), SetBehavior(s, "Acting")>>

-----------------------------------------------------------------------------
(* Soldiers and squads.                                                    *)

Present == DOMAIN squads
Leader(q)  == squads[q].leader
Members(q) == squads[q].members

(* can_be_leader and can_be_animated are the same condition.               *)
Able(s)  == s \in alive /\ s \notin unconscious /\ behavior[s] # "OffMapTransit"
OnMap(s) == s \in alive /\ behavior[s] # "OffMapTransit"

IsOperational(q) == \E m \in Members(q) : Able(m)
HeadlessByDeath ==                                           \* a mutant
    {q \in Present : IsOperational(q) /\ Leader(q) \notin alive}
Headless == {q \in Present : IsOperational(q) /\ ~Able(Leader(q))}

(* update_squads: the map rebuilt from the soldiers' own squad_uuid, led   *)
(* by the first soldier of each squad, alive or not.                       *)
Roll(uuids, q)  == {s \in Soldier : uuids[s] = q}
FirstOf(S)      == CHOOSE s \in S : \A c \in S : s <= c
UpdatedSquads(uuids) ==
    [q \in {uuids[s] : s \in Soldier} |->
        [leader |-> FirstOf(Roll(uuids, q)), members |-> Roll(uuids, q)]]

(* What a BattleStateCopy holds of the soldiers; it has no squads.         *)
Soldiers ==
    [alive |-> alive, unconscious |-> unconscious, behavior |-> behavior,
     order |-> order, controlled |-> controlled, squadUuid |-> squadUuid]

-----------------------------------------------------------------------------
(* The initial state: a deployment just injected (BattleState::inject),    *)
(* which the first save holds.                                             *)

Init ==
    /\ alive = Soldier
    /\ unconscious = {}
    /\ behavior = [s \in Soldier |-> "Acting"]
    /\ order = [s \in Soldier |-> "Local"]
    /\ controlled = {}
    /\ squadUuid = StartSquad
    /\ squads = UpdatedSquads(StartSquad)
    /\ saved = Soldiers
    /\ pending = <<>>
    /\ stage = "inputs"
    /\ events = 0

-----------------------------------------------------------------------------
(* Inputs of the clients, applied at once at the start of a tick.          *)

Event == events < MaxEvents /\ events' = events + 1

(* A player orders a squad: the GUI sends SetOrder and SetPlayerControlled *)
(* for each member, and takes the squad to engage from an opponent that    *)
(* can be a target.  The messages travel one by one: a tick may come when  *)
(* only some have arrived, the last without its second half.               *)
PlayerOrders(q, o) ==
    /\ stage = "inputs"
    /\ Event
    /\ o \in {"Local"} \cup
         {squadUuid[t] : t \in {x \in Soldier :
            Able(x) /\ SoldierSide[x] # SoldierSide[Leader(q)]}}
    /\ \E arrived \in SUBSET Members(q) : \E last \in arrived :
         /\ order' = [s \in Soldier |-> IF s \in arrived THEN o ELSE order[s]]
         /\ controlled' \in {controlled \cup arrived, controlled \cup (arrived \ {last})}
    /\ UNCHANGED <<alive, unconscious, behavior, squadVars, saved, pending, stage>>

(* A GUI saves its copy of the battle, made of what whole ticks sent it.   *)
MakeASave ==
    /\ stage = "inputs"
    /\ Event
    /\ saved' = Soldiers
    /\ UNCHANGED <<soldierVars, squadVars, pending, stage>>

LoadKeepingTheLiving ==                                      \* a mutant
    /\ stage = "inputs"
    /\ Event
    /\ unconscious' = saved.unconscious
    /\ behavior' = saved.behavior
    /\ order' = saved.order
    /\ controlled' = saved.controlled
    /\ squadUuid' = saved.squadUuid
    /\ squads' = UpdatedSquads(saved.squadUuid)
    /\ UNCHANGED <<alive, saved, pending, stage>>

(* The GUI sends back a save, perhaps an old one (SetBattleState): all the *)
(* soldiers are those of the save, the dead of since then alive again, and *)
(* the squads are computed from them (from_copy, resolve).                 *)
SetBattleState ==
    /\ stage = "inputs"
    /\ Event
    /\ alive' = saved.alive
    /\ unconscious' = saved.unconscious
    /\ behavior' = saved.behavior
    /\ order' = saved.order
    /\ controlled' = saved.controlled
    /\ squadUuid' = saved.squadUuid
    /\ squads' = UpdatedSquads(saved.squadUuid)
    /\ UNCHANGED <<saved, pending, stage>>

-----------------------------------------------------------------------------
(* The subsystems of a tick, in the order Runner::tick runs them.          *)

Produce(msgs) ==
    /\ Event
    /\ pending' = pending \o msgs
    /\ UNCHANGED <<soldierVars, squadVars, saved, stage>>

(* soldier_behavior: an able soldier no player controls takes the behavior *)
(* of its order, or hides.                                                 *)
Animated(s) == Able(s) /\ s \notin controlled

Animate(s) ==
    /\ stage = "soldiers"
    /\ Animated(s)
    /\ \/ Produce(Hiding(s))
       \/ Produce(<<SetBehavior(s, IF order[s] = "OffMapTransit"
                                     THEN "OffMapTransit" ELSE "Acting")>>)

(* propagate_engage_soldier: a leader with the disadvantage sneaks away,   *)
(* then leaves the map; otherwise its subordinates engage the squad of the *)
(* opponent it fights.                                                     *)
Withdraw(q) ==
    /\ stage = "soldiers"
    /\ Animated(Leader(q))
    /\ Produce(<<SetOrder(Leader(q), "Withdrawing")>>)

(* propagate_behavior: a subordinate gets the order that the behavior of   *)
(* the leader calls for.                                                   *)
Propagated(q) ==
    {"Local"}
    \cup {squadUuid[t] : t \in {x \in Soldier :
              Able(x) /\ SoldierSide[x] # SoldierSide[Leader(q)]}}
    \cup ({order[Leader(q)]} \cap {"OffMapTransit"})

Propagate(q, o) ==
    /\ stage = "soldiers"
    /\ Animated(Leader(q))
    /\ o \in Propagated(q)
    /\ \E m \in Members(q) \ {Leader(q)} : Produce(<<SetOrder(m, o)>>)

(* movement_updates at the last point, where the order's `then` takes      *)
(* over: no condition on the soldier but its behavior.                     *)
LeaveMap(s) ==
    /\ stage = "soldiers"
    /\ order[s] = "Withdrawing"
    /\ behavior[s] = "Acting"
    /\ Produce(<<SetBehavior(s, "OffMapTransit"), SetOrder(s, "OffMapTransit")>>)

(* off_map_update, once the return frame has come.                         *)
ReturnToMap(s) ==
    /\ stage = "soldiers"
    /\ behavior[s] = "OffMapTransit"
    /\ Produce(Hiding(s))

(* tick_update_squad_leaders, first loop: every squad somebody could lead  *)
(* but whose leader cannot gets a subordinate that can.                    *)
Elected == {pending[i].squad : i \in {j \in DOMAIN pending :
                                        pending[j].kind = "SetSquadLeader"}}

ElectAnybody(q, s) ==                                        \* a mutant
    /\ stage = "leaders"
    /\ q \in Headless \ Elected
    /\ s # Leader(q)
    /\ Able(s)
    /\ pending' = Append(pending, SetSquadLeader(q, s))
    /\ UNCHANGED <<soldierVars, squadVars, saved, stage, events>>

Elect(q, s) ==
    /\ stage = "leaders"
    /\ q \in Headless \ Elected
    /\ s \in Members(q) \ {Leader(q)}
    /\ Able(s)
    /\ pending' = Append(pending, SetSquadLeader(q, s))
    /\ UNCHANGED <<soldierVars, squadVars, saved, stage, events>>

(* tick_update_squad_leaders, second loop: an idle squad is called to the  *)
(* help of another of its side.  ALL its members, dead ones included, are  *)
(* made idle, then its leader is told to move.                             *)
CallSupport(q, r) ==
    /\ stage = "support"
    /\ q # r
    /\ {Leader(q), Leader(r)} \subseteq alive
    /\ SoldierSide[Leader(q)] = SoldierSide[Leader(r)]
    /\ order[Leader(q)] = "Local"
    /\ Produce(<<MakeIdle(Members(q)), SetOrder(Leader(q), "Local")>>)

(* update_orders_due_to_visibilities: the engaged squad is looked up, and  *)
(* the order dropped when nobody of it is visible.                         *)
LoseSight(q) ==
    /\ stage = "visibilities"
    /\ order[Leader(q)] \in Present
    /\ Produce(<<SetOrder(Leader(q), "Local")>>)

(* ... where BattleState::squad() panics if the engaged squad is no more.  *)
LookupFails ==
    /\ stage = "visibilities"
    /\ \E q \in Present : order[Leader(q)] \in Squad \ Present
    /\ stage' = "panicked"
    /\ UNCHANGED <<soldierVars, squadVars, saved, pending, events>>

(* bullet_fire_effects.                                                    *)
BulletHits(s) ==
    /\ stage = "bullets"
    /\ OnMap(s)
    /\ Produce(Dying(s))

(* explosion_effects: near the point, a conscious soldier takes cover,     *)
(* whatever else the explosion does to it.                                 *)
ExplosionReaches(s) ==
    /\ stage = "explosions"
    /\ OnMap(s)
    /\ \E cover \in IF s \in unconscious THEN {<<>>} ELSE {<<>>, Hiding(s)},
          effect \in {<<>>, Dying(s), Stunned(s)} :
         Produce(cover \o effect)

FollowingLeadersLate ==                                      \* a mutant
    [inputs |-> "soldiers", soldiers |-> "support", support |-> "visibilities",
     visibilities |-> "bullets", bullets |-> "leaders",
     leaders |-> "explosions", explosions |-> "react"]

Following ==
    [inputs |-> "soldiers", soldiers |-> "leaders", leaders |-> "support",
     support |-> "visibilities", visibilities |-> "bullets",
     bullets |-> "explosions", explosions |-> "react"]

NextStage ==
    /\ stage \in DOMAIN Following
    /\ stage = "leaders" => Headless \subseteq Elected
    /\ stage' = Following[stage]
    /\ UNCHANGED <<soldierVars, squadVars, saved, pending, events>>

-----------------------------------------------------------------------------
(* The end of a tick: Runner::react applies the messages one by one.       *)

React(kind) ==
    /\ stage = "react"
    /\ pending # <<>>
    /\ Head(pending).kind = kind
    /\ pending' = Tail(pending)
    /\ UNCHANGED <<controlled, saved, events>>

ReactSetOrder ==
    /\ React("SetOrder")
    /\ order' = [order EXCEPT ![Head(pending).soldier] = Head(pending).order]
    /\ UNCHANGED <<alive, unconscious, behavior, squadVars, stage>>

ReactSetBehavior ==
    /\ React("SetBehavior")
    /\ behavior' = [behavior EXCEPT ![Head(pending).soldier] = Head(pending).behavior]
    /\ UNCHANGED <<alive, unconscious, order, squadVars, stage>>

ReactMakeIdle ==
    /\ React("MakeIdle")
    /\ LET idle == Head(pending).soldiers IN
         /\ order' = [s \in Soldier |-> IF s \in idle THEN "Local" ELSE order[s]]
         /\ behavior' = [s \in Soldier |-> IF s \in idle THEN "Acting" ELSE behavior[s]]
    /\ UNCHANGED <<alive, unconscious, squadVars, stage>>

ReactSetUnconscious ==
    /\ React("SetUnconscious")
    /\ unconscious' = unconscious \cup {Head(pending).soldier}
    /\ UNCHANGED <<alive, behavior, order, squadVars, stage>>

(* The death is logged with the strength of the soldier's squad, which is  *)
(* looked up first.                                                        *)
ReactSetNotAlive ==
    /\ React("SetNotAlive")
    /\ IF squadUuid[Head(pending).soldier] \in Present
         THEN alive' = alive \ {Head(pending).soldier} /\ UNCHANGED stage
         ELSE stage' = "panicked" /\ UNCHANGED alive
    /\ UNCHANGED <<unconscious, behavior, order, squadVars>>

(* SetSquadLeader.  The living members are made idle; then, if any other   *)
(* squad has a living leader of their side, they all join one such squad,  *)
(* copying its leader's order and behavior, and their squad is removed;    *)
(* otherwise the elected soldier leads and its order is copied.            *)
ConsciousSurvivors(q) == (Members(q) \cap alive) \ unconscious   \* a mutant
Survivors(q) == Members(q) \cap alive
HostsOfAnySide(q) ==                                         \* a mutant
    {t \in Present \ {q} : Leader(t) \in alive}
Hosts(q) ==
    {t \in Present \ {q} :
        /\ Leader(t) \in alive
        /\ \E m \in Members(q) : SoldierSide[m] = SoldierSide[Leader(t)]}

FollowLeader(followers, l) ==
    /\ order' = [s \in Soldier |->
         IF s \notin followers THEN order[s]
         ELSE IF l \in followers THEN "Local" ELSE order[l]]
    /\ behavior' = [s \in Soldier |->
         IF s \notin followers THEN behavior[s]
         ELSE IF l \in followers THEN "Acting" ELSE behavior[l]]

MergeKeepingUuids(q, t) ==                                   \* a mutant
    /\ FollowLeader(Survivors(q), Leader(t))
    /\ squads' = [u \in Present \ {q} |->
         IF u = t THEN [squads[t] EXCEPT !.members = @ \cup Survivors(q)]
                  ELSE squads[u]]
    /\ UNCHANGED squadUuid

Merge(q, t) ==
    /\ FollowLeader(Survivors(q), Leader(t))
    /\ squadUuid' = [s \in Soldier |-> IF s \in Survivors(q) THEN t ELSE squadUuid[s]]
    /\ squads' = [u \in Present \ {q} |->
         IF u = t THEN [squads[t] EXCEPT !.members = @ \cup Survivors(q)]
                  ELSE squads[u]]

HandOver(q, s) ==
    /\ FollowLeader(Survivors(q), s)
    /\ squads' = [squads EXCEPT ![q].leader = s]
    /\ UNCHANGED squadUuid

ReactSetSquadLeader ==
    /\ React("SetSquadLeader")
    /\ LET q == Head(pending).squad
           s == Head(pending).soldier
       IN  \/ q \notin Present /\ UNCHANGED <<behavior, order, squadVars>>
           \/ q \in Present /\ \E t \in Hosts(q) : Merge(q, t)
           \/ q \in Present /\ Hosts(q) = {} /\ HandOver(q, s)
    /\ UNCHANGED <<alive, unconscious, stage>>

TickEnds ==
    /\ stage = "react"
    /\ pending = <<>>
    /\ stage' = "inputs"
    /\ UNCHANGED <<soldierVars, squadVars, saved, pending, events>>

(* A panic ends the server: nothing happens any more.                      *)
Stopped == stage = "panicked" /\ UNCHANGED vars

-----------------------------------------------------------------------------

SquadInput ==
    \/ MakeASave \/ SetBattleState
    \/ \E q \in Present, o \in Order : PlayerOrders(q, o)

Subsystem ==
    \/ \E s \in Soldier : Animate(s) \/ LeaveMap(s) \/ ReturnToMap(s)
                          \/ BulletHits(s) \/ ExplosionReaches(s)
    \/ \E q \in Present : Withdraw(q) \/ LoseSight(q)
    \/ \E q \in Present, o \in Order : Propagate(q, o)
    \/ \E q, r \in Present : CallSupport(q, r)
    \/ LookupFails

Election == \E q \in Present, s \in Soldier : Elect(q, s)

Reaction ==
    \/ ReactSetOrder \/ ReactSetBehavior \/ ReactMakeIdle
    \/ ReactSetUnconscious \/ ReactSetNotAlive \/ ReactSetSquadLeader

Next ==
    \/ SquadInput \/ Subsystem \/ Election \/ Reaction
    \/ NextStage \/ TickEnds \/ Stopped

(* The server thread runs tick after tick until it is told to stop.        *)
Fairness ==
    /\ WF_vars(NextStage) /\ WF_vars(Election)
    /\ WF_vars(Reaction) /\ WF_vars(TickEnds)

Spec == Init /\ [][Next]_vars

FairSpec == Spec /\ Fairness

-----------------------------------------------------------------------------
(* Properties.                                                             *)

Stages == {"inputs", "soldiers", "leaders", "support", "visibilities",
           "bullets", "explosions", "react", "panicked"}

TypeOK ==
    /\ alive \subseteq Soldier
    /\ unconscious \subseteq Soldier
    /\ behavior \in [Soldier -> Behaviors]
    /\ order \in [Soldier -> Order]
    /\ controlled \subseteq Soldier
    /\ squadUuid \in [Soldier -> Squad]
    /\ squads \in [Present -> [leader : Soldier, members : SUBSET Soldier]]
    /\ Present \subseteq Squad
    /\ pending \in Seq(Message)
    /\ stage \in Stages
    /\ events \in 0..MaxEvents
    /\ saved.alive \subseteq Soldier
    /\ saved.unconscious \subseteq Soldier
    /\ saved.behavior \in [Soldier -> Behaviors]
    /\ saved.order \in [Soldier -> Order]
    /\ saved.controlled \subseteq Soldier
    /\ saved.squadUuid \in [Soldier -> Squad]

(* Every living soldier is in the composition of the squad it names, and   *)
(* each member of a composition names that squad: the two records of who   *)
(* belongs where never disagree, so squad(soldier.squad_uuid()) of an      *)
(* animated soldier always finds one (soldier_is_squad_leader).            *)
MembershipAgrees ==
    /\ \A s \in alive : squadUuid[s] \in Present /\ s \in Members(squadUuid[s])
    /\ \A q \in Present : \A m \in Members(q) : squadUuid[m] = q

(* Merging and removing squads never leaves one with a leader of another:  *)
(* the leader is a member, so the squad also has one.                      *)
LeaderIsMember == \A q \in Present : Leader(q) \in Members(q)

(* A squad fights for one side, through any number of merges.              *)
OneSidePerSquad ==
    \A s, c \in Soldier :
        squadUuid[s] = squadUuid[c] => SoldierSide[s] = SoldierSide[c]

(* The squad a death is logged for exists, although squads of that same    *)
(* tick may have been merged away before: leaders are replaced before the  *)
(* bullets of the tick kill, so the dead follow their squad first.         *)
DeathLookupIsFound ==
    stage = "react" /\ pending # <<>> /\ Head(pending).kind = "SetNotAlive" =>
        squadUuid[Head(pending).soldier] \in Present

(* The inductive invariant: what the above rest on is the order of the     *)
(* messages of a tick.  A pending change of leader names a member of its   *)
(* squad; it never comes after a death; so a soldier that dies twice in a  *)
(* tick (a bullet, then an explosion) still finds its squad.               *)
Kind(i) == pending[i].kind

PendingElectionsNameMembers ==
    \A i \in DOMAIN pending :
        Kind(i) = "SetSquadLeader" /\ pending[i].squad \in Present =>
            pending[i].soldier \in Members(pending[i].squad)

LeadersBeforeDeaths ==
    /\ stage \in {"inputs", "soldiers", "leaders", "support", "visibilities"} =>
         \A i \in DOMAIN pending : Kind(i) # "SetNotAlive"
    /\ \A i, j \in DOMAIN pending :
         i < j /\ Kind(i) = "SetNotAlive" => Kind(j) # "SetSquadLeader"

PendingDeathsAreFound ==
    \A i \in DOMAIN pending :
        Kind(i) = "SetNotAlive" /\ pending[i].soldier \notin alive =>
            /\ squadUuid[pending[i].soldier] \in Present
            /\ \A j \in DOMAIN pending : Kind(j) # "SetSquadLeader"

InputsBetweenTicks == stage = "inputs" => pending = <<>>

SaveIsOneSided ==
    \A s, c \in Soldier :
        saved.squadUuid[s] = saved.squadUuid[c] => SoldierSide[s] = SoldierSide[c]

CommandInv ==
    /\ TypeOK /\ MembershipAgrees /\ LeaderIsMember /\ OneSidePerSquad
    /\ PendingElectionsNameMembers /\ LeadersBeforeDeaths
    /\ PendingDeathsAreFound /\ InputsBetweenTicks /\ SaveIsOneSided

(* Soldiers change squad all together, for one somebody living of their    *)
(* side belongs to, and only a load brings the dead back, with the squads  *)
(* they all had when the save was made: SquadCommand implements Roster.    *)
R == INSTANCE Roster WITH
       living <- alive,
       squadOf <- squadUuid,
       kept <- [living |-> saved.alive, squadOf |-> saved.squadUuid]
ImplementsRoster == R!Spec

AbleCommander(s) == squadUuid[s] \in Present /\ Able(Leader(squadUuid[s]))

(* However leaders fall, wake on the edge of the map or are merged, an     *)
(* able soldier of a running server is at last led by an able leader.      *)
EveryoneIsLed ==
    \A s \in Soldier :
        Able(s) ~> ~Able(s) \/ AbleCommander(s) \/ stage = "panicked"

(* Runner::side_effect, "missing death handling and zombies": once a tick  *)
(* is over, nothing has put a dead soldier back in action.                 *)
DeadStayDead == stage = "inputs" => \A s \in Soldier \ alive : behavior[s] = "Dead"

(* BattleState::squad(): "Game shared_state should never own inconsistent  *)
(* squad index".                                                           *)
NoInconsistentSquadIndex == stage # "panicked"

(* tick_update_squad_leaders: "on losing the qualification, a successor is *)
(* found and put in place at once, within 1 frame".  When the last change  *)
(* of leader of a tick is done, and before any hit of that tick, the able  *)
(* soldiers it was for have a leader that qualifies.                       *)
ReplacedWithinOneFrame ==
    [][ReactSetSquadLeader /\ (\A i \in DOMAIN pending' : pending'[i].kind # "SetSquadLeader")
         => \A s \in Soldier :
              squadUuid[s] = Head(pending).squad /\ Able(s)' => AbleCommander(s)']_vars

=============================================================================
