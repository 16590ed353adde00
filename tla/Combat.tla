-------------------------------- MODULE Combat --------------------------------
(***************************************************************************)
(* What a soldier does with its weapon and its grenades.                   *)
(*                                                                         *)
(* The gesture of a soldier (reloading, aiming, firing, throwing) follows  *)
(* from its behavior, one gesture after the other, each with a frame it    *)
(* ends at.  Three handlers write it in the same tick: soldier_behavior    *)
(* (a throw, the reloading of a soldier supplied at its checkpoint),       *)
(* soldier_gesture (the next gesture of an engaged soldier) and            *)
(* update_soldier (the end of a throw).  All read the state the tick       *)
(* started with; their messages are then applied in this order, so that    *)
(* the last one wins, and the rounds and grenades they move are counted    *)
(* here to see what the others' messages still did.                        *)
(*                                                                         *)
(* One soldier is enough: no other one writes its gesture.  Its behavior   *)
(* is chosen freely (OrderExecution is about how it is), as is whom it     *)
(* sees; "Engage" is EngageSoldier or SuppressFire, "Move" is MoveTo or    *)
(* MoveFastTo, "Other" the behaviors without a gesture of their own.       *)
(* A tick is one step, since nothing reads the state between two messages. *)
(* A frame an action ends at is a flag that time raises.                   *)
(***************************************************************************)
EXTENDS Integers, Sequences, SequencesExt

CONSTANTS
    Rounds,         \* bullets of a full magazine
    Spares,         \* full magazines a soldier is supplied with
    Grenades,       \* grenades a soldier is supplied with
    Bursts,         \* longest shots of a machine gun, by opponents around
    MaxSupplies     \* bound: how often the checkpoint supplies

ASSUME SupplyAssumption ==
    /\ Rounds \in Nat \ {0} /\ Spares \in Nat /\ Grenades \in Nat
    /\ Bursts \subseteq Nat \ {0} /\ Bursts # {}
    /\ MaxSupplies \in Nat

VARIABLES
    man,        \* the soldier and what it carries, with its history
    sight,      \* what it would fire on can be seen
    ended,      \* the end frame of its gesture is reached
    cooling,    \* its last grenade: 2 = within 120 frames, 1 = within 180
    peeking,    \* it shot a while ago: under stress, or told to hold, it may
                \* still keep its head down
    supplies    \* how often it was supplied

vars == <<man, sight, ended, cooling, peeking, supplies>>

Kinds     == {"rifle", "machinegun"}
Behaviors == {"Idle", "Engage", "Move", "Other"}
Gestures  == {"Idle", "Reloading", "Aiming", "Firing", "Throwing"}

-----------------------------------------------------------------------------
(* The weapon.  A rifle has a round in the chamber or not, and both have   *)
(* a magazine or none: an empty one is thrown away, so 0 is none.          *)

CanFire(m)   == IF m.kind = "rifle" THEN m.ready ELSE m.magazine > 0
CanReload(m) == m.kind = "rifle" /\ m.magazine > 0
HasAmmo(m)   == CanFire(m) \/ CanReload(m) \/ m.stock > 0

Lesser(a, b) == IF a < b THEN a ELSE b

(* Weapon::reload: the next round of the magazine into the chamber.        *)
Chamber(m) ==
    IF m.kind = "rifle" /\ ~m.ready /\ m.magazine > 0
    THEN [m EXCEPT !.ready = TRUE, !.magazine = @ - 1]
    ELSE m

ReloadKeepingTheMagazine(m) ==                                     \* a mutant
    LET c == Chamber(m) IN
    IF c.magazine = 0 /\ c.stock > 0 THEN [c EXCEPT !.magazine = Rounds] ELSE c

(* Soldier::reload_weapon: then a new magazine, if there is none.  Nothing *)
(* of the new one goes into the chamber.                                   *)
ReloadWeapon(m) ==
    LET c == Chamber(m) IN
    IF c.magazine = 0 /\ c.stock > 0
    THEN [c EXCEPT !.magazine = Rounds, !.stock = @ - 1]
    ELSE c

(* Weapon::shot_type, a burst being no longer than the magazine.           *)
Shots(m) ==
    IF m.kind = "rifle" \/ m.magazine = 0 THEN {1}
    ELSE {Lesser(m.magazine, b) : b \in Bursts}

(* Soldier::weapon_shot, and the bullets that leave.                       *)
WeaponShot(m, n) ==
    LET shot == IF m.kind = "rifle" THEN [m EXCEPT !.ready = FALSE]
                ELSE [m EXCEPT !.magazine = IF @ > n THEN @ - n ELSE 0]
    IN  [shot EXCEPT !.fired = @ + n,
                     !.unloaded = @ + (IF CanFire(m) THEN 0 ELSE 1)]

(* Soldier::replenish_ammunition: the magazines and the grenades, not what *)
(* is in the weapon.                                                       *)
Replenish(m) ==
    [m EXCEPT !.issued = @ + Rounds * (Spares - m.stock), !.stock = Spares,
              !.grenades = Grenades]

-----------------------------------------------------------------------------
(* Messages to the soldier, and what each of them does.                    *)

SetGesture(g)  == [kind |-> "SetGesture", to |-> g]
SetBehavior(b) == [kind |-> "SetBehavior", to |-> b]
Shot(n)        == [kind |-> "WeaponShot", shots |-> n]
Message(k)     == [kind |-> k]

(* A reloading that leaves a weapon which cannot fire is counted.          *)
Gesture(m, g) ==
    [m EXCEPT !.gesture = g,
              !.blanks = @ + (IF g = "Reloading" /\ ~CanFire(m) THEN 1 ELSE 0)]

ConsumeOneMore(m) == [m EXCEPT !.grenades = @ - 1]                 \* a mutant

Consume(m) ==
    IF m.grenades = 0 THEN m
    ELSE [m EXCEPT !.grenades = @ - 1, !.spent = @ + 1]

React(m, msg) ==
    CASE msg.kind = "SetGesture"   -> Gesture(m, msg.to)
      [] msg.kind = "SetBehavior"  -> [m EXCEPT !.behavior = msg.to]
      [] msg.kind = "ReloadWeapon" -> ReloadWeapon(m)
      [] msg.kind = "WeaponShot"   -> WeaponShot(m, msg.shots)
      [] msg.kind = "ConsumeGrenade" -> Consume(m)
      [] msg.kind = "Replenish"    -> Replenish(m)
      [] msg.kind = "PushExplosion" -> [m EXCEPT !.exploded = @ + 1]
      [] msg.kind = "SetAlive"     -> [m EXCEPT !.alive = FALSE]
      [] OTHER -> m

Has(messages, k) == \E i \in DOMAIN messages : messages[i].kind = k

-----------------------------------------------------------------------------
(* soldier_behavior: the throws and the supply, and the new behavior.  It  *)
(* looks at the state of before, so it may decide two throws at once.      *)

Throw == <<SetGesture("Throwing"), Message("ConsumeGrenade")>>
Behave(b) == IF b = man.behavior THEN <<>> ELSE <<SetBehavior(b)>>

(* Under fire: a blind throw, and down.  Its cooldown is set when the      *)
(* grenade goes off.                                                       *)
Panic ==
    {Behave("Other")} \cup
    {Throw \o Behave("Other") : x \in
        {y \in {1} : man.grenades > 0 /\ cooling < 2}}

(* Before the door of a building, and on an enemy that stays down.         *)
Breach == IF man.grenades > 0
          THEN {<<>>, Throw \o <<Message("SetLastGrenade")>>} ELSE {<<>>}
Target == IF man.grenades > 0 /\ cooling = 0
          THEN {<<>>, Throw \o <<Message("SetLastGrenade")>>} ELSE {<<>>}

(* At the checkpoint of its squad, without ammunition: the reloading is    *)
(* shown, but the weapon is not reloaded.                                  *)
Supply ==
    IF HasAmmo(man) \/ supplies = MaxSupplies THEN {}
    ELSE {<<Message("Replenish"), SetGesture("Reloading")>> \o Behave("Idle")}

Decisions ==
    IF man.player THEN {<<>>}
    ELSE Panic \cup {b \o t \o d : b \in Breach, t \in Target,
                     d \in Supply \cup {Behave(x) : x \in Behaviors}}

-----------------------------------------------------------------------------
(* soldier_gesture.                                                        *)

Able == sight /\ HasAmmo(man)

AimWithoutLooking ==                                               \* a mutant
    IF man.gesture = "Idle" THEN "Aiming"
    ELSE IF ~ended THEN man.gesture
    ELSE CASE man.gesture = "Reloading" -> "Aiming"
           [] man.gesture = "Aiming"    -> "Firing"
           [] man.gesture = "Firing"    -> "Idle"

ReloadAgain ==                                                     \* a mutant
    IF man.gesture = "Idle"
    THEN (IF CanFire(man) THEN "Aiming" ELSE "Reloading")
    ELSE IF ~ended THEN man.gesture
    ELSE CASE man.gesture = "Reloading" -> "Idle"
           [] man.gesture = "Aiming" -> "Reloading"
           [] man.gesture = "Firing" -> "Idle"

(* engage_point_gesture: from one gesture to the next, when it ended.      *)
NextGesture ==
    IF man.gesture = "Idle"
    THEN (IF CanFire(man) THEN "Aiming" ELSE "Reloading")
    ELSE IF ~ended THEN man.gesture
    ELSE CASE man.gesture = "Reloading" -> "Aiming"
           [] man.gesture = "Aiming"    -> "Firing"
           [] man.gesture = "Firing"    -> "Idle"

(* Peek and shoot: the one who has just fired may stay down.               *)
Engaging == {NextGesture} \cup
            (IF peeking /\ man.gesture = "Idle" THEN {"Idle"} ELSE {})

NewGestures ==
    CASE man.behavior = "Engage" -> IF Able THEN Engaging ELSE {man.gesture}
      [] man.behavior = "Move"   -> {"Idle"} \cup (IF Able THEN Engaging ELSE {})
      [] OTHER -> {"Idle"}

(* new_gesture_messages: a reloading reloads when it begins, a shot goes   *)
(* when firing begins, and nothing is sent when the gesture stays.         *)
ToGesture(g) ==
    IF g = man.gesture THEN {<<>>}
    ELSE CASE g = "Reloading" -> {<<Message("ReloadWeapon"), SetGesture(g)>>}
           [] g = "Firing" -> {<<Shot(n), SetGesture(g)>> : n \in Shots(man)}
           [] OTHER -> {<<SetGesture(g)>>}

Gesturing == UNION {ToGesture(g) : g \in NewGestures}

(* An idle soldier that sees an opponent engages it.                       *)
Spotting ==
    IF man.behavior = "Idle" /\ Able THEN {<<SetBehavior("Engage")>>} ELSE {}

GestureMessages ==
    IF man.player \/ man.gesture = "Throwing" THEN {<<>>}
    ELSE Gesturing \cup Spotting

-----------------------------------------------------------------------------
Explosion == <<Message("PushExplosion"), SetGesture("Idle"),
               Message("SetLastGrenade")>>

ThrowOfTheLivingEnds ==                                            \* a mutant
    IF man.gesture = "Throwing" /\ ended /\ man.alive THEN Explosion ELSE <<>>

ThrowGoesOn ==                                                     \* a mutant
    IF man.gesture = "Throwing" /\ ended
    THEN <<Message("PushExplosion"), Message("SetLastGrenade")>> ELSE <<>>

(* update_soldier, every tick: the end of a throw, of the dead as well.    *)
ThrowEnds ==
    IF man.gesture = "Throwing" /\ ended THEN Explosion ELSE <<>>

Death == <<Message("SetAlive"), SetBehavior("Dead")>>

(* A tick: animation (every soldier_animate_freq frames), update, physics. *)
Apply(messages) ==
    /\ man' = FoldLeft(React, man, messages)
    /\ ended' = (ended /\ ~Has(messages, "SetGesture"))
    /\ cooling' = IF Has(messages, "SetLastGrenade") THEN 2 ELSE cooling
    /\ peeking' = (peeking \/ Has(messages, "WeaponShot"))
    /\ supplies' = supplies + (IF Has(messages, "Replenish") THEN 1 ELSE 0)
    /\ UNCHANGED sight

Animate ==
    /\ man.alive
    /\ \E d \in Decisions, g \in GestureMessages : Apply(d \o g \o ThrowEnds)

Update ==
    /\ ThrowEnds # <<>>
    /\ Apply(ThrowEnds)

AnimateAndDie ==
    /\ man.alive
    /\ \E d \in Decisions, g \in GestureMessages :
          Apply(d \o g \o ThrowEnds \o Death)

(* A player's order sets player_controlled on its soldiers, which nothing  *)
(* clears: the two handlers leave them alone from then on.                 *)
PlayerOrder ==
    /\ man.alive /\ ~man.player
    /\ man' = [man EXCEPT !.player = TRUE]
    /\ UNCHANGED <<sight, ended, cooling, peeking, supplies>>

(* What the others do with its behavior: the end of its walk, a blast.     *)
MovedOn ==
    /\ man.alive
    /\ \E b \in Behaviors \ {"Engage"} : man' = [man EXCEPT !.behavior = b]
    /\ UNCHANGED <<sight, ended, cooling, peeking, supplies>>

Sight ==
    /\ sight' = ~sight
    /\ UNCHANGED <<man, ended, cooling, peeking, supplies>>

GestureEnds ==
    /\ man.gesture # "Idle" /\ ~ended
    /\ ended' = TRUE
    /\ UNCHANGED <<man, sight, cooling, peeking, supplies>>

CoolsDown ==
    /\ cooling > 0
    /\ cooling' = cooling - 1
    /\ UNCHANGED <<man, sight, ended, peeking, supplies>>

LooksUp ==
    /\ peeking
    /\ peeking' = FALSE
    /\ UNCHANGED <<man, sight, ended, cooling, supplies>>

(* The weapons of deployments: full, with or without a round chambered.    *)
Init ==
    /\ \E k \in Kinds, r \in BOOLEAN, s \in 0..Spares, g \in 0..Grenades :
          /\ k = "machinegun" => ~r
          /\ man = [kind |-> k, alive |-> TRUE, player |-> FALSE,
                    behavior |-> "Idle", gesture |-> "Idle",
                    ready |-> r, magazine |-> Rounds, stock |-> s,
                    grenades |-> g,
                    issued |-> Rounds * (1 + s) + (IF r THEN 1 ELSE 0),
                    fired |-> 0, unloaded |-> 0, blanks |-> 0,
                    spent |-> 0, exploded |-> 0]
    /\ sight = FALSE /\ ended = FALSE /\ cooling = 0 /\ peeking = FALSE
    /\ supplies = 0

Next == Animate \/ Update \/ AnimateAndDie \/ PlayerOrder \/ MovedOn \/ Sight
        \/ GestureEnds \/ CoolsDown \/ LooksUp

Spec == Init /\ [][Next]_vars

(* Ticks go on, and frames pass: Runner::run runs one every 1/60 second,   *)
(* and the frame an action ends at is at most a few seconds ahead.         *)
FairSpec == Spec /\ WF_vars(Animate) /\ WF_vars(Update)
                 /\ WF_vars(GestureEnds) /\ WF_vars(LooksUp)

-----------------------------------------------------------------------------
(* TypeOK: the gesture, the weapon and the supplies of a soldier stay in   *)
(* their ranges, whichever messages of one tick come together.             *)
Man ==
    [kind : Kinds, alive : BOOLEAN, player : BOOLEAN,
     behavior : Behaviors \cup {"Dead"}, gesture : Gestures,
     ready : BOOLEAN, magazine : 0..Rounds, stock : 0..Spares,
     grenades : 0..Grenades,
     issued : Nat, fired : Nat, unloaded : Nat, blanks : Nat,
     spent : Nat, exploded : Nat]

TypeOK ==
    /\ man \in Man
    /\ sight \in BOOLEAN /\ ended \in BOOLEAN /\ peeking \in BOOLEAN
    /\ cooling \in 0..2 /\ supplies \in 0..MaxSupplies

(* RoundsAccounted: no bullet is lost or made up.  Every round handed out  *)
(* is still in the chamber, the magazine or the stock, or has been fired;  *)
(* the bullets of shots with nothing in the weapon are the only others.    *)
RoundsAccounted ==
    man.fired + (IF man.ready THEN 1 ELSE 0) + man.magazine + Rounds * man.stock
        = man.issued + man.unloaded

(* UnloadedShotsFollowReloading: a weapon with nothing to fire is fired    *)
(* only after a reloading that left it so (a magazine put into a rifle     *)
(* without chambering a round, a reloading that was only shown at the      *)
(* checkpoint), once for each such reloading.                              *)
UnloadedShotsFollowReloading == man.unloaded <= man.blanks

(* GrenadesAccounted: every explosion has cost a grenade: however throws,  *)
(* ends of throws and other gestures of a tick overlap, what went off and  *)
(* what is in the hand are no more than the grenades spent.                *)
GrenadesAccounted ==
    man.exploded + (IF man.gesture = "Throwing" THEN 1 ELSE 0) <= man.spent

(* Why UnloadedShotsFollowReloading holds: while a weapon with nothing to  *)
(* fire is reloaded or aimed, one reloading has not had its shot yet, and  *)
(* whatever interrupts it, it is aimed from a reloading only.              *)
ShotOwed ==
    man.gesture \in {"Reloading", "Aiming"} /\ ~CanFire(man)
        => man.unloaded < man.blanks

CombatInv ==
    /\ TypeOK
    /\ RoundsAccounted /\ UnloadedShotsFollowReloading /\ ShotOwed
    /\ GrenadesAccounted

(* EngagedFires: a soldier which stays engaged, sees its target and has    *)
(* ammunition fires again and again: no gesture is a trap, whatever else   *)
(* interrupted it.                                                         *)
EngagedFires ==
    []<>(\/ man.gesture = "Firing"
         \/ ~(man.alive /\ ~man.player /\ man.behavior = "Engage" /\ Able))

(* ThrowsEnd: a grenade does not stay in the hand, not even of the dead.   *)
ThrowsEnd == []<>(man.gesture # "Throwing")
=============================================================================
