# Formal model of the battle server and its clients

ClawCombat is a real-time tactical war game in Rust, a fork of Open Combat. A
*battle server* (`battle_server`) runs the battle frame by frame; one or more
*GUIs* (`battle_gui`) show it and give orders, one of them usually hosting the
server in its own process; both share the state, the messages and the network
code of `battle_core`. This directory holds TLA+ models of the parts of that
system where the order of events matters, TLC configurations that check them
on small battles, and TLAPS proofs about them for all battles.

Modules are named in `this type`; paths are relative to `src/`.

## Inventory

| Component | State | Operations | Hard part | What makes it correct |
|---|---|---|---|---|
| Squad command: `battle_core/src/state/battle`, `battle_server/src/runner/{soldier,react,visibility}.rs`, `runner/physics`, `runner/behavior` | `alive`, `unconscious`, `behavior`, `order`, `player_controlled`, `squad_uuid` of each soldier; the map `squads` | hits, stuns, election of leaders, merge, hand-over, support calls, orders and their propagation, leaving and re-entering the map, load of a save | a tick computes its messages on one state and applies them to others | soldiers and squads agree on membership; squads have able leaders; lookups find their squad; the dead stay dead |
| State replication: `battle_core/src/network`, `runner/{input,output}.rs`, `battle_gui/src/engine/{network,react,save}.rs`, `battle_gui/src/server` | a battle state on the server and on each GUI, channels, the counter of the envelopes, `sync_required` | tick, copy, change, load, publish, subscribe, receive, gap detection | lossy PUB/SUB stream beside a lossless REQ/REP one, two threads sharing a flag, late joiners | a loss is repaired; clients converge; nothing undone comes back |
| Phases and victory: `runner/{phase,victory,morale,flag}.rs`, `engine/hud.rs` | phase, readiness, connections, flags, morale | begin, abort, deploy, join, ownership, morale, victory, save and load | three periods, decisions on stale data, late requests | a victory is true; an ended battle is over; a broken side loses |
| Order execution: `runner/behavior`, `update.rs`, `movement.rs`, `order/`, `behavior/` | order, behavior and their paths, `player_controlled` | order to behavior, steps of a path, its end, propagation | two copies of a path advanced by messages computed earlier | a soldier walks what it was told; walks end; an order given is looked at; no path without points |
| Gestures and weapons: `runner/gesture`, `entity/soldier.rs`, `game/weapon.rs` | gesture with an end frame, chamber, magazines, grenades | throw, supply, aim, fire, reload | three handlers write the gesture in one tick | rounds and grenades add up; no gesture is a trap |
| Stress and support promises: `runner/soldier.rs`, `behavior/feeling.rs` | `under_fire`, end of the promise | increase, decrease, promise, arrival, expiry (no code ever makes a promise: the rest of it is never reached) | saturation | bounded stress |
| Companies and scouts: `runner/tick.rs`, `runner/behavior/mod.rs` | companies, scout and history of each | regrouping every 60 frames, a scout passing its turn | groups that change under their history, entries nobody removes | squads are shared out; each one scouts in its turn |
| Physical events: `runner/physics`, `battle_core/src/physics/event` | bullets, blasts, explosions with frames | push, effect, clean | life of an event against the frame counter | each event has its effect once |
| Visibility, maps, path finding, vehicles | geometry | computation | data, not control | numerical |
| Chat commands and language-model tactics: `runner/input.rs`, `llm_agent` | text, a remote service | parsing, requests | timeouts of a service; its answers are read by no one today | |
| Chat line: `engine/{ime,mod,gui}.rs` | the text, a Korean syllable being composed, the mode | keys, clicks on squads, suggestions | a consonant moves from one syllable to the next | no key lost or moved; backspace takes the last; names stay apart |
| Mouse and keyboard: `engine/{input,ui,state,order,utils,tick}.rs` | cursor, selection, menu, pending orders, paths on display, drag, UI events | click, drag, menu, order, drop | events handled a frame later, newest first, on a state that has moved on | an order goes where it was clicked; once the battle goes on only who was held then is placed |
| Battle log, GUI drawing and sound, debug panels, launcher, tools | | presentation and I/O | | |

They interact like this. A GUI sends `InputMessage`s to the server (a channel
on the host, REQ/REP elsewhere). At the start of a tick the runner applies
them; each subsystem then reads the battle state and returns messages; the
runner applies these one after the other (`Runner::react`) and sends them out,
as one group, to a channel on the host and through a PUB socket to the others.
Each GUI applies the same messages to its own battle state.

`PROJECT.json` lists the hazards this brings, each at its line.

## Plan

Done:

1. `SquadCommand` with the abstract `Roster`, proofs in `SquadCommandProofs`.
2. `StateSync`, proofs in `StateSyncProofs`.
3. `BattlePhase`, proofs in `BattlePhaseProofs`.
4. `OrderExecution`, proofs in `OrderExecutionProofs`.
5. `Combat`, proofs in `CombatProofs`.
6. `Companies`, proofs in `CompaniesProofs`.
7. `Hangul` and `ChatInput`, both with their proofs in `ChatInputProofs`.
8. `CommandPost`, proofs in `CommandPostProofs`.

Left, most important first:

9. Proofs: `KeystrokesAreKept` and `BackspaceTakesTheLast` of the whole text of
   `ChatInput`.
10. `PhysicalEvents` and `BattleLog`: the frames in which a bullet, a blast or an
   explosion has its effect, and the reports written about them. To be settled there:
   `tick_victory` has no guard on the phase, so `SetPhase(End)` is sent again at every
   period after the end and `react.rs` writes the final report again, with a new phase
   folder each time; a soldier hit by two events in one frame is counted dead twice;
   an explosion may give an order and a behavior (`Hide`) to whom a bullet killed in
   the same tick; a GUI removes explosions on display by their point. `UnderFire`,
   the counters of stress, belongs beside it.
11. Compositions: `Companies` with `SquadCommand` (a company that names a squad
    merged away, `runner/behavior/engage.rs:200`), `StateSync` with `BattlePhase`
    (the phase a GUI shows when it lets a player click).

Modules with proofs, or meant to have some, use no recursive operator, take
their parameters as CONSTANTS with named assumptions, and state their invariant
as a conjunction of named parts.

## SquadCommand

One step of the model is one message produced by a subsystem, one message
applied, or one input of a client. `stage` is the subsystem that `Runner::tick`
is running (`Following` is its order of calls), `pending` its vector of
messages. Subsystems read the variables and only append to `pending`; in the
stage `react` the head of `pending` is applied. So a subsystem reads the state
from before the tick, and a message meets the state the previous ones left:
the two facts every property below depends on.

* Soldiers. `behavior` keeps what `can_be_animated` and `can_be_leader` look at:
  `Acting` stands for all behaviors on the map, the others are the code's.
  `order` keeps `EngageSquad(q)` as the squad `q`, `Withdrawing` for a movement
  whose `then` is `OffMapTransit`, and `Local` for every other order.
* Inputs: `PlayerOrders` (the GUI sends each member an order and the
  `player_controlled` flag in separate messages, of which some may have arrived
  when the tick begins), `MakeASave` and `SetBattleState`: a load puts all soldiers
  back to those of a save, the dead of since then among them, and the squads are
  computed again from their `squad_uuid` (`UpdatedSquads`). A GUI makes its save of its
  own copy of the battle; it is taken here between two ticks, of a GUI that missed
  nothing. Saves of diverged GUIs, and those of another battle on the same map, are not
  modelled.
* Soldiers' turn: `Animate`, `Withdraw`, `Propagate`, `LeaveMap`, `ReturnToMap`.
  Which of the many orders and behaviors the code's tactics pick depends on
  positions, weapons and stress, which are not modelled; the model lets them
  pick any that their conditions on the modelled state allow.
* Leaders: `Elect` for each squad somebody could lead and whose leader cannot;
  the stage is left only when every such squad has its election, as in the loop
  of `tick_update_squad_leaders`. Then `CallSupport`.
* `LoseSight` and `LookupFails` are the two outcomes of the lookup in
  `update_orders_due_to_visibilities`; `BulletHits` and `ExplosionReaches` the
  physics.
* `ReactSetSquadLeader` has the whole handler: the members made idle, the merge
  into another squad of the side with a living leader (`HashMap` order: any), or
  the hand-over.
* A panic (`LookupFails`, `ReactSetNotAlive`) leads to the stage `panicked`, in
  which only `Stopped` remains.

`Roster` is what is promised to the soldiers: one side for ever, one death, and a
change of squad only with all living comrades, for a squad of the same side that
somebody living belongs to; only a load undoes that, and it undoes all of it since the
save (`Keep`, `Restore`). `ImplementsRoster` is the refinement.

Vehicles are left out: a soldier aboard is not reached by explosions. Debug
messages that set `alive` or `unconscious` by hand are left out too.

## StateSync

A battle state is the *set of updates it reflects*: an update stands for all the
messages of one tick, for one change made by a player, or for what the server alone
makes of a tick (`Own`): the side effect `SoldierFinishHisBehavior`, which a GUI
ignores, and the host of a merge, which each side takes in the order of its own
`HashMap`. A client gets the last kind only with a copy that somebody asked for. A
client follows the server when it has the messages of its ticks: nothing in the
protocol notices or repairs more. `server`, `outbox` and `pubCounter` are the runner
and the PUB thread; `link` holds the envelopes zmq queues for a client, or loses;
`handled` and `lastCounter` are the SUB thread, which hands the messages of an
envelope on (`Receive`) and only then compares its id (`Check`), so the engine may
run in between; `syncRequired` is the flag both threads write. The host has a
channel in place of all that. `Copy` drops what `BattleStateCopy` has no field for
(readiness). Save and load are `MakeASave`, `LoadFromSave`, `ServeLoad`.

zmq is external: `Subscribe` and the losses of `Publish` are modelled from its use (a
subscription arrives some time after `connect`, a subscriber's queue may drop an
envelope). Nothing makes a subscription arrive before the copy its client asked for is
published; when it does not, the client is deaf until an envelope happens to be lost
(`FirstCopyComes` is false, see below). `heard` is history: the clients that took in a copy or
noticed a loss, whom the protocol looks after. `SameStateThanServer` (after the comment at
`battle_gui/src/run.rs:178`) is false too: a change made by a player reaches the
server but no other client, a copy that crosses it removes it from the client
that made it, and what is the server's own comes only with a copy.

## BattlePhase

`Tick` is a frame that is a multiple of 60 (the greatest common divisor of the
periods of flags, 120, morale and victory, 300), `TickBetween` all others, which
can only begin the battle. All three subsystems read the state from before the
frame, so the victory uses the morale of an earlier one. `morale` is kept as the
fraction it is computed from; `Lost` is its comparison with `END_MORALE`, false
for 0/0 as for a NaN. `Field` lets able soldiers enter and leave flags and become
casualties; `Player` has the deployment, connections, clicks, and the requests
(`asked`) that reach the runner later, in any order; `MakeASave` and `Load`.

A `Copy` keeps neither morale nor readiness nor connections; `Load` resets them
as `from_copy` does. `PlacementLasts` (after `doc/player/index.md:9`) is stated and
false: victory by flags does not wait for the battle to begin.

## OrderExecution

Each soldier has an `order` and a `behavior`; both may hold a path, kept as the
number of points left. The stages of a tick are those of SquadCommand: soldiers are
animated one by one (`Animate`: the return at once of a `player_controlled` or dead
soldier, the code's decisions, the behavior made by `FromOrder`, what a leader
propagates), then `movement_updates` walks the path of the *behavior*
(`PointReached`, `EndOfPath`), leaders are elected, the leader of a squad that engages
one nobody sees any more is made idle (`LoseSight`), soldiers are shot (`Killed`), then
blasted (`Blasted`: everybody near takes cover, and may be killed or stunned as well),
messages are applied (`ReactReachStep` takes the point out of both paths) and last come
the side effects (`FinishBehavior`), with the `then` read when they were made.
`tick_flags` comes before all of them, in any phase (`FlagTaken`): those that suppress
the flag are made idle, and leaders that took it are told to go back.

Each block of `soldier_behavior` that sets an order is an operator (`Routine`,
`Panic`, `AtContact`, `FetchAmmunition`, `Flank`, `ReturnToCheckpoint`,
`SetOutForFlag`, `Indoors`, `StackUp`), each kind of propagation too (`ToldTo...`).
Which of them applies depends on positions and sight and is a free choice.
Orders of players arrive in two messages (`ReceiveOrder`, `ReceiveControl`), those of
the chat in one (`ChatOrder`).

`merged` is history: a squad has been merged into another, whose leader's order and
behavior its members copy in the middle of the messages of a tick. From then on the two
copies of a path may differ, so the invariants speak of the time before it.

## Combat

One soldier, `man`: its weapon (`ready` is a round in the chamber, `magazine`,
`stock`), its grenades and its gesture. A tick (`Animate`, then `Update`) computes
the throw or the supply (`Breach`, `Target`, `Supply`, `Panic`), the next gesture of
an engaged soldier (`NextGesture`) and the end of a throw (`ThrowEnds`) from one
state, and applies their messages in that order. `GestureEnds` raises the flag of an
end frame; it is time. `issued`, `fired`, `unloaded`, `blanks`, `spent` and
`exploded` are history.

Facts that came out, and that the properties are stated with: `reload_weapon`
chambers before it puts the magazine in, so that a rifle with an empty magazine
fires nothing once; a throw can be lost, or thrown twice for two grenades, when
handlers overlap; `reload_weapon` never ends if the last magazine does not fit
(magazines of the model all fit, as those of the code's deployments).

## Companies

`Regroup` is `tick_company_grouping`: chunks of `ChunkSize` squads, from north to
south (`line`), a name by position, a scout by the history of the company's `Anchor`
(its lowest uuid). `PassTurn` is the part of `idle_behavior` that gives up a turn. Nothing obliges a
scout to do so: `is_scout` is read from the first company in `HashMap` order that has
the squad, a leader that a player controls is not animated, and a scout already at its
checkpoint idles. So it has no fairness, and `EveryoneScouts` says what follows when
turns are passed in a squad's company again and again.
`March`, `Lose`, `Return` and `Flags` change the world, `MaxChanges` times. Companies
are only inserted in the code: `Leftover` are those the last grouping has not
written, with squads that others have by now. Four squads make two companies, since
the chunk is rounded up.

`NotTwiceRunning` has an exception that four squads do not show: a leftover company
with the same anchor shares the history and the clock of a new one, so its scouts can
pass the turns of all the others first; then a new round begins and the anchor, which
had just scouted, goes again.

## Hangul and ChatInput

`Hangul` is the automaton of `ime.rs`: a `Composition` of an initial, a vowel and a
final, `ProcessKey` the cases of a vowel and of a consonant, with the tables of
double vowels and finals as sets of triples of indexes. What is composed is compared
with an independent definition, `KeysOf`: the keys that spell a syllable, by
Unicode's decomposition. `ChatInput` is the line: the `text`, the mode, Shift, and
all that writes to them: `PressKorean`, `PressLatin`, `PressSign`, `PressSpace`,
`PressBack`, `PressEnter`, `PressTab`, `ToggleMode`, `Choose` (a suggestion) and
`ClickName` (a click on a squad appends its name, with spaces around it).

Three things of the code are exceptions named in the properties: a consonant typed
after a vowel alone is lost; a name clicked while a syllable is composed comes before
it; choosing a suggestion leaves the syllable for the next line.

## CommandPost

What a player does with the mouse becomes UI events and, a frame later, messages.
`MoveMouse`, `PressLeft`, `ReleaseLeft`, `ReleaseRight`, `PressEscape`, `ToggleChat`
are the handlers of winit's events, which change fields at once and push events.
`Made(e)` is what a UI event makes: each arm of `ui_events` is an operator. `Frames`
is the set of lists of messages that a frame may make, all on the state from before
it, the newest event first (`Answered`); `Tick` applies one of them, message by message
(`Applied`). `BeginBattle` and
`MergeSquad` are what the server tells in between. The chat swallows all mouse
events but the place of the cursor (`MoveUnderChat`).

A place is what is under the cursor, a point of the world. It changes with the mouse
(`MoveMouse`), and without a word to anybody when the scene scrolls or is zoomed under a
resting cursor (`SceneMoves`, in `Tick` and `Zoom`): the arrow keys, the border of the
window while an order is pending, the wheel. The path on display is not searched again
then, and an order given at that moment takes it: `unseen` remembers that such a thing
happened, and `OrdersGoWhereClicked` excepts it by name.

Where soldiers stand is not kept, so any squad may be under the cursor, and one that
only dead soldiers name. Then the GUI's lookups panic (`Looked`); the panic is a state
of the model and no property, since nothing says it cannot be. `unseen` and `held` are
history. Of the orders only the place they go to is kept: `Move` for those with a
path, `Aim` for the others.

## Runs

| Run | Checks | Bounds | Result |
|---|---|---|---|
| `command` | `MembershipAgrees`, `LeaderIsMember`, `OneSidePerSquad`, `DeathLookupIsFound`, the inductive `CommandInv`, refinement of `Roster`, `EveryoneIsLed` | squads of 2, 2 and 1; 3 events, saves and loads among them | holds |
| `engaged_squad_gone` | `NoInconsistentSquadIndex` (panic text, `state/battle/mod.rs:221`) | 2 events | violated |
| `repair` | types, `RepairUnderWay`, `NothingInvented` | host and remote, 2 ticks, the first 2 envelopes may be lost, subscriptions at any time, 1 load, 1 change | holds |
| `convergence` | `Converges` | remote client, 3 ticks, the first 2 envelopes may be lost, 1 load, 1 change | holds |
| `phases` | types, `MoraleVictoryIsTrue`, `PhaseInv`, `OnceOver`, `BrokenSideLoses`, `HeldFlagsWin` | 1 flag, 1 and 2 soldiers, 1 load, flags every other frame | holds |
| `orders` | types, `OnlyMergesPanic`, `WalksItsOrder` | 3 soldiers in 2 squads, paths of 2 points, an order, a flag taken or sight lost, and a hit | holds |
| `walks` | `EveryWalkEnds`, `OrdersAreTaken` | 2 soldiers, paths of 2 points, 2 events of different kinds | holds |
| `player_orders` | `PlayerOrdersAreExecuted` (`doc/player/index.md:26`) | 2 soldiers, one order | violated |
| `combat` | types, `RoundsAccounted`, `UnloadedShotsFollowReloading`, `GrenadesAccounted`, `EngagedFires`, `ThrowsEnd` | magazines of 2, a spare one, a grenade, one supply; rifle and machine gun | holds |
| `companies` | types, `InOneCompany`, `OnlyMembersHadTurns`, `NotTwiceRunning`, `EveryoneScouts` | 5 squads, 1 line, 2 changes | holds |
| `chat` | types, `NamesStandApart`, `KeystrokesAreKept`, `BackspaceTakesTheLast` | 3 consonants, 2 vowels, a sign, a name; 5 strokes | holds |
| `clicks` | `OrdersGoWhereClicked`, `LateDropsWereHeld` | 2 squads, 2 places, 2 UI events in a frame; scrolling and zoom at any time | holds |

Why these bounds. `MaxEvents` bounds what subsystems produce and clients send, not
the ticks nor the elections; two squads of two on one side are enough for two leaders
to fall in one tick, for the chain of merges that follows, and for a hand-over when
no other squad has a living leader; the third squad is the opponent that engages or
is engaged. `MaxTicks`, `LossyUntil` and `MaxLoads` let a loss come before, between
and after copies and loads. In BattlePhase one load is enough for a save of a won
battle to be loaded into a running one; `Strength` 1 and 2 with `EndMorale` = 2 give a
side broken with and without soldiers left; the safety properties are proved for all
periods, flags and strengths. In OrderExecution two points are the least for
a path that is neither new nor at its end; an order, news and a hit meet in every order
within a tick and across ticks, the least for a merge to leave a soldier on a path without
points; the third soldier is who is merged. Decisions are in `walks`, where each meets an
order, news and a hit: with them `orders` takes TLC too long, and its safety properties
are proved for any number of events of each kind. In Combat a
burst may be longer than what the magazine holds, and a supply may come before, during
and after each gesture. Five squads make three companies, one loss makes two of them and
a leftover one that shares its anchor with a new one; with four, no such company has
two others to send. The consonants of `chat` are one that doubles a
final, one that does not, and one that is never final; what five strokes cannot reach,
`KeysAreKept` covers. Two places of the cursor tell the place of an order from that of
the click, and two events in a frame are enough to be handled in the other order.

What the violations show: a squad merged away stays named by the orders of those that
engage it, and the server panics at the next look at them; an order of a player marks
its soldiers so that they are never animated again, and is not executed.

Properties the code does not have are kept as definitions, with the reason, where a
reader will look for them: `DeadStayDead` (after the comment at `runner/react.rs:404`)
and `ReplacedWithinOneFrame` (`runner/soldier.rs:156`) in SquadCommand,
`SameStateThanServer` and `FirstCopyComes` in StateSync (a client whose subscription
comes after the copy it asked for waits for one that nobody sends), `PlacementLasts` in
BattlePhase. `OnlyMergesPanic` without `merged` would be false as well: a merged
soldier copies a path whose last point has just been taken out
(`runner/movement.rs:46`).

Deadlock is checked in all runs. A model that is done (`Stopped`, `Finished`) steps in
place.

## Fairness

* SquadCommand: weak fairness of the stages, elections and message applications:
  `Runner::run` loops over `tick`, which is sequential code. No hit, order or other
  event is fair.
* StateSync: weak fairness of the runner, of each thread and of each frame of a
  started GUI, all endless loops, and of the arrival of a subscription. Players and
  new clients have none. `Converges` speaks of the time after the losses end
  (`LossyUntil`), as no protocol converges while everything may be lost; of
  finitely many ticks, after which the last envelope is not lost; and of clients that
  have `heard`.
* BattlePhase: weak fairness of `Tick` alone.
* OrderExecution: weak fairness of the stages of a tick. Strong fairness of three
  choices that each tick offers anew: that inputs sent are received (the channel is
  read in each tick), that a tick animates (the frame counter reaches a multiple of
  `soldier_animate_freq`), and that a walking soldier makes its step
  (`movement_updates` moves it in every tick). No order, decision, news or hit is fair.
* Combat: weak fairness of the two halves of a tick, of the end of a gesture (a frame
  that time reaches) and of a look (`LooksUp`).
* Companies: weak fairness of `Regroup`, which the frame counter calls, and of nothing
  else: whether a scout gives up its turn is a premise of the property (`TurnPassedFor`).
  Marches, losses and flags are bounded and not fair.
* ChatInput and CommandPost state no liveness: nothing obliges a player.

## Proofs

`tlapm` checks every theorem for all soldiers, squads, sides, deployments, flags,
strengths, paths, keys, clients, periods and bounds, from the named assumptions of
each module about its constants. Those that say something of the program:
`DeploymentAssumption` (each soldier has one squad, of one side), `PhaseAssumption`
(periods are positive and divide the cycle, `EndMorale` > 1), `SoldierAssumption` (a
leader is led by itself), `SupplyAssumption` (magazines and bursts are not empty),
`SquadAssumption` (the line has all the squads to begin with), and `KeysAssumption` (a
name begins with the only `@` in it). The others give constants their types.

*SquadCommand.* `CommandInvariant`: `CommandInv` is inductive. What one reads from
the code, that squads and soldiers agree, is not inductive alone. The lookup of a
death at `react.rs:311` is safe only because of the order of a tick's messages:
leaders are elected before bullets and explosions are computed, so by the time a
death is applied no merge is left to be applied (`LeadersBeforeDeaths`); and a
soldier killed twice in a tick finds its squad at the second death because nothing
merged in between (`PendingDeathsAreFound`). A merge keeps a pending candidate
inside the squad it is to lead (`PendingElectionsNameMembers`), which makes the
leader a member. Squads merge only with squads of the side of one of their members,
and have one side, so they keep one (`OneSidePerSquad`). The proof has a lemma for
producing messages, one for each message applied, and one for the merge and the
hand-over. `RosterImplemented` maps the merge to `Join`, the death to `Die`, save
and load to `Keep` and `Restore`, and every other step to a stutter.

*BattlePhase.* `PhaseInvariant`: a morale that has broken counts soldiers of whom no
more are left since (`MoraleOutlivesNobody`), because casualties only grow and a load
resets the morale; and a save of a battle won by morale contains the broken side
(`SaveIsSound`). `MoraleVictoryTrue` and `EndedForGood` follow.

*Hangul.* `KeysAreKept`: for every composition the automaton can hold and every key,
the keys that spell what is committed and what is composed afterwards are those that
spelled the composition before, followed by the new one; the lone vowel before a
consonant is the only exception. The tables are finite and the proof goes through
their entries: that joining two finals and splitting the result fit
(`JoinFacts`, `JoinAssociates`, `JoinMoved`), then one lemma per case of the automaton.
`BackspaceTakesKeys`: backspace takes a non-empty end of those keys.

*ChatInput.* `TypeCorrect`, and `NamesApart`: the name of a squad in the line is a word
of its own, with the invariant that whatever is appended comes after the space that
ends the last name.

*StateSync.* `SyncInvariant`: `SyncInv` is inductive, for any hosts, clients, orders and
bounds. What a client will come to (`Foreseen`) is computed from all that is under way
to it: inbox, envelopes, outbox. A message that moves from one of them to the next
leaves that list as it was, a lost one leaves a gap of ids ahead (`LossAhead`), and one
that is handed on changes the view by what it was foreseen to change. The engine's clearing of
`syncRequired` for a copy while the SUB thread raises it is harmless because the request
is sent by the same step that raises it (`CopyRequested`), and the answer to a request
is a copy made after it. `RepairNeverForgotten` (`RepairUnderWay`) makes
no assumption on when a subscription arrives: a client that has heard once has been
reached, so whatever it misses from then on shows in the ids (`UnreachedKnowNothing`);
only a client deaf since it started is excepted. What a client that does listen comes to
(`ListenersAreRepaired`), and `NothingIsInvented`, except nobody.

*OrderExecution.* `OrderInvariant`: `OrderInv` is inductive, for any squads, paths and
numbers of events. That what a soldier walks is what it was told holds neither between
the messages of a tick nor soldier by soldier: an order and the behavior made from it
are two messages, others may come in between, and both were computed on a state that
is gone. The invariant therefore looks ahead (`Foreseen`): what a soldier *will* be
when the messages under way have been applied is settled (`Settled`): it walks its
order point for point, or has an order it has not looked at, or is at the end of its
walk. Applying a message leaves what is foreseen as it was, so all the work is in the
steps that send messages, and there the order of a tick matters: in its turn, a
soldier's own messages come after all that others have told it (`InTurn`: only who
engages may have been made idle by a flag before, and it does not walk), it reaches
one point at most (`OneStepEach`), and after a death come only messages that set nobody
walking (`DeadLast`), which a dead soldier would do. What is sent for who is hit is a
list of this kind, whatever pieces it is made of (`HitList`, `HitsJoined`). Up to the first merge no path under way is
without points (`PathsHavePoints`, `MessagesFit`), from which `PanicsOnlyAfterMerges`
follows, and at the end of a tick nothing is foreseen but what is, which is
`WalksAsOrdered`.

*Combat.* `CombatInvariant`: a tick applies a list of messages with a fold; the lists
that `Decisions`, `GestureMessages` and `ThrowEnds` can make are taken apart into the
few that change the weapon or the throw, and each is followed through `React`. Two
strengthenings carry it. `ShotOwed`: while a weapon with nothing to fire is reloaded or
aimed, one of its reloadings has not been answered by an unloaded shot yet. And a
grenade in the hand is already spent (`GrenadesAccounted`), which survives a second
throw decided in the tick in which the first ends, since a `ConsumeGrenade` precedes
each `SetGesture` to `Throwing` that matters.

*Companies.* `CompaniesInvariant`: the line, as long as there are squads and with all
of them in it, has each of them once (`EveryoneInLine`, by counting), so the squads on
duty have the ranks 0, 1, ... (`Ahead`) and a chunk of a line is a range of ranks. From
this it follows for any number of squads that the chunks are disjoint, at most three and none longer
than a third rounded up, and that numbering them by their anchors uses each name once:
`CompaniesShareOut`. `MembersHadTurns` says that forgetting squads that left at each
grouping is enough, though a turn may be passed in a history at any time. `TurnsGoOn` is
the action property.

*CommandPost.* `PostInvariant`: `PostInv` is inductive, for any squads, places and number
of events in a frame. Both properties are about what a frame *may* make of the events
that wait, so the invariant is about those: a click knows the cursor's place unless
the cursor moved since the last frame (`EventsInPlace`); the paths on display, from
which an order takes its path, lead to the cursor unless a `Move` event that will clear
them waits, or the place under the cursor changed without one (`PathsToTheCursor`, `unseen`); and in a battle
only who was held when it began is dragged or waits to be dropped (`DraggedIsHeld`). A
message of a frame was made by one of its events; the proof finds that event through the
fold of the events (`Answered`), goes through the arms of `Made`, and follows the
messages through the fold of `Applied`: paths put on display lead to the cursor, which
no message moves. `OrdersGoThere` and `DropsWereHeld` follow from the invariant and the
arms that give orders and that drop. The only assumption (`CommandPostAssumption`) is
about the constants.

Only model-checked: all liveness (`EveryoneIsLed`, `Converges`, `BrokenSideLoses`,
`HeldFlagsWin`, `EveryWalkEnds`, `OrdersAreTaken`, `EngagedFires`, `ThrowsEnd`,
`EveryoneScouts`), which is out of reach of the prover; `KeystrokesAreKept` and
`BackspaceTakesTheLast` over the whole text, whose spelling joins sequences of different
lengths (`FlattenSeq`). The prover cannot apply the induction theorems of the
library. Where a proof needs an induction over messages (Combat, StateSync,
OrderExecution, CommandPost) it takes a least counterexample, which exists since `<` is
well founded on the naturals, and contradicts it.

## Not modelled

* Geometry and data: visibility, path finding, covers, maps, vehicles, the choice of
  a target, ballistics. Where a model needs their result it is a free choice.
* Stress, and the frames of physical events: in the plan; until then a hit may come
  in any tick, which is more than the frames allow. Nothing in the repository
  sends `PromiseSupport`, so the promises of `runner/soldier.rs` are never reached.
* Text commands and language-model tactics: parsing of text and a remote service;
  `process_async_tactic_responses` is called by nothing. What a text command does to
  its soldiers is `ChatOrder` of OrderExecution; the language model itself
  (`llm_agent`) is vendored code.
* The list of chat tasks (`gui.rs`): it releases a task before the order has come back
  from the server, and cancels one by squads that may be gone; it is drawing and text.
* The battle log, drawing, sound, debug panels (they set phases, lives and physics by
  hand), the launcher and the tools. `runner/support_network.rs` is not part of the
  build.
* A panic of a thread other than the runner, and the end of a process: nothing restarts
  them and nothing is kept but saves.

* Loads of saves in OrderExecution: they replace all soldiers between two ticks, when
  nothing is under way; SquadCommand, StateSync and BattlePhase have them.

These parts are most of the lines of the repository, which is why a map of control
covers a modest share of them.
