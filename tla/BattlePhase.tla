----------------------------- MODULE BattlePhase -----------------------------
(***************************************************************************)
(* From the placement of the troops to the end of the battle.              *)
(*                                                                         *)
(* A runner starts on an empty state.  A GUI deploys both sides, others    *)
(* join; each player asks for the battle to begin, and may abort it.  At   *)
(* every frame the runner looks whether both are ready; at the frames that *)
(* are multiples of three periods it recomputes who holds each flag, what  *)
(* is left of each side, and whether a side has won.  All the subsystems   *)
(* of a frame read the state from before the frame: a victory is decided   *)
(* on the morale and the flags of an earlier one.  The requests of the     *)
(* players reach the runner later than they are made.  A save can be       *)
(* loaded at any time; it keeps neither the morale nor who is ready or     *)
(* connected.                                                              *)
(*                                                                         *)
(* frame advances by 60 frames a step, the greatest common divisor of the  *)
(* three periods; TickBetween stands for the frames in between.            *)
(***************************************************************************)
EXTENDS Naturals

CONSTANTS
    Flag,           \* the flags of the map
    StartFlags,     \* who controls each flag (LoadControl)
    Zone,           \* the flags each side may place soldiers at
    Strength,       \* soldiers each side deploys
    EndMorale,      \* END_MORALE is 1 / EndMorale (in the code, one fifth)
    FlagsFreq, MoraleFreq, VictoryFreq, \* the periods, in units of 60 frames
    Cycle,          \* bound: a common multiple of the periods
    MaxLoads        \* bound: saves loaded

Side == {"A", "B"}

ASSUME PhaseAssumption ==
    /\ StartFlags \in [Flag -> SUBSET Side]
    /\ Zone \in [Side -> SUBSET Flag]
    /\ Strength \in [Side -> Nat]
    /\ {EndMorale, FlagsFreq, MoraleFreq, VictoryFreq, Cycle} \subseteq Nat \ {0}
    /\ \A f \in {FlagsFreq, MoraleFreq, VictoryFreq} : Cycle % f = 0
    /\ EndMorale > 1
    /\ MaxLoads \in Nat

VARIABLES
    phase,          \* BattleState::phase
    deployed,       \* whether soldiers and flags were loaded
    connected,      \* a_connected, b_connected: the sides for which it is set
    ready,          \* a_ready, b_ready
    flags,          \* BattleState::flags: the sides that hold each flag
    morale,         \* a_morale, b_morale: a fraction <<left, total>>
    frame,          \* frame_i, in units of 60 frames, modulo Cycle
    inside,         \* the sides with an able soldier inside each flag
    left,           \* the soldiers of each side neither dead nor unconscious
    clients,        \* the sides with a running GUI
    asked,          \* requests of the players on their way to the runner
    saved,          \* the last save, if any
    loads           \* how many saves were loaded

fieldVars == <<inside, left>>
guiVars   == <<clients, asked, saved, loads>>
vars == <<phase, deployed, connected, ready, flags, morale, frame, fieldVars, guiVars>>

-----------------------------------------------------------------------------

Placement == [name |-> "Placement"]
Battle    == [name |-> "Battle"]
End(victorious, reason) == [name |-> "End", victorious |-> victorious, reason |-> reason]
Ended     == phase.name = "End"

Opponent(s) == CHOOSE o \in Side : o # s

(* What the players ask for: the buttons Begin and End of the HUD.         *)
Begin(s)  == [kind |-> "begin", side |-> s]
EndBattle == [kind |-> "end"]

(* Morale(left / total), a division of floats: 0 / 0 is NaN, and NaN <= x  *)
(* is false.                                                               *)
Soldiers(s) == IF deployed THEN Strength[s] ELSE 0
Lost(m) == m[2] > 0 /\ EndMorale * m[1] <= m[2]

FullMorale == [s \in Side |-> <<1, 1>>]
NoSave == [loaded |-> FALSE]

(* BattleStateCopy: what a copy keeps of the state.                        *)
CopyOfDeployment ==                                          \* a mutant
    [loaded |-> TRUE, phase |-> phase, flags |-> flags, frame |-> frame,
     inside |-> inside, left |-> Strength]

Copy == [loaded |-> TRUE, phase |-> phase, flags |-> flags, frame |-> frame,
         inside |-> inside, left |-> left]

Init ==
    /\ phase = Placement
    /\ deployed = FALSE
    /\ connected = {} /\ ready = {}
    /\ flags = <<>>
    /\ morale = FullMorale
    /\ frame = 0
    /\ inside = [f \in Flag |-> {}]
    /\ left = [s \in Side |-> 0]
    /\ clients = {} /\ asked = {}
    /\ saved = NoSave
    /\ loads = 0

-----------------------------------------------------------------------------
(* The frames of the runner.                                               *)

Due(freq) == frame % freq = 0

BeginsInAnyPhase ==                                          \* a mutant
    \/ ready = Side
    \/ \E s \in ready : Opponent(s) \notin connected

(* tick_phase: a side need not wait for an opponent that is not connected. *)
Begins ==
    /\ phase = Placement
    /\ \/ ready = Side
       \/ \E s \in ready : Opponent(s) \notin connected

(* tick_victory, on the flags and the morale from before the frame, in the *)
(* order of the tests of the code, whatever the phase is.                  *)
HoldsAllFlags(s) == DOMAIN flags # {} /\ \A f \in DOMAIN flags : flags[f] = {s}

VictoryLooksAtAOnly ==                                       \* a mutant
    IF Lost(morale["A"]) THEN {End("B", "Morale")}
    ELSE {End(s, "Flags") : s \in {t \in Side : HoldsAllFlags(t)}}

VictoryByFlagsOfAOnly ==                                     \* a mutant
    IF Lost(morale["A"]) THEN {End("B", "Morale")}
    ELSE IF Lost(morale["B"]) THEN {End("A", "Morale")}
    ELSE {End(s, "Flags") : s \in {t \in {"A"} : HoldsAllFlags(t)}}

Victory ==
    IF Lost(morale["A"]) THEN {End("B", "Morale")}
    ELSE IF Lost(morale["B"]) THEN {End("A", "Morale")}
    ELSE {End(s, "Flags") : s \in {t \in Side : HoldsAllFlags(t)}}

(* tick_flags: a flag nobody stands in keeps its owner.                    *)
OwnershipOfEveryFlag ==                                      \* a mutant
    [f \in Flag |-> IF f \in DOMAIN flags /\ inside[f] = {} THEN flags[f] ELSE inside[f]]

Ownership ==
    [f \in DOMAIN flags |-> IF inside[f] = {} THEN flags[f] ELSE inside[f]]

(* The messages of a frame: that of tick_victory comes after that of       *)
(* tick_phase, and wins.                                                   *)
Tick ==
    /\ LET won == IF Due(VictoryFreq) THEN Victory ELSE {}
       IN phase' = IF won # {} THEN CHOOSE p \in won : TRUE
                   ELSE IF Begins THEN Battle ELSE phase
    /\ morale' = IF Due(MoraleFreq)
                 THEN [s \in Side |-> <<left[s], Soldiers(s)>>] ELSE morale
    /\ flags' = IF Due(FlagsFreq) THEN Ownership ELSE flags
    /\ frame' = (frame + 1) % Cycle
    /\ UNCHANGED <<deployed, connected, ready, fieldVars, guiVars>>

(* A frame that is a multiple of no period.                                *)
TickBetween ==
    /\ Begins
    /\ phase' = Battle
    /\ UNCHANGED <<deployed, connected, ready, flags, morale, frame, fieldVars, guiVars>>

-----------------------------------------------------------------------------
(* The soldiers: where they stand, and how many are left.                  *)

(* Soldiers of a side enter or leave a flag, moved by the player during    *)
(* the placement, under orders in any phase after it.                      *)
Move(s, f) ==
    /\ left[s] > 0
    /\ phase = Placement => f \in Zone[s]
    /\ inside' = [inside EXCEPT ![f] = (@ \ {s}) \cup ({s} \ @)]
    /\ UNCHANGED <<phase, deployed, connected, ready, flags, morale, frame, left, guiVars>>

(* A soldier dies or falls unconscious.  Nobody fires during the placement. *)
Casualty(s) ==
    /\ phase # Placement
    /\ left[s] > 0
    /\ left' = [left EXCEPT ![s] = @ - 1]
    /\ inside' = IF left[s] = 1 THEN [f \in Flag |-> inside[f] \ {s}] ELSE inside
    /\ UNCHANGED <<phase, deployed, connected, ready, flags, morale, frame, guiVars>>

-----------------------------------------------------------------------------
(* The GUIs, and Runner::inputs.                                           *)

(* A GUI started with --init-sync sends LoadDeployment, LoadControl and    *)
(* SetAConnected (or B) together.                                          *)
Deploy(s) ==
    /\ ~deployed /\ s \notin clients
    /\ deployed' = TRUE
    /\ clients' = clients \cup {s}
    /\ connected' = connected \cup {s}
    /\ left' = Strength
    /\ inside' \in {i \in [Flag -> SUBSET Side] :
                       \A f \in Flag : \A t \in i[f] : f \in Zone[t] /\ Strength[t] > 0}
    /\ flags' = StartFlags
    /\ UNCHANGED <<phase, ready, morale, frame, asked, saved, loads>>

(* Another GUI sends SetAConnected (or B) only.                            *)
Join(s) ==
    /\ s \notin clients
    /\ clients' = clients \cup {s}
    /\ connected' = connected \cup {s}
    /\ UNCHANGED <<phase, deployed, ready, flags, morale, frame, fieldVars, asked, saved, loads>>

(* The button of the HUD: Begin during the placement, once; End during the *)
(* battle.                                                                 *)
ClickBegin(s) ==
    /\ s \in clients /\ s \notin ready /\ phase = Placement
    /\ asked' = asked \cup {Begin(s)}
    /\ UNCHANGED <<phase, deployed, connected, ready, flags, morale, frame, fieldVars,
                   clients, saved, loads>>

ClickEnd ==
    /\ clients # {} /\ phase = Battle
    /\ asked' = asked \cup {EndBattle}
    /\ UNCHANGED <<phase, deployed, connected, ready, flags, morale, frame, fieldVars,
                   clients, saved, loads>>

(* BattleState::react, whatever the phase has become.                      *)
ServeBegin(s) ==
    /\ Begin(s) \in asked
    /\ asked' = asked \ {Begin(s)}
    /\ ready' = ready \cup {s}
    /\ UNCHANGED <<phase, deployed, connected, flags, morale, frame, fieldVars,
                   clients, saved, loads>>

ServeEnd ==
    /\ EndBattle \in asked
    /\ asked' = asked \ {EndBattle}
    /\ phase' = End("All", "Aborted")
    /\ UNCHANGED <<deployed, connected, ready, flags, morale, frame, fieldVars,
                   clients, saved, loads>>

(* A GUI saves a copy of its state, and later sends it back.  A bound: one *)
(* save, which may be made in any state.                                   *)
MakeASave ==
    /\ clients # {} /\ deployed /\ loads < MaxLoads /\ saved = NoSave
    /\ saved' = Copy
    /\ UNCHANGED <<phase, deployed, connected, ready, flags, morale, frame, fieldVars,
                   clients, asked, loads>>

LoadKeepingMorale ==                                         \* a mutant
    /\ saved # NoSave /\ loads < MaxLoads
    /\ loads' = loads + 1
    /\ phase' = saved.phase /\ flags' = saved.flags /\ frame' = saved.frame
    /\ inside' = saved.inside /\ left' = saved.left
    /\ connected' = {} /\ ready' = {}
    /\ UNCHANGED <<morale, deployed, clients, asked, saved>>

(* SetBattleState: BattleState::from_copy starts from a new state.  A save *)
(* that the bound lets nobody load again is forgotten.                     *)
Load ==
    /\ saved # NoSave /\ loads < MaxLoads
    /\ loads' = loads + 1
    /\ phase' = saved.phase /\ flags' = saved.flags /\ frame' = saved.frame
    /\ inside' = saved.inside /\ left' = saved.left
    /\ connected' = {} /\ ready' = {} /\ morale' = FullMorale
    /\ saved' = IF loads' < MaxLoads THEN saved ELSE NoSave
    /\ UNCHANGED <<deployed, clients, asked>>

-----------------------------------------------------------------------------

Field  == \E s \in Side : (\E f \in Flag : Move(s, f)) \/ Casualty(s)
Player == \/ \E s \in Side : Deploy(s) \/ Join(s) \/ ClickBegin(s) \/ ServeBegin(s)
          \/ ClickEnd \/ ServeEnd \/ MakeASave \/ Load

Next == Tick \/ TickBetween \/ Field \/ Player

Spec == Init /\ [][Next]_vars

(* Runner::run repeats its frames until it is told to stop.                *)
FairSpec == Spec /\ WF_vars(Tick)

-----------------------------------------------------------------------------

Phase == {Placement, Battle, End("All", "Aborted")}
             \cup {End(s, r) : s \in Side, r \in {"Morale", "Flags"}}

(* Every field of the state has its type; in particular there is a flag to *)
(* own only once the deployment has been loaded.                           *)
TypeOK ==
    /\ phase \in Phase
    /\ deployed \in BOOLEAN
    /\ connected \subseteq Side /\ ready \subseteq Side
    /\ flags \in [IF deployed THEN Flag ELSE {} -> SUBSET Side]
    /\ morale \in [Side -> Nat \X Nat]
    /\ frame \in 0..(Cycle - 1)
    /\ inside \in [Flag -> SUBSET Side]
    /\ left \in [Side -> Nat]
    /\ clients \subseteq Side
    /\ asked \subseteq {Begin(s) : s \in Side} \cup {EndBattle}
    /\ loads \in 0..MaxLoads

Broken(s) == Lost(<<left[s], Soldiers(s)>>)

(* A side declared beaten by its morale is beaten, though the morale the   *)
(* decision used was computed one period earlier: no load of a save and no *)
(* other event in between lets the fraction outlive its soldiers.          *)
MoraleVictoryIsTrue ==
    \A s \in Side : phase = End(Opponent(s), "Morale") => Broken(s)

(* The inductive invariant: a morale that has broken is the count of the   *)
(* soldiers deployed, of whom no more are left since; and a save of a      *)
(* battle won by morale also holds the broken side.                        *)
MoraleOutlivesNobody ==
    \A s \in Side :
        Lost(morale[s]) => deployed /\ morale[s][2] = Strength[s] /\ left[s] <= morale[s][1]

SaveIsSound ==
    saved # NoSave =>
        /\ deployed
        /\ saved.phase \in Phase
        /\ saved.flags \in [Flag -> SUBSET Side]
        /\ saved.frame \in 0..(Cycle - 1)
        /\ saved.inside \in [Flag -> SUBSET Side]
        /\ saved.left \in [Side -> Nat]
        /\ \A s \in Side :
             saved.phase = End(Opponent(s), "Morale") => Lost(<<saved.left[s], Strength[s]>>)

PhaseInv == TypeOK /\ MoraleVictoryIsTrue /\ MoraleOutlivesNobody /\ SaveIsSound

(* A battle that has ended is not fought again unless a save is loaded: no *)
(* late request to begin or to end, no connection reopens it.              *)
OnceOver == [][Ended => phase'.name = "End" \/ loads' # loads]_vars

(* doc/player/index.md:74: a side whose morale falls to END_MORALE         *)
(* loses, whatever was declared before: the other side wins by morale,     *)
(* unless it is beaten too or a save is loaded.                            *)
BrokenSideLoses ==
    \A s \in Side :
        Broken(s) ~> \/ phase = End(Opponent(s), "Morale")
                     \/ Broken(Opponent(s))
                     \/ ~Broken(s)

(* doc/player/index.md:75: a side that holds all the flags, and keeps      *)
(* them, wins by the flags unless a side is beaten by its morale.          *)
HeldFlagsWin ==
    \A s \in Side :
        HoldsAllFlags(s) ~> \/ phase = End(s, "Flags")
                            \/ ~HoldsAllFlags(s)
                            \/ \E t \in Side : Broken(t)

(* doc/player/index.md:9 of the placement: "This phase let you all time    *)
(* you need to place your troops".  No frame ends the battle before it was *)
(* begun; tick_victory does.                                               *)
PlacementLasts == [][phase = Placement => phase'.name # "End" \/ loads' # loads]_vars
=============================================================================
