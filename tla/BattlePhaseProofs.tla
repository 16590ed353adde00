-------------------------- MODULE BattlePhaseProofs --------------------------
(***************************************************************************)
(* Proofs about the phases of a battle, for any map, any deployment and    *)
(* any periods: a side declared beaten by its morale is beaten, and an     *)
(* ended battle is not reopened.                                           *)
(***************************************************************************)
EXTENDS BattlePhase, TLAPS

(* Each side has the other one as opponent.                                *)
LEMMA Opponents == Opponent("A") = "B" /\ Opponent("B") = "A"
<1>1. \E o \in Side : o # "A" BY DEF Side
<1>2. \E o \in Side : o # "B" BY DEF Side
<1> QED BY <1>1, <1>2 DEF Opponent, Side

(* A morale that is broken remains so with fewer soldiers left.            *)
LEMMA LostWithFewer ==
    ASSUME NEW m \in Nat, NEW n \in Nat, NEW total \in Nat, n <= m,
           Lost(<<m, total>>)
    PROVE  Lost(<<n, total>>)
<1>1. EndMorale \in Nat BY PhaseAssumption
<1>2. EndMorale * n <= EndMorale * m BY <1>1
<1>3. EndMorale * m <= total BY DEF Lost
<1> QED BY <1>1, <1>2, <1>3 DEF Lost

(* A full morale is not broken.                                            *)
LEMMA FullIsNotLost == \A s \in Side : ~Lost(FullMorale[s])
BY PhaseAssumption DEF Lost, FullMorale

(* What tick_victory can declare is the end of the battle, and by the      *)
(* morale only against a side whose last computed morale is broken.        *)
LEMMA VictoryDeclares ==
    ASSUME NEW p \in Victory
    PROVE  /\ p \in Phase
           /\ p.name = "End"
           /\ \A s \in Side : p = End(Opponent(s), "Morale") => Lost(morale[s])
<1>1. CASE Lost(morale["A"])
  BY <1>1, Opponents DEF Victory, Phase, End, Side
<1>2. CASE ~Lost(morale["A"]) /\ Lost(morale["B"])
  BY <1>2, Opponents DEF Victory, Phase, End, Side
<1>3. CASE ~Lost(morale["A"]) /\ ~Lost(morale["B"])
  BY <1>3, Opponents DEF Victory, Phase, End, Side
<1> QED BY <1>1, <1>2, <1>3

(* What a frame can make of the phase.                                     *)
LEMMA TickPhase ==
    ASSUME Tick \/ TickBetween
    PROVE  \/ phase' \in Victory
           \/ phase = Placement /\ phase' = Battle
           \/ phase' = phase
<1>1. CASE TickBetween BY <1>1 DEF TickBetween, Begins
<1>2. CASE Tick
  <2> DEFINE won == IF Due(VictoryFreq) THEN Victory ELSE {}
  <2>1. phase' = IF won # {} THEN CHOOSE p \in won : TRUE
                 ELSE IF Begins THEN Battle ELSE phase
    BY <1>2 DEF Tick
  <2>2. CASE won # {}
    <3>1. phase' \in won BY <2>1, <2>2
    <3> QED BY <3>1
  <2>3. CASE won = {} BY <2>1, <2>3 DEF Begins
  <2> QED BY <2>2, <2>3
<1> QED BY <1>1, <1>2

-----------------------------------------------------------------------------

(* The initial state satisfies the invariant.                              *)
LEMMA PhaseInitInv == Init => PhaseInv
<1> SUFFICES ASSUME Init PROVE PhaseInv OBVIOUS
<1> USE DEF Init
<1>1. TypeOK
  <2>1. 0 \in 0..(Cycle - 1) BY PhaseAssumption
  <2>2. 0 \in 0..MaxLoads BY PhaseAssumption
  <2>3. flags \in [{} -> SUBSET Side] OBVIOUS
  <2>4. morale \in [Side -> Nat \X Nat] BY DEF FullMorale
  <2>5. flags \in [IF deployed THEN Flag ELSE {} -> SUBSET Side] BY <2>3
  <2>6. phase \in Phase BY DEF Phase
  <2> QED BY <2>1, <2>2, <2>4, <2>5, <2>6 DEF TypeOK
<1>2. MoraleVictoryIsTrue BY DEF MoraleVictoryIsTrue, Placement, End
<1>3. MoraleOutlivesNobody BY FullIsNotLost DEF MoraleOutlivesNobody
<1>4. SaveIsSound BY DEF SaveIsSound
<1> QED BY <1>1, <1>2, <1>3, <1>4 DEF PhaseInv

(* A frame keeps the invariant.                                            *)
LEMMA TickInv == PhaseInv /\ (Tick \/ TickBetween) => PhaseInv'
<1> SUFFICES ASSUME PhaseInv, Tick \/ TickBetween PROVE PhaseInv' OBVIOUS
<1> USE DEF PhaseInv
<1>1. /\ UNCHANGED <<deployed, connected, ready, inside, left, clients, asked, saved, loads>>
      /\ morale' \in {morale, [s \in Side |-> <<left[s], Soldiers(s)>>]}
      /\ flags' \in {flags, Ownership}
      /\ frame' \in {frame, (frame + 1) % Cycle}
  BY DEF Tick, TickBetween, fieldVars, guiVars
<1>2. phase' \in Phase
  BY TickPhase, VictoryDeclares DEF TypeOK, Phase
<1>3. \A s \in Side : Soldiers(s) \in Nat
  BY PhaseAssumption DEF Soldiers
<1>4. TypeOK'
  <2>1. morale' \in [Side -> Nat \X Nat] BY <1>1, <1>3 DEF TypeOK
  <2>2. Ownership \in [DOMAIN flags -> SUBSET Side]
    <3>1. \A f \in DOMAIN flags : f \in Flag BY DEF TypeOK
    <3> QED BY <3>1 DEF TypeOK, Ownership
  <2>3. flags' \in [IF deployed THEN Flag ELSE {} -> SUBSET Side]
    BY <1>1, <2>2 DEF TypeOK
  <2>4. frame' \in 0..(Cycle - 1)
    BY <1>1, PhaseAssumption DEF TypeOK
  <2> QED BY <1>1, <1>2, <2>1, <2>3, <2>4 DEF TypeOK
<1>5. MoraleOutlivesNobody'
  <2> SUFFICES ASSUME NEW s \in Side, Lost(morale[s])'
               PROVE  deployed /\ morale'[s][2] = Strength[s] /\ left[s] <= morale'[s][1]
    BY <1>1 DEF MoraleOutlivesNobody
  <2>1. CASE morale' = morale BY <2>1 DEF MoraleOutlivesNobody
  <2>2. CASE morale' = [t \in Side |-> <<left[t], Soldiers(t)>>]
    <3>1. morale'[s] = <<left[s], Soldiers(s)>> BY <2>2
    <3>2. Soldiers(s) > 0 BY <3>1 DEF Lost
    <3>3. left[s] \in Nat BY DEF TypeOK
    <3> QED BY <3>1, <3>2, <3>3 DEF Soldiers
  <2> QED BY <1>1, <2>1, <2>2
<1>6. ASSUME NEW s \in Side PROVE Broken(s)' <=> Broken(s)
  BY <1>1 DEF Broken, Soldiers
<1>7. ASSUME NEW s \in Side, Lost(morale[s]) PROVE Broken(s)
  <2>1. /\ deployed /\ morale[s][2] = Strength[s] /\ left[s] <= morale[s][1]
        /\ morale[s] = <<morale[s][1], morale[s][2]>>
        /\ left[s] \in Nat /\ morale[s][1] \in Nat /\ morale[s][2] \in Nat
    BY <1>7 DEF MoraleOutlivesNobody, TypeOK
  <2>2. Lost(<<left[s], morale[s][2]>>) BY <1>7, <2>1, LostWithFewer
  <2> QED BY <2>1, <2>2 DEF Broken, Soldiers
<1>8. MoraleVictoryIsTrue'
  <2> SUFFICES ASSUME NEW s \in Side, phase' = End(Opponent(s), "Morale") PROVE Broken(s)
    BY <1>6 DEF MoraleVictoryIsTrue
  <2>1. CASE phase' \in Victory BY <1>7, <2>1, VictoryDeclares
  <2>2. CASE phase' = Battle BY <2>2 DEF Battle, End
  <2>3. CASE phase' = phase BY <2>3 DEF MoraleVictoryIsTrue
  <2> QED BY <2>1, <2>2, <2>3, TickPhase
<1>9. SaveIsSound' BY <1>1 DEF SaveIsSound
<1> QED BY <1>4, <1>5, <1>8, <1>9

(* So do the moves and the losses of the soldiers: a broken side stays so. *)
LEMMA FieldInv == PhaseInv /\ Field => PhaseInv'
<1> SUFFICES ASSUME PhaseInv, NEW s \in Side,
                    (\E f \in Flag : Move(s, f)) \/ Casualty(s)
             PROVE  PhaseInv'
  BY DEF Field
<1> USE DEF PhaseInv
<1>1. /\ UNCHANGED <<phase, deployed, connected, ready, flags, morale, frame,
                     clients, asked, saved, loads>>
      /\ \/ left' = left
         \/ left[s] > 0 /\ left' = [left EXCEPT ![s] = @ - 1]
  BY DEF Move, Casualty, guiVars
<1>2. inside' \in [Flag -> SUBSET Side] BY DEF Move, Casualty, TypeOK
<1>3. left' \in [Side -> Nat] /\ \A t \in Side : left'[t] <= left[t]
  BY <1>1 DEF TypeOK
<1>4. TypeOK' BY <1>1, <1>2, <1>3 DEF TypeOK
<1>5. MoraleOutlivesNobody'
  <2> SUFFICES ASSUME NEW t \in Side, Lost(morale[t])
               PROVE  deployed /\ morale[t][2] = Strength[t] /\ left'[t] <= morale[t][1]
    BY <1>1 DEF MoraleOutlivesNobody
  <2>1. left'[t] <= left[t] /\ left[t] <= morale[t][1]
    BY <1>3 DEF MoraleOutlivesNobody
  <2>2. left'[t] \in Nat /\ left[t] \in Nat /\ morale[t][1] \in Nat
    BY <1>3 DEF TypeOK
  <2> QED BY <2>1, <2>2 DEF MoraleOutlivesNobody
<1>6. MoraleVictoryIsTrue'
  <2> SUFFICES ASSUME NEW t \in Side, phase = End(Opponent(t), "Morale")
               PROVE  Lost(<<left'[t], Soldiers(t)>>)
    BY <1>1 DEF MoraleVictoryIsTrue, Broken, Soldiers
  <2>1. Lost(<<left[t], Soldiers(t)>>) BY DEF MoraleVictoryIsTrue, Broken
  <2>2. left'[t] \in Nat /\ left[t] \in Nat /\ left'[t] <= left[t] /\ Soldiers(t) \in Nat
    BY <1>3, PhaseAssumption DEF TypeOK, Soldiers
  <2> QED BY <2>1, <2>2, LostWithFewer
<1>7. SaveIsSound' BY <1>1 DEF SaveIsSound
<1> QED BY <1>4, <1>5, <1>6, <1>7

-----------------------------------------------------------------------------

(* A deployment comes before any morale is broken, and no side has been    *)
(* declared beaten by it yet.                                              *)
LEMMA DeployInv ==
    ASSUME PhaseInv, NEW s \in Side, Deploy(s)
    PROVE  PhaseInv'
<1> USE DEF PhaseInv
<1>1. /\ ~deployed /\ deployed' = TRUE
      /\ left' = Strength /\ flags' = StartFlags
      /\ UNCHANGED <<phase, ready, morale, frame, asked, saved, loads>>
      /\ clients' = clients \cup {s} /\ connected' = connected \cup {s}
      /\ inside' \in [Flag -> SUBSET Side]
  BY DEF Deploy
<1>2. TypeOK' BY <1>1, PhaseAssumption DEF TypeOK
<1>3. MoraleOutlivesNobody' BY <1>1 DEF MoraleOutlivesNobody
<1>4. \A t \in Side : ~Broken(t) BY <1>1 DEF Broken, Soldiers, Lost
<1>5. MoraleVictoryIsTrue' BY <1>1, <1>4 DEF MoraleVictoryIsTrue
<1>6. SaveIsSound' BY <1>1 DEF SaveIsSound
<1> QED BY <1>2, <1>3, <1>5, <1>6

(* A save holds what the invariant says of the state it copies.            *)
LEMMA MakeASaveInv == PhaseInv /\ MakeASave => PhaseInv'
<1> SUFFICES ASSUME PhaseInv, MakeASave PROVE PhaseInv' OBVIOUS
<1> USE DEF PhaseInv
<1>1. /\ deployed /\ saved' = Copy
      /\ UNCHANGED <<phase, deployed, connected, ready, flags, morale, frame,
                     inside, left, clients, asked, loads>>
  BY DEF MakeASave, fieldVars
<1>2. TypeOK' BY <1>1 DEF TypeOK
<1>3. MoraleOutlivesNobody' BY <1>1 DEF MoraleOutlivesNobody
<1>4. MoraleVictoryIsTrue' BY <1>1 DEF MoraleVictoryIsTrue, Broken, Soldiers
<1>5. SaveIsSound'
  <2>1. \A s \in Side : phase = End(Opponent(s), "Morale") => Lost(<<left[s], Strength[s]>>)
    BY <1>1 DEF MoraleVictoryIsTrue, Broken, Soldiers
  <2>2. /\ saved'.phase = phase /\ saved'.flags = flags /\ saved'.frame = frame
        /\ saved'.inside = inside /\ saved'.left = left
    BY <1>1 DEF Copy
  <2>3. flags \in [Flag -> SUBSET Side] BY <1>1 DEF TypeOK
  <2> QED BY <1>1, <2>1, <2>2, <2>3 DEF SaveIsSound, TypeOK
<1> QED BY <1>2, <1>3, <1>4, <1>5

(* A loaded save brings its soldiers back together with a full morale.     *)
LEMMA LoadInv == PhaseInv /\ Load => PhaseInv'
<1> SUFFICES ASSUME PhaseInv, Load PROVE PhaseInv' OBVIOUS
<1> USE DEF PhaseInv
<1>1. /\ saved # NoSave /\ loads < MaxLoads /\ loads' = loads + 1
      /\ phase' = saved.phase /\ flags' = saved.flags /\ frame' = saved.frame
      /\ inside' = saved.inside /\ left' = saved.left
      /\ connected' = {} /\ ready' = {} /\ morale' = FullMorale
      /\ saved' \in {saved, NoSave}
      /\ UNCHANGED <<deployed, clients, asked>>
  BY DEF Load
<1>2. deployed BY <1>1 DEF SaveIsSound
<1>3. TypeOK'
  <2>1. morale' \in [Side -> Nat \X Nat] BY <1>1 DEF FullMorale
  <2>2. loads' \in 0..MaxLoads BY <1>1, PhaseAssumption DEF TypeOK
  <2> QED BY <1>1, <1>2, <2>1, <2>2 DEF TypeOK, SaveIsSound
<1>4. MoraleOutlivesNobody' BY <1>1, FullIsNotLost DEF MoraleOutlivesNobody
<1>5. MoraleVictoryIsTrue'
  BY <1>1, <1>2 DEF MoraleVictoryIsTrue, SaveIsSound, Broken, Soldiers
<1>6. SaveIsSound' BY <1>1 DEF SaveIsSound
<1> QED BY <1>3, <1>4, <1>5, <1>6

(* The other inputs change neither the soldiers nor what was computed.     *)
LEMMA InputInv ==
    ASSUME PhaseInv, NEW s \in Side,
           Join(s) \/ ClickBegin(s) \/ ServeBegin(s) \/ ClickEnd \/ ServeEnd
    PROVE  PhaseInv'
<1> USE DEF PhaseInv
<1>1. /\ UNCHANGED <<deployed, flags, morale, frame, inside, left, saved, loads>>
      /\ phase' \in {phase, End("All", "Aborted")}
      /\ connected' \subseteq Side /\ ready' \subseteq Side /\ clients' \subseteq Side
      /\ asked' \subseteq {Begin(t) : t \in Side} \cup {EndBattle}
  BY DEF Join, ClickBegin, ServeBegin, ClickEnd, ServeEnd, fieldVars, TypeOK
<1>2. TypeOK' BY <1>1 DEF TypeOK, Phase
<1>3. MoraleOutlivesNobody' BY <1>1 DEF MoraleOutlivesNobody
<1>4. MoraleVictoryIsTrue'
  BY <1>1 DEF MoraleVictoryIsTrue, Broken, Soldiers, End
<1>5. SaveIsSound' BY <1>1 DEF SaveIsSound
<1> QED BY <1>2, <1>3, <1>4, <1>5

-----------------------------------------------------------------------------

(* Every step keeps the invariant.                                         *)
LEMMA PhaseStepInv == PhaseInv /\ [Next]_vars => PhaseInv'
<1> SUFFICES ASSUME PhaseInv, [Next]_vars PROVE PhaseInv' OBVIOUS
<1>1. CASE Tick \/ TickBetween BY <1>1, TickInv
<1>2. CASE Field BY <1>2, FieldInv
<1>3. CASE Player
  <2>1. CASE \E s \in Side : Deploy(s) BY <2>1, DeployInv
  <2>2. CASE MakeASave BY <2>2, MakeASaveInv
  <2>3. CASE Load BY <2>3, LoadInv
  <2>4. CASE \E s \in Side : Join(s) \/ ClickBegin(s) \/ ServeBegin(s) BY <2>4, InputInv
  <2>5. CASE ClickEnd \/ ServeEnd
    <3>1. "A" \in Side BY DEF Side
    <3> QED BY <2>5, <3>1, InputInv
  <2> QED BY <1>3, <2>1, <2>2, <2>3, <2>4, <2>5 DEF Player
<1>4. CASE UNCHANGED vars
  BY <1>4 DEF vars, fieldVars, guiVars, PhaseInv, TypeOK, MoraleVictoryIsTrue,
              MoraleOutlivesNobody, SaveIsSound, Broken, Soldiers
<1> QED BY <1>1, <1>2, <1>3, <1>4 DEF Next

(* For any map, deployment and periods, the inductive invariant holds in   *)
(* every state of a battle: a broken morale always counts soldiers who     *)
(* have not come back since.                                               *)
THEOREM PhaseInvariant == Spec => []PhaseInv
BY PhaseInitInv, PhaseStepInv, PTL DEF Spec

(* Every field of the battle's progress keeps its type.                    *)
THEOREM PhaseTypeCorrect == Spec => []TypeOK
<1>1. PhaseInv => TypeOK BY DEF PhaseInv
<1> QED BY <1>1, PhaseInvariant, PTL

(* A side declared beaten by its morale is beaten (tick_victory decides on *)
(* the morale of an earlier frame, SetBattleState replaces the soldiers).  *)
THEOREM MoraleVictoryTrue == Spec => []MoraleVictoryIsTrue
<1>1. PhaseInv => MoraleVictoryIsTrue BY DEF PhaseInv
<1> QED BY <1>1, PhaseInvariant, PTL

(* An ended battle is not fought again unless a save is loaded, whatever   *)
(* requests were still on their way (tick_phase, BattleState::react).      *)
THEOREM EndedForGood == Spec => OnceOver
<1>1. PhaseInv /\ [Next]_vars
        => [Ended => phase'.name = "End" \/ loads' # loads]_vars
  <2> SUFFICES ASSUME PhaseInv, Next, Ended, loads' = loads
               PROVE  phase'.name = "End"
    OBVIOUS
  <2>1. CASE Tick \/ TickBetween
    BY <2>1, TickPhase, VictoryDeclares DEF Ended, Placement
  <2>2. CASE Field BY <2>2 DEF Field, Move, Casualty, Ended
  <2>3. CASE Player
    <3>1. ~Load BY PhaseAssumption DEF Load, PhaseInv, TypeOK
    <3> QED BY <2>3, <3>1 DEF Player, Deploy, Join, ClickBegin, ServeBegin, ClickEnd,
                            ServeEnd, MakeASave, Ended, End
  <2> QED BY <2>1, <2>2, <2>3 DEF Next
<1> QED BY <1>1, PhaseInvariant, PTL DEF Spec, OnceOver
=============================================================================
