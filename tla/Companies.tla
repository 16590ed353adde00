------------------------------ MODULE Companies -------------------------------
(***************************************************************************)
(* The companies of one side and the turns of their scouts.                *)
(*                                                                         *)
(* Once a second of battle, tick_company_grouping divides the operational  *)
(* squads, from north to south, into at most three companies, and names    *)
(* in each the squad that scouts: the first one that has not had its turn. *)
(* A scout gives up its turn when its path fails, when it is back at its   *)
(* checkpoint, or when a flag is taken.  Who had its turn is remembered    *)
(* per company; a company is recognised by its lowest squad (the anchor),  *)
(* since its name follows from the others.                                 *)
(*                                                                         *)
(* Two things are never taken away: a history nobody uses any more, and a  *)
(* company whose name the last grouping has not given out.  Its squads and *)
(* its scout stay what they were, and every reader of Runner::companies    *)
(* still finds them; the properties say how far such leftovers reach.      *)
(*                                                                         *)
(* The sides do not share anything: each name and each anchor begins with  *)
(* the side.  Squads are their uuids; where their leaders stand and which  *)
(* of them are operational is decided elsewhere and changes freely, up to  *)
(* a bound after which the turns can be watched.                           *)
(***************************************************************************)
EXTENDS Integers, Sequences, FiniteSetsExt

CONSTANTS
    Squad,          \* uuids of the squads of the side
    StartLine,      \* how their leaders may be placed, from north to south
    MaxChanges      \* bound: marches, losses, returns and flags together

ASSUME SquadAssumption ==
    /\ Squad \subseteq Nat \ {0} /\ Squad # {} /\ IsFiniteSet(Squad)
    /\ \A l \in StartLine : /\ l \in [1..Cardinality(Squad) -> Squad]
                            /\ \A s \in Squad : \E p \in DOMAIN l : l[p] = s
    /\ MaxChanges \in Nat

VARIABLES
    line,           \* the squads by the y of their leaders
    operational,    \* squads with a soldier which can be leader
    wanted,         \* some flag is not the side's own
    companies,      \* Runner::companies, by number: Alpha, Bravo, Charlie
    history,        \* Runner::scouted_history, by anchor
    wait,           \* Runner::scout_turn_offsets: groupings to come before
                    \* another turn of this anchor may be passed
    fresh,          \* companies of the last grouping; others are left over
    changes         \* how often the world has changed

world == <<line, operational, wanted, changes>>
vars  == <<world, companies, history, wait, fresh>>

Names   == 1..3
None    == 0
NoCompany == [squads |-> {}, scout |-> None]

-----------------------------------------------------------------------------
(* The groups: chunks of the line, as equal as their number allows.        *)

OnDuty == {p \in DOMAIN line : line[p] \in operational}

(* How many squads of the line come before the one at place p.             *)
Ahead(p) == Cardinality({q \in OnDuty : q < p})

OneMoreDiv(a, b) == (a + b) \div b                                 \* a mutant

CeilDiv(a, b) == (a + b - 1) \div b

FloorChunkSize(n) == n \div Min({3, n})                            \* a mutant

ChunkSize(n) == CeilDiv(n, Min({3, n}))

Clusters ==
    LET size == ChunkSize(Cardinality(OnDuty))
        chunk(k) == {line[q] : q \in {p \in OnDuty : Ahead(p) \div size = k}}
    IN  {chunk(Ahead(p) \div size) : p \in OnDuty}

Anchor(squads) == Min(squads)

-----------------------------------------------------------------------------
(* The turns within a company.  A squad that left is forgotten; when all   *)
(* have had their turn, a new round begins.                                *)

RememberAll(squads) ==                                             \* a mutant
    IF squads \subseteq history[Anchor(squads)] /\ Cardinality(squads) > 1
    THEN {} ELSE history[Anchor(squads)]

NewRoundTooEarly(squads) ==                                        \* a mutant
    LET had == history[Anchor(squads)] \cap squads
    IN  IF Cardinality(squads \ had) <= 1 /\ Cardinality(squads) > 1
        THEN {} ELSE had

NoNewRound(squads) == history[Anchor(squads)] \cap squads          \* a mutant

Remembered(squads) ==
    LET had == history[Anchor(squads)] \cap squads
    IN  IF squads \subseteq had /\ Cardinality(squads) > 1 THEN {} ELSE had

Scout(squads) ==
    LET left == squads \ Remembered(squads)
    IN  IF left = {} THEN Anchor(squads) ELSE Min(left)

(* tick_company_grouping; the companies are numbered by their anchors.     *)
Number(c, clusters) == Cardinality({d \in clusters : Anchor(d) <= Anchor(c)})

Company(c) == [squads |-> c, scout |-> IF wanted THEN Scout(c) ELSE None]

Regroup ==
    \E clusters \in {Clusters} :
       /\ companies' = [i \in Names |->
                          IF i > Cardinality(clusters) THEN companies[i]
                          ELSE Company(CHOOSE c \in clusters :
                                          Number(c, clusters) = i)]
       /\ fresh' = Cardinality(clusters)
       /\ history' = [a \in Squad |->
                        IF wanted /\ \E c \in clusters : Anchor(c) = a
                        THEN Remembered(CHOOSE c \in clusters : Anchor(c) = a)
                        ELSE history[a]]
       /\ wait' = [a \in Squad |-> IF wait[a] > 0 THEN wait[a] - 1 ELSE 0]
       /\ UNCHANGED world

-----------------------------------------------------------------------------
(* A scout gives up its turn: in every company that says it is its scout,  *)
(* 180 frames after the last time.  It may, but nothing says it ever will: *)
(* idle_behavior asks only the first company that holds the squad, in the  *)
(* order of a HashMap, whether it scouts; a scout already at its flag      *)
(* stays there; and a leader under a player's order is not animated.       *)

Scouting(s) == {i \in Names : companies[i].scout = s}

PassTurn(s) ==
    LET passed == {Anchor(companies[i].squads) : i \in Scouting(s)}
        due    == {a \in passed : wait[a] = 0}
    IN  /\ s \in operational
        /\ due # {}
        /\ history' = [a \in Squad |-> IF a \in due THEN history[a] \cup {s}
                                                    ELSE history[a]]
        /\ wait' = [a \in Squad |-> IF a \in due THEN 3 ELSE wait[a]]
        /\ UNCHANGED <<world, companies, fresh>>

-----------------------------------------------------------------------------
(* The world: leaders walk past each other, squads lose their last able    *)
(* soldier or get one back (from off the map), flags are taken and lost.   *)

Change == changes < MaxChanges /\ changes' = changes + 1
          /\ UNCHANGED <<companies, history, wait, fresh>>

March ==
    /\ Change
    /\ \E p \in 1..(Len(line) - 1) :
          line' = [line EXCEPT ![p] = line[p + 1], ![p + 1] = line[p]]
    /\ UNCHANGED <<operational, wanted>>

Lose ==
    /\ Change
    /\ \E s \in operational : operational' = operational \ {s}
    /\ UNCHANGED <<line, wanted>>

Return ==
    /\ Change
    /\ \E s \in Squad \ operational : operational' = operational \cup {s}
    /\ UNCHANGED <<line, wanted>>

Flags ==
    /\ Change
    /\ wanted' = ~wanted
    /\ UNCHANGED <<line, operational>>

Init ==
    /\ line \in StartLine
    /\ operational = Squad
    /\ wanted = TRUE
    /\ companies = [i \in Names |-> NoCompany]
    /\ history = [a \in Squad |-> {}]
    /\ wait = [a \in Squad |-> 0]
    /\ fresh = 0
    /\ changes = 0

Next == Regroup \/ (\E s \in Squad : PassTurn(s)) \/ March \/ Lose \/ Return
        \/ Flags

Spec == Init /\ [][Next]_vars

(* Ticks go on; whether scouts give up their turns is left to them.        *)
FairSpec == Spec /\ WF_vars(Regroup)

-----------------------------------------------------------------------------
Fresh    == 1..fresh
Leftover == Names \ Fresh

TypeOK ==
    /\ operational \subseteq Squad /\ wanted \in BOOLEAN
    /\ companies \in [Names -> [squads : SUBSET Squad, scout : Squad \cup {None}]]
    /\ history \in [Squad -> SUBSET Squad]
    /\ wait \in [Squad -> 0..3]
    /\ fresh \in 0..3 /\ changes \in 0..MaxChanges

(* InOneCompany: a squad is in two companies only where a leftover company *)
(* still claims it: those of the last grouping share out the squads, none  *)
(* of them with more than a third, rounded up; and a scout, of a leftover  *)
(* company as well, is one of the squads it scouts for.                    *)
InOneCompany ==
    LET grouped == UNION {companies[i].squads : i \in Fresh} IN
    /\ \A i, j \in Fresh :
          i # j => companies[i].squads \cap companies[j].squads = {}
    /\ \A i \in Fresh :
          /\ companies[i].squads # {}
          /\ 3 * Cardinality(companies[i].squads) <= Cardinality(grouped) + 2
    /\ \A i \in Names : companies[i].scout # None
          => companies[i].scout \in companies[i].squads

(* OnlyMembersHadTurns: what a company with a scout remembers is about its *)
(* own squads (one which left and comes back has its turn again), or about *)
(* those of a leftover company with the same anchor.                       *)
OnlyMembersHadTurns ==
    \A i \in Fresh : companies[i].scout # None =>
        history[Anchor(companies[i].squads)]
            \subseteq UNION {companies[j].squads : j \in Leftover \cup {i}}

(* No squad is twice in the line: it is as long as there are squads.       *)
EveryoneInLine ==
    /\ line \in [1..Cardinality(Squad) -> Squad]
    /\ \A s \in Squad : \E p \in DOMAIN line : line[p] = s

CompaniesInv == TypeOK /\ EveryoneInLine /\ InOneCompany /\ OnlyMembersHadTurns

(* NotTwiceRunning: a squad that gave up its turn is not named again by    *)
(* the next grouping (which lets `wait` go down) while its company has     *)
(* another squad to send.  Only the anchor, with which a new round begins, *)
(* goes twice, when all the others had their turn before it: a leftover    *)
(* company can pass their turns first.                                     *)
AnotherIsSent ==
    \A i \in Fresh \cap 1..fresh' :
       LET c == companies[i]
           a == Anchor(c.squads)
       IN  (/\ wait'[a] < wait[a] /\ wanted
            /\ c.scout \in history[a]
            /\ companies'[i].squads = c.squads /\ Cardinality(c.squads) > 1
            /\ c.scout = a => ~(c.squads \subseteq history[a]))
           => companies'[i].scout # c.scout

NotTwiceRunning == [][AnotherIsSent]_vars

(* A leftover company with the anchor of a new one: its scout passes turns *)
(* in the history and on the clock of the new one.                         *)
Disturbed(i) ==
    \E j \in Leftover :
       /\ companies[j].scout # None
       /\ Anchor(companies[j].squads) = Anchor(companies[i].squads)

(* A turn has just been passed in the company of squad s: the offset of    *)
(* its anchor is that of this second.                                      *)
TurnPassedFor(s) ==
    \E i \in Fresh : /\ s \in companies[i].squads
                     /\ wait[Anchor(companies[i].squads)] = 3

(* EveryoneScouts: when the world has settled, and as long as the scouts   *)
(* of its company give up their turns again and again, no squad of it is   *)
(* passed over for good, unless a leftover company disturbs its turns.     *)
EveryoneScouts ==
    \A s \in Squad :
       []<>TurnPassedFor(s) =>
       []<>(\/ s \notin operational \/ ~wanted
            \/ \E i \in Fresh : /\ s \in companies[i].squads
                               /\ (companies[i].scout = s \/ Disturbed(i)))
=============================================================================
