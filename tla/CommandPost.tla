---------------------------- MODULE CommandPost ----------------------------
(***************************************************************************)
(* From the mouse to the orders.                                           *)
(*                                                                         *)
(* Events of the mouse and the keyboard change some fields of the GUI at   *)
(* once and push others as UI events.  A frame first applies what the      *)
(* server sent, then pops the UI events, the newest first; the messages    *)
(* each of them makes are computed on the state from before all of them,   *)
(* and applied together at the end of the frame.  Between two clicks of a  *)
(* player the squads may merge and the battle may begin.                   *)
(*                                                                         *)
(* Where soldiers stand is not kept: any of them may be under the cursor.  *)
(* A dead soldier is there too, and names the squad it died in, which may  *)
(* be gone.  Move stands for the three orders with a path, Aim for those   *)
(* that only take the place of the cursor (defend, hide, engage or fire).  *)
(* A path is known by the place of the cursor it was computed for; the     *)
(* points appended to it with Shift lie between.                           *)
(*                                                                         *)
(* Places are points of the world, as the paths' and the orders' are.  The *)
(* code keeps the cursor as a point of the window; so the place under it   *)
(* changes when the mouse moves, which the UI is told, and also when the   *)
(* scene is scrolled or zoomed under it, which nothing tells.              *)
(***************************************************************************)
EXTENDS Naturals, Sequences, FiniteSets, SequencesExt

CONSTANTS
    Squad,          \* the squads of the player
    Point,          \* places of the world the cursor may be over
    None,           \* no place, no squad
    EventsPerFrame  \* bound: UI events pushed by the mouse in a frame

ASSUME CommandPostAssumption ==
    /\ None \notin Squad \cup Point
    /\ EventsPerFrame \in Nat \ {0}

VARIABLES
    phase,      \* BattleState::phase of this GUI
    squads,     \* the keys of BattleState::squads
    bodies,     \* squads merged away which the dead still name
    cursor,     \* the place under current_cursor_point
    down,       \* the place under left_click_down
    clickOn,    \* begin_click_on_soldier is set
    drag,       \* dragged_squad
    chat,       \* display_chat_gui, which keeps the mouse from the map
    gui,        \* squad_menu, pending_order, selected_squads, display_paths
    events,     \* ui_events
    moved,      \* the cursor moved since the last frame
    panicked,
    unseen,     \* history: under displayed paths or waiting clicks the place
                \* of the cursor changed, the UI not being told
    held        \* history: squads dragged or let go of as the battle began

battleVars == <<phase, squads, bodies, held>>
mouseVars  == <<cursor, down, clickOn, drag, moved, unseen>>
vars == <<battleVars, mouseVars, chat, gui, events, panicked>>

-----------------------------------------------------------------------------

Kind == {"Move", "Aim"}

(* PendingOrder: the squad, and what it will be told.                      *)
PendingOrders(ids, kind) == {[squad |-> q, kind |-> kind] : q \in ids}

(* The squads that soldiers_at_point or get_entities_in_area may find.     *)
Named == squads \cup bodies

Init ==
    /\ phase = "Placement"
    /\ squads = Squad /\ bodies = {} /\ held = {}
    /\ cursor \in Point
    /\ down = None /\ clickOn = FALSE /\ drag = None
    /\ moved = FALSE /\ unseen = FALSE
    /\ chat = FALSE
    /\ gui = [menu |-> {}, pending |-> {}, selected |-> {}, paths |-> {}]
    /\ events = <<>> /\ panicked = FALSE

-----------------------------------------------------------------------------
(* Messages.                                                               *)

SetMenu(ids)      == [name |-> "SetSquadMenu", menu |-> ids]
SetPending(os)    == [name |-> "SetPendingOrders", pending |-> os]
SetSelected(ids)  == [name |-> "SetSelectedSquads", selected |-> ids]
SetPaths(paths)   == [name |-> "SetDisplayPaths", paths |-> paths]
Push(event)       == [name |-> "PushUIEvent", event |-> event]
Orders(orders)    == [name |-> "SetOrder", orders |-> orders]
Dropped(q)        == [name |-> "SetWorldPosition", squad |-> q]
Panic             == [name |-> "panic"]

(* BattleState::squad panics on a squad that is gone.                      *)
Looked(ids, ms) == IF ids \subseteq squads THEN ms ELSE {<<Panic>>}

(* GuiState::react.                                                        *)
Applied(x, m) ==
    CASE m.name = "SetSquadMenu"      -> [x EXCEPT !.gui.menu = m.menu]
      [] m.name = "SetPendingOrders"  -> [x EXCEPT !.gui.pending = m.pending]
      [] m.name = "SetSelectedSquads" -> [x EXCEPT !.gui.selected = m.selected]
      [] m.name = "SetDisplayPaths"   -> [x EXCEPT !.gui.paths = m.paths]
      [] m.name = "PushUIEvent"       -> [x EXCEPT !.pushed = Append(@, m.event)]
      [] OTHER -> x

-----------------------------------------------------------------------------
(* What a UI event makes, as the set of its possible lists of messages.    *)

(* create_world_paths_from_context: a path on display is taken as it is;   *)
(* another is searched to the cursor, maybe in vain.                       *)
PathsFor(q) ==
    LET shown == {path \in gui.paths : path.squad = q}
    IN IF shown # {} THEN {{path.to} : path \in shown} ELSE {{cursor}, {}}

(* order_from_pending_order and define_order, for a click at p.  There may *)
(* be nothing to aim at.                                                   *)
Given(o, p) ==
    {{[squad |-> o.squad, to |-> to, clicked |-> p] : to \in found} :
        found \in IF o.kind = "Move" THEN PathsFor(o.squad) ELSE {{cursor}, {}}}

Issue(p) ==
    LET outcomes == {f \in [gui.pending -> UNION {Given(o, p) : o \in gui.pending}] :
                        \A o \in gui.pending : f[o] \in Given(o, p)}
    IN Looked({o.squad : o \in gui.pending},
              {<<Orders(UNION {f[o] : o \in gui.pending}), SetPending({})>> : f \in outcomes})

MenuChoices ==
    {<<SetPending(PendingOrders(gui.menu, kind)), SetMenu({})>> : kind \in Kind}

(* left_click_finished_controlling_soldier: whatever the click does to the *)
(* menu or the selection, it also gives the pending orders, or appends a   *)
(* point to them with Shift.                                               *)
ClickMade(p) ==
    LET first == IF gui.menu # {} THEN MenuChoices \cup {<<SetMenu({})>>}
                 ELSE {<<SetSelected({q})>> : q \in Named} \cup {<<SetSelected({})>>, <<>>}
        then  == (IF gui.pending # {} THEN Issue(p) ELSE {}) \cup {<<>>}
    IN {a \o b \o <<SetPaths({})>> : a \in first, b \in then}

(* cursor_vector_finished_controlling_soldier.                             *)
VectorMade(p) ==
    (IF gui.menu # {} THEN MenuChoices ELSE {})
    \cup IF gui.pending # {}
         THEN {b \o <<SetPaths({})>> : b \in Issue(p)}
         ELSE {<<SetSelected(ids)>> : ids \in SUBSET Named}

(* A right click cancels the pending orders, or opens the menu for the     *)
(* squad under it or those selected; with the grid on (it comes with the   *)
(* chat, or from the debug panel) it sends one of them that way at once.   *)
RightMade(p) ==
    LET Sent(q) == Looked({q}, {<<Orders({[squad |-> q, to |-> p, clicked |-> p]})>>})
        Then(ids) == IF gui.pending # {} THEN {<<SetPending({}), SetPaths({})>>}
                     ELSE IF ids = {} THEN {<<>>}
                     ELSE {<<SetMenu(ids)>>} \cup UNION {Sent(q) : q \in ids}
    IN Then(gui.selected)
       \cup UNION {{<<SetSelected({q})>> \o made : made \in Then({q})} : q \in Named}

(* The cursor has rested: the paths of the pending moves are searched, one *)
(* frame later.                                                            *)
StillMade ==
    LET movers == {o.squad : o \in {o \in gui.pending : o.kind = "Move"}}
    IN IF movers = {} THEN {<<>>} ELSE {<<Push([name |-> "Draw", squads |-> movers])>>}

DrawMade(ids) ==
    Looked(ids, {<<SetPaths({[squad |-> q, to |-> cursor] : q \in found})>> :
                    found \in SUBSET ids})

(* drop_squad_to, where the zones and the vehicle allow it.                *)
DropMade(q) == {<<>>} \cup Looked({q}, {<<Dropped(q)>>})

Made(e) ==
    CASE e.name = "Click"  -> ClickMade(e.at) \cup {<<>>}
      [] e.name = "Vector" -> VectorMade(e.at) \cup {<<>>}
      [] e.name = "Right"  -> RightMade(e.at)
      [] e.name = "Move"   -> {<<SetPaths({})>>}
      [] e.name = "Still"  -> StillMade
      [] e.name = "Draw"   -> DrawMade(e.squads)
      [] e.name = "Drop"   -> DropMade(e.squad)

-----------------------------------------------------------------------------
(* Engine::tick.                                                           *)

(* What one more event makes, after what the newer ones have made.         *)
Answered(made, e) == {a \o b : a \in made, b \in Made(e)}

(* The messages a frame may make: collect_player_inputs tells that the     *)
(* cursor rests (of the many such events only the one after a given number *)
(* of frames matters), then ui_events pops the events, the newest first.   *)
Frames ==
    LET rests == IF moved THEN {} ELSE {<<Push([name |-> "Still"])>>}
    IN FoldLeft(Answered, {<<>>} \cup rests, Reverse(events))

Clicks == {"Click", "Vector", "Right"}
ClicksWait == \E i \in DOMAIN events : events[i].name \in Clicks

(* Another place comes under the cursor, and under the point of the window *)
(* where the button went down: the same if the mouse has not moved since.  *)
SceneMoves(p) ==
    /\ cursor' = p
    /\ IF down \in {None, cursor} THEN down' = (IF down = None THEN None ELSE p)
       ELSE down' \in Point \ {p}

Told(messages, name) == \E i \in DOMAIN messages : messages[i].name = name

(* What the messages of a frame leave.                                     *)
Outcomes ==
    {[left   |-> FoldLeft(Applied, [gui |-> gui, pushed |-> <<>>], messages),
      redone |-> Told(messages, "SetDisplayPaths"),
      panic  |-> Told(messages, "panic")] : messages \in Frames}

(* The frame may also scroll: by the arrow keys, at the border of the      *)
(* window while an order is pending, or to where a right click was.        *)
Tick ==
    /\ ~panicked
    /\ \E told \in Outcomes :
          /\ gui' = told.left.gui
          /\ events' = told.left.pushed
          /\ panicked' = told.panic
          /\ \/ /\ UNCHANGED <<cursor, down>>
                /\ unseen' = (unseen /\ ~told.redone /\ gui.paths # {})
             \/ /\ \E p \in Point \ {cursor} : SceneMoves(p)
                /\ unseen' = (told.left.gui.paths # {})
    /\ held' = held \cap {drag}
    /\ moved' = FALSE
    /\ UNCHANGED <<phase, squads, bodies, clickOn, drag, chat>>

Stopped == panicked /\ UNCHANGED vars

-----------------------------------------------------------------------------
(* Engine::sync: what the server tells between two frames.                 *)

BeginBattle ==
    /\ ~panicked /\ phase = "Placement"
    /\ phase' = "Battle"
    /\ held' = ({drag} \ {None})
               \cup {events[i].squad : i \in {i \in DOMAIN events : events[i].name = "Drop"}}
    /\ UNCHANGED <<squads, bodies, mouseVars, chat, gui, events, panicked>>

(* SetSquadLeader: a squad joins another.  Its dead are not told.          *)
MergeSquad(q) ==
    /\ ~panicked /\ phase = "Battle" /\ q \in squads /\ squads # {q}
    /\ squads' = squads \ {q}
    /\ bodies' \in {bodies, bodies \cup {q}}
    /\ UNCHANGED <<phase, held, mouseVars, chat, gui, events, panicked>>

-----------------------------------------------------------------------------
(* The mouse and the keyboard, between two frames.                         *)

(* A bound: in a frame each button is let go once at most.                 *)
MayPush(names) ==
    /\ ~panicked /\ Len(events) < EventsPerFrame
    /\ \A i \in DOMAIN events : events[i].name \notin names

MoveMouseSilently(p) ==                                      \* a mutant
    /\ MayPush({}) /\ ~chat /\ p # cursor
    /\ cursor' = p /\ moved' = TRUE
    /\ UNCHANGED <<battleVars, down, clickOn, drag, unseen, chat, gui, events, panicked>>

MoveMouseInAnyPhase(p) ==                                    \* a mutant
    /\ MayPush({}) /\ ~chat /\ p # cursor
    /\ cursor' = p /\ moved' = TRUE
    /\ events' = Append(events, [name |-> "Move"])
    /\ drag' \in {drag} \cup
          (IF drag = None /\ clickOn /\ down \notin {None, p} THEN Named ELSE {})
    /\ UNCHANGED <<battleVars, down, clickOn, unseen, chat, gui, panicked>>

(* collect_mouse_motion: a soldier under the cursor, which is still where  *)
(* it was, begins to be dragged.                                           *)
MoveMouse(p) ==
    /\ MayPush({}) /\ ~chat /\ p # cursor
    /\ cursor' = p /\ moved' = TRUE
    /\ events' = Append(events, [name |-> "Move"])
    /\ \/ drag' = drag
       \/ /\ phase = "Placement" /\ drag = None /\ clickOn /\ down \notin {None, p}
          /\ drag' \in Named
    /\ UNCHANGED <<battleVars, down, clickOn, unseen, chat, gui, panicked>>

(* Under the chat only SetCursorPoint passes.                              *)
MoveUnderChat(p) ==
    /\ ~panicked /\ chat /\ p # cursor
    /\ cursor' = p /\ moved' = TRUE /\ unseen' = (unseen \/ gui.paths # {})
    /\ UNCHANGED <<battleVars, down, clickOn, drag, chat, gui, events, panicked>>

(* collect_mouse_wheel: the scene is centred on the cursor and scaled; or  *)
(* CenterMapOn: it is centred on what the HUD was asked to show.           *)
Zoom(p) ==
    /\ ~panicked /\ ~chat /\ p # cursor
    /\ SceneMoves(p)
    /\ unseen' = (unseen \/ gui.paths # {} \/ ClicksWait)
    /\ UNCHANGED <<battleVars, clickOn, drag, moved, chat, gui, events, panicked>>

(* collect_mouse_down: the button may take hold of the marker of an order, *)
(* or of a soldier to place.                                               *)
PressLeft ==
    /\ ~panicked /\ ~chat
    /\ down' = cursor
    /\ \/ UNCHANGED <<gui, clickOn>>
       \/ /\ gui.menu = {} /\ gui.pending = {}
          /\ \/ gui' = gui
             \/ \E q \in squads, kind \in Kind :
                   gui' = [gui EXCEPT !.pending = PendingOrders({q}, kind)]
          /\ clickOn' \in {clickOn, clickOn \/ phase = "Placement"}
    /\ UNCHANGED <<battleVars, cursor, drag, moved, unseen, chat, events, panicked>>

(* collect_mouse_up.  Over the HUD a drop is refused, and a squad of the   *)
(* list may be selected.                                                   *)
ReleaseLeft ==
    /\ MayPush({"Click", "Vector", "Drop"}) /\ ~chat
    /\ \/ drag # None /\ events' = events
       \/ events' = Append(events,
             IF drag # None THEN [name |-> "Drop", squad |-> drag]
             ELSE [name |-> IF down \in {None, cursor} THEN "Click" ELSE "Vector", at |-> cursor])
    /\ \/ gui' = gui
       \/ \E q \in squads : gui' = [gui EXCEPT !.selected = {q}]
    /\ down' = None /\ drag' = None /\ clickOn' = FALSE
    /\ UNCHANGED <<battleVars, cursor, moved, unseen, chat, panicked>>

ReleaseRight ==
    /\ MayPush({"Right"}) /\ ~chat
    /\ events' = Append(events, [name |-> "Right", at |-> cursor])
    /\ UNCHANGED <<battleVars, mouseVars, chat, gui, panicked>>

PressEscape ==
    /\ ~panicked /\ ~chat /\ gui.pending # {}
    /\ gui' = [gui EXCEPT !.pending = {}, !.paths = {}]
    /\ unseen' = (unseen /\ ClicksWait)
    /\ UNCHANGED <<battleVars, cursor, down, clickOn, drag, moved, chat, events, panicked>>

ToggleChat ==
    /\ ~panicked
    /\ chat' = ~chat
    /\ UNCHANGED <<battleVars, mouseVars, gui, events, panicked>>

-----------------------------------------------------------------------------

Player ==
    \/ \E p \in Point : MoveMouse(p) \/ MoveUnderChat(p) \/ Zoom(p)
    \/ PressLeft \/ ReleaseLeft \/ ReleaseRight
    \/ PressEscape \/ ToggleChat

Next ==
    \/ Tick \/ Stopped
    \/ BeginBattle \/ \E q \in Squad : MergeSquad(q)
    \/ Player

Spec == Init /\ [][Next]_vars

-----------------------------------------------------------------------------

(* Types.                                                                  *)
Event ==
         [name : {"Click", "Vector", "Right"}, at : Point]
    \cup [name : {"Move", "Still"}]
    \cup [name : {"Draw"}, squads : SUBSET Squad]
    \cup [name : {"Drop"}, squad : Squad]

Gui == [menu : SUBSET Squad, pending : SUBSET [squad : Squad, kind : Kind],
        selected : SUBSET Squad, paths : SUBSET [squad : Squad, to : Point]]

TypeOK ==
    /\ phase \in {"Placement", "Battle"}
    /\ squads \subseteq Squad /\ bodies \subseteq Squad /\ held \subseteq Squad
    /\ cursor \in Point /\ down \in Point \cup {None} /\ drag \in Squad \cup {None}
    /\ clickOn \in BOOLEAN /\ chat \in BOOLEAN /\ moved \in BOOLEAN
    /\ panicked \in BOOLEAN /\ unseen \in BOOLEAN
    /\ gui \in Gui
    /\ events \in Seq(Event)

(* An order goes where the player clicked, though it may take a path found *)
(* earlier and reads the place of the cursor, not of the click: unless the *)
(* cursor moved in the same frame, or the place under it had changed while *)
(* paths were on display or a click waited, the cursor moving under the    *)
(* chat or the scene being scrolled or zoomed.                             *)
OrdersGoWhereClicked ==
    moved \/ unseen \/ \A messages \in Frames : \A i \in DOMAIN messages :
        messages[i].name = "SetOrder" => \A o \in messages[i].orders : o.to = o.clicked

(* The placement ends with the battle: a squad is placed by hand after it  *)
(* began at most once, and only when it was held at that moment.           *)
LateDropsWereHeld ==
    phase = "Placement" \/ \A messages \in Frames : \A i \in DOMAIN messages :
        messages[i].name = "SetWorldPosition" => messages[i].squad \in held

(* The invariant behind the two: the events of a frame know the place of   *)
(* the cursor unless it changed since, paths on display lead to it unless  *)
(* they are about to be cleared or it changed unseen, and in a battle only *)
(* who was held is dropped.                                                *)
EventsInPlace ==
    \A i \in DOMAIN events : LET e == events[i] IN
        /\ e.name \in Clicks => moved \/ unseen \/ e.at = cursor
        /\ e.name = "Move" => moved
        /\ e.name = "Drop" => phase = "Placement" \/ e.squad \in held

HasMoved == \E i \in DOMAIN events : events[i].name = "Move"

PathsToTheCursor == unseen \/ HasMoved \/ \A path \in gui.paths : path.to = cursor

DraggedIsHeld == phase = "Placement" \/ drag \in held \cup {None}

PostInv == TypeOK /\ EventsInPlace /\ PathsToTheCursor /\ DraggedIsHeld
=============================================================================
