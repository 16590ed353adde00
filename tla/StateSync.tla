------------------------------ MODULE StateSync ------------------------------
(***************************************************************************)
(* How the battle state of each GUI follows the server's.                  *)
(*                                                                         *)
(* The runner sends every message of a tick to its clients, who apply them *)
(* to a state of their own.  A GUI that embeds the server gets them from a *)
(* channel; another one subscribes to a zmq PUB socket, which may drop an  *)
(* envelope, and detects that by the counter the envelopes carry.  It then *)
(* raises sync_required, asks for a complete copy over the lossless REQ    *)
(* socket, and ignores the messages of the ticks until a copy has come     *)
(* through the same lossy stream.  The thread that receives the envelopes  *)
(* and the one that applies them share only the channel between them and   *)
(* the sync_required flag.                                                 *)
(*                                                                         *)
(* A state is the set of the updates it reflects: one update stands for    *)
(* all the messages of a tick, one for each change a player makes, and one *)
(* for what the server alone makes of a tick.                              *)
(***************************************************************************)
EXTENDS Naturals, Sequences

CONSTANTS
    Client,         \* the GUIs
    Host,           \* those that embed the server
    Order,          \* the changes the players make (SetOrder, SetAReady...)
    Owner,          \* the client each change is made at
    Copied,         \* the changes a BattleStateCopy keeps (not SetAReady)
    MaxTicks,       \* bound: ticks of the runner
    LossyUntil,     \* bound: the envelopes after this one are not lost
    MaxLoads        \* bound: saves loaded

Ticks == 1..MaxTicks

ASSUME SyncAssumption ==
    /\ Host \subseteq Client
    /\ Owner \in [Order -> Client]
    /\ Copied \subseteq Order
    /\ MaxTicks \in Nat /\ LossyUntil \in Nat /\ MaxLoads \in Nat
    /\ Order \cap Nat = {}

VARIABLES
    (* the server *)
    server,         \* Runner::battle_state
    ticks,          \* ticks done
    outbox,         \* messages on their way to the PUB thread
    pubCounter,     \* pub_counter: the id of the last envelope
    (* the network *)
    subscribed,     \* clients whose subscription the PUB socket knows
    link,           \* envelopes on their way to each client
    requests,       \* input messages on their way from each client
    (* each client *)
    connected,      \* clients started
    view,           \* Engine::battle_state
    syncRequired,   \* the flag sync_required
    inbox,          \* decoded messages on their way to the engine
    handled,        \* id of the envelope the SUB thread handles, 0 if none
    lastCounter,    \* last_counter of the SUB thread
    heard,          \* history: clients that took in a copy or noticed a loss
    issued,         \* changes made by the players
    saved,          \* the last save of each client, at first one of an older game
    loads           \* how many saves were loaded

serverVars  == <<server, ticks, outbox>>
networkVars == <<pubCounter, subscribed, link>>
engineVars  == <<view, inbox, heard>>
subVars     == <<handled, lastCounter>>
playerVars  == <<connected, issued, saved, loads>>
vars == <<serverVars, networkVars, engineVars, subVars, playerVars,
          requests, syncRequired>>

-----------------------------------------------------------------------------

(* What the server makes of a tick and tells nobody: the end of a behavior *)
(* (SoldierFinishHisBehavior), a side effect the GUI ignores, and the host *)
(* of a merge, where each side follows the order of its own HashMap.  What *)
(* a client makes of the tick in its place is not followed.                *)
Own(t) == MaxTicks + t

Update == Ticks \cup {Own(t) : t \in Ticks} \cup Order

(* Output messages: those of a tick, or LoadFromCopy.                      *)
TickMessages(t) == [kind |-> "tick", update |-> t]
LoadFromCopy(S) == [kind |-> "copy", state |-> S]
Output == [kind : {"tick"}, update : Ticks] \cup [kind : {"copy"}, state : SUBSET Update]

(* Input messages.                                                         *)
RequireCompleteSync == [kind |-> "sync"]
Change(o)           == [kind |-> "change", order |-> o]
SetBattleState(S)   == [kind |-> "load", state |-> S]
Input == [kind : {"sync"}] \cup [kind : {"change"}, order : Order]
             \cup [kind : {"load"}, state : SUBSET Update]

(* BattleState::copy: what is in no field of the copy is lost.             *)
Copy(S) == S \ (Order \ Copied)

Remote == Client \ Host

Init ==
    /\ server = {} /\ ticks = 0 /\ outbox = <<>>
    /\ pubCounter = 0 /\ subscribed = {}
    /\ link = [c \in Client |-> <<>>]
    /\ requests = [c \in Client |-> <<>>]
    /\ connected = {}
    /\ view = [c \in Client |-> {}]
    /\ syncRequired = [c \in Client |-> TRUE]
    /\ inbox = [c \in Client |-> <<>>]
    /\ handled = [c \in Client |-> 0]
    /\ lastCounter = [c \in Client |-> 0]
    /\ heard = {}
    /\ issued = {}
    /\ saved = [c \in Client |-> {}]
    /\ loads = 0

-----------------------------------------------------------------------------
(* The runner and the PUB thread.                                          *)

(* The messages of a tick, sent as they are made; the server applies them, *)
(* and then their side effects (Runner::tick, react, outputs).             *)
Tick ==
    /\ ticks < MaxTicks
    /\ ticks' = ticks + 1
    /\ \E own \in SUBSET {Own(ticks + 1)} : server' = server \cup {ticks + 1} \cup own
    /\ outbox' = Append(outbox, TickMessages(ticks + 1))
    /\ UNCHANGED <<networkVars, engineVars, subVars, playerVars, requests, syncRequired>>

(* Runner::inputs.  A change is applied and sent to nobody; a save replaces *)
(* the state and is sent to all.                                           *)
ServeKind(c, kind) ==
    /\ requests[c] # <<>>
    /\ Head(requests[c]).kind = kind
    /\ requests' = [requests EXCEPT ![c] = Tail(@)]
    /\ UNCHANGED <<ticks, networkVars, engineVars, subVars, playerVars, syncRequired>>

ServeSync(c) ==
    /\ ServeKind(c, "sync")
    /\ outbox' = Append(outbox, LoadFromCopy(Copy(server)))
    /\ UNCHANGED server

ServeChange(c) ==
    /\ ServeKind(c, "change")
    /\ server' = server \cup {Head(requests[c]).order}
    /\ UNCHANGED outbox

ServeLoadSilently(c) ==                                      \* a mutant
    /\ ServeKind(c, "load")
    /\ server' = Head(requests[c]).state
    /\ UNCHANGED outbox

ServeLoad(c) ==
    /\ ServeKind(c, "load")
    /\ server' = Head(requests[c]).state
    /\ outbox' = Append(outbox, LoadFromCopy(Head(requests[c]).state))

(* The PUB thread numbers an envelope and hands it to the socket, which    *)
(* queues it for each subscriber or drops it.  The channel to the host     *)
(* loses nothing.                                                          *)
NextIdFromZero == pubCounter                                 \* a mutant
NextId == pubCounter + 1

Publish ==
    /\ outbox # <<>>
    /\ \E lost \in SUBSET subscribed :
         /\ lost # {} => pubCounter < LossyUntil
         /\ link' = [c \in Client |->
              IF c \in subscribed \ lost
                THEN Append(link[c], [id |-> NextId, messages |-> Head(outbox)])
                ELSE link[c]]
    /\ inbox' = [c \in Client |->
         IF c \in Host THEN Append(inbox[c], Head(outbox)) ELSE inbox[c]]
    /\ outbox' = Tail(outbox)
    /\ pubCounter' = pubCounter + 1
    /\ UNCHANGED <<server, ticks, subscribed, view, heard, subVars, playerVars,
                   requests, syncRequired>>

-----------------------------------------------------------------------------
(* A client.                                                               *)

(* run: the sockets are connected, a first complete copy is asked for.     *)
Connect(c) ==
    /\ c \notin connected
    /\ connected' = connected \cup {c}
    /\ requests' = [requests EXCEPT ![c] = Append(@, RequireCompleteSync)]
    /\ UNCHANGED <<serverVars, networkVars, engineVars, subVars,
                   issued, saved, loads, syncRequired>>

(* The subscription sent by zmq reaches the PUB socket: nothing waits for  *)
(* it, and the first copy may have been published before.                  *)
Subscribe(c) ==
    /\ c \in connected \ (Host \cup subscribed)
    /\ subscribed' = subscribed \cup {c}
    /\ UNCHANGED <<serverVars, pubCounter, link, engineVars, subVars, playerVars,
                   requests, syncRequired>>

(* The SUB thread hands the messages of an envelope to the engine...       *)
Receive(c) ==
    /\ handled[c] = 0
    /\ link[c] # <<>>
    /\ link' = [link EXCEPT ![c] = Tail(@)]
    /\ inbox' = [inbox EXCEPT ![c] = Append(@, Head(link[c]).messages)]
    /\ handled' = [handled EXCEPT ![c] = Head(link[c]).id]
    /\ UNCHANGED <<serverVars, pubCounter, subscribed, view, heard, lastCounter, playerVars,
                   requests, syncRequired>>

(* ... and only then looks whether one was lost before it, for which the   *)
(* first it receives tells nothing.                                        *)
GapOfTwo(last, next) == last # 0 /\ last + 2 < next           \* a mutant
Gap(last, next) == last # 0 /\ last + 1 # next

CheckWithoutRequest(c) ==                                    \* a mutant
    /\ handled[c] # 0
    /\ syncRequired' = [syncRequired EXCEPT ![c] = @ \/ Gap(lastCounter[c], handled[c])]
    /\ lastCounter' = [lastCounter EXCEPT ![c] = handled[c]]
    /\ handled' = [handled EXCEPT ![c] = 0]
    /\ heard' = IF Gap(lastCounter[c], handled[c]) THEN heard \cup {c} ELSE heard
    /\ UNCHANGED <<serverVars, networkVars, view, inbox, playerVars, requests>>

Check(c) ==
    /\ handled[c] # 0
    /\ IF Gap(lastCounter[c], handled[c])
         THEN /\ syncRequired' = [syncRequired EXCEPT ![c] = TRUE]
              /\ requests' = [requests EXCEPT ![c] = Append(@, RequireCompleteSync)]
              /\ heard' = heard \cup {c}
         ELSE UNCHANGED <<syncRequired, requests, heard>>
    /\ lastCounter' = [lastCounter EXCEPT ![c] = handled[c]]
    /\ handled' = [handled EXCEPT ![c] = 0]
    /\ UNCHANGED <<serverVars, networkVars, view, inbox, playerVars>>

(* Engine::sync takes the next message.                                    *)
SyncKind(c, kind) ==
    /\ c \in connected
    /\ inbox[c] # <<>>
    /\ Head(inbox[c]).kind = kind
    /\ inbox' = [inbox EXCEPT ![c] = Tail(@)]
    /\ UNCHANGED <<serverVars, networkVars, subVars, playerVars, requests>>

SyncCopy(c) ==
    /\ SyncKind(c, "copy")
    /\ view' = [view EXCEPT ![c] = Head(inbox[c]).state]
    /\ syncRequired' = [syncRequired EXCEPT ![c] = FALSE]
    /\ heard' = heard \cup {c}

SyncTick(c) ==
    /\ SyncKind(c, "tick")
    /\ view' = IF syncRequired[c] THEN view
               ELSE [view EXCEPT ![c] = @ \cup {Head(inbox[c]).update}]
    /\ UNCHANGED <<syncRequired, heard>>

(* Engine::react: a change is applied here, then sent.                     *)
IssueChange(c, o) ==
    /\ c \in connected
    /\ Owner[o] = c /\ o \notin issued
    /\ issued' = issued \cup {o}
    /\ view' = [view EXCEPT ![c] = @ \cup {o}]
    /\ requests' = [requests EXCEPT ![c] = Append(@, Change(o))]
    /\ UNCHANGED <<serverVars, networkVars, inbox, heard, subVars, connected, saved, loads,
                   syncRequired>>

(* MakeASave, LoadFromSave.                                                *)
MakeASave(c) ==
    /\ c \in connected
    /\ loads < MaxLoads
    /\ saved' = [saved EXCEPT ![c] = Copy(view[c])]
    /\ UNCHANGED <<serverVars, networkVars, engineVars, subVars, connected, issued,
                   loads, requests, syncRequired>>

LoadFromSave(c) ==
    /\ c \in connected
    /\ loads < MaxLoads
    /\ loads' = loads + 1
    /\ requests' = [requests EXCEPT ![c] = Append(@, SetBattleState(saved[c]))]
    /\ UNCHANGED <<serverVars, networkVars, engineVars, subVars, connected, issued,
                   saved, syncRequired>>

(* Nothing under way and the bounds used up: the model has no more to do.  *)
Quiet ==
    /\ outbox = <<>>
    /\ \A c \in Client :
         inbox[c] = <<>> /\ link[c] = <<>> /\ requests[c] = <<>> /\ handled[c] = 0

Finished ==
    /\ Quiet /\ ticks = MaxTicks
    /\ connected = Client /\ subscribed = Remote
    /\ UNCHANGED vars

-----------------------------------------------------------------------------

Serve(c) == ServeSync(c) \/ ServeChange(c) \/ ServeLoad(c)
Sync(c)  == SyncCopy(c) \/ SyncTick(c)
Player(c) ==
    \/ MakeASave(c) \/ LoadFromSave(c)
    \/ \E o \in Order : IssueChange(c, o)

Next ==
    \/ Tick \/ Publish \/ Finished
    \/ \E c \in Client :
         \/ Connect(c) \/ Subscribe(c) \/ Serve(c)
         \/ Receive(c) \/ Check(c) \/ Sync(c) \/ Player(c)

(* The runner ticks, each thread and each frame of a GUI comes round, and  *)
(* zmq gets subscriptions across.  Players and new clients do what they    *)
(* want.                                                                   *)
Fairness ==
    /\ WF_vars(Tick) /\ WF_vars(Publish)
    /\ \A c \in Client :
         /\ WF_vars(Subscribe(c)) /\ WF_vars(Serve(c))
         /\ WF_vars(Receive(c)) /\ WF_vars(Check(c)) /\ WF_vars(Sync(c))

Spec == Init /\ [][Next]_vars
FairSpec == Spec /\ Fairness

-----------------------------------------------------------------------------
(* Properties.                                                             *)

Envelope == [id : 1..pubCounter, messages : Output]

TypeOK ==
    /\ server \subseteq Update /\ ticks \in 0..MaxTicks
    /\ outbox \in Seq(Output) /\ pubCounter \in Nat
    /\ subscribed \subseteq connected \ Host /\ connected \subseteq Client
    /\ link \in [Client -> Seq(Envelope)]
    /\ requests \in [Client -> Seq(Input)]
    /\ view \in [Client -> SUBSET Update]
    /\ syncRequired \in [Client -> BOOLEAN]
    /\ inbox \in [Client -> Seq(Output)]
    /\ handled \in [Client -> 0..pubCounter]
    /\ lastCounter \in [Client -> 0..pubCounter]
    /\ heard \subseteq Client
    /\ issued \subseteq Order
    /\ saved \in [Client -> SUBSET Update]
    /\ loads \in 0..MaxLoads

(* The messages already under way to a client, in order, and the state it  *)
(* would have after them if no more of them were lost: from the last copy  *)
(* among them, if any, all the ticks that follow.                          *)
UnderWay(c) ==
    inbox[c] \o [i \in DOMAIN link[c] |-> link[c][i].messages] \o outbox

CopiesIn(m) == {i \in DOMAIN m : m[i].kind = "copy"}
LastCopy(m) == CHOOSE i \in CopiesIn(m) : \A j \in CopiesIn(m) : j <= i
TicksAfter(m, n) == {m[i].update : i \in {j \in DOMAIN m : j > n /\ m[j].kind = "tick"}}

(* What messages m make of a state S, for a client that ignores the ticks  *)
(* before the first copy or does not.                                      *)
Outcome(m, S, deaf) ==
    IF CopiesIn(m) # {} THEN m[LastCopy(m)].state \cup TicksAfter(m, LastCopy(m))
    ELSE IF deaf THEN S
    ELSE S \cup TicksAfter(m, 0)

Foreseen(c) == Outcome(UnderWay(c), view[c], syncRequired[c])

WillListen(c) == ~syncRequired[c] \/ CopiesIn(UnderWay(c)) # {}

(* The ids the SUB thread knows or is to see; that of the next envelope    *)
(* will follow them.                                                       *)
IdsKnown(c) ==
    <<lastCounter[c]>> \o (IF handled[c] = 0 THEN <<>> ELSE <<handled[c]>>)
        \o [i \in DOMAIN link[c] |-> link[c][i].id]

HasGap(ids) == \E i \in 1..(Len(ids) - 1) : Gap(ids[i], ids[i + 1])

LossAhead(c) == c \in Remote /\ HasGap(Append(IdsKnown(c), pubCounter + 1))

CopyRequested(c) ==
    \E i \in DOMAIN requests[c] : requests[c][i] = RequireCompleteSync

(* Whatever is lost, whenever a copy overtakes the detection of a loss or  *)
(* clears the flag a loss has just raised, the divergence of a client from *)
(* the ticks of the server is never forgotten: the ids will show it, or a  *)
(* copy is asked for, or what is under way brings the client there.  The   *)
(* exception is a client deaf since it started, its subscription having    *)
(* come after the copy it asked for: it is deaf until the next loss.  What *)
(* the server alone makes of a tick is nobody's loss, and not repaired.    *)
RepairUnderWay ==
    \A c \in connected :
        \/ LossAhead(c)
        \/ CopyRequested(c)
        \/ IF WillListen(c) THEN Foreseen(c) \cap Ticks = server \cap Ticks
                            ELSE c \in Remote \ heard

(* ... and to nothing the server has not, but for the changes of its own   *)
(* player that are on their way: an order that a save undid does not       *)
(* survive on a client.                                                    *)
Changes(c) == {requests[c][i].order : i \in {j \in DOMAIN requests[c] :
                                                requests[c][j].kind = "change"}}

NothingInvented ==
    \A c \in connected :
        LossAhead(c) \/ CopyRequested(c) \/ ~WillListen(c)
            \/ Foreseen(c) \subseteq server \cup Changes(c)

(* The invariant behind the two: nothing of the network is under way to a  *)
(* host; a remote client that no envelope has reached knows nothing; and   *)
(* the repair, for the clients that will listen and for the others.        *)
HostsUseTheChannel ==
    \A c \in Host : link[c] = <<>> /\ handled[c] = 0

Reached(c) == lastCounter[c] # 0 \/ handled[c] # 0 \/ link[c] # <<>>

UnreachedKnowNothing ==
    \A c \in Remote : ~Reached(c) => syncRequired[c] /\ inbox[c] = <<>> /\ c \notin heard

ListenersFollow ==
    \A c \in connected :
        \/ LossAhead(c) \/ CopyRequested(c) \/ ~WillListen(c)
        \/ Foreseen(c) \cap Ticks = server \cap Ticks

DeafOnesAsk ==
    \A c \in connected \ (Remote \ heard) :
        LossAhead(c) \/ CopyRequested(c) \/ WillListen(c)

SyncInv ==
    /\ TypeOK
    /\ HostsUseTheChannel /\ UnreachedKnowNothing
    /\ ListenersFollow /\ DeafOnesAsk /\ NothingInvented

(* When losses have ended, each client that heard the server once, by a    *)
(* copy or by a loss it noticed, ends with the ticks of the server and     *)
(* needs no copy.                                                          *)
Follows(c) == ~syncRequired[c] /\ view[c] \cap Ticks = server \cap Ticks

Converges == \A c \in Client : (c \in heard) ~> [](ticks = MaxTicks => Follows(c))

(* "Then, the RequireCompleteSync permit client to be same state than      *)
(* server" (run.rs): a client that has started is at last given the copy   *)
(* that it asked for. False: a copy published before the subscription      *)
(* arrives reaches nobody, the first envelope that does come has no        *)
(* earlier id to be compared with (client.rs:166), and nothing asks again. *)
FirstCopyComes == \A c \in Client : (c \in connected) ~> ~syncRequired[c]

(* "permit client to be same state than server": a client with nothing     *)
(* left to send, receive or repair has the state of the server, changes    *)
(* of the players included.                                                *)
SameStateThanServer ==
    Quiet => \A c \in connected : LossAhead(c) \/ syncRequired[c] \/ view[c] = server

=============================================================================
