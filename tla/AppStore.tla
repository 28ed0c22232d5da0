------------------------------ MODULE AppStore ------------------------------
(***************************************************************************)
(* The Elm-style store of the application (App/UI/TEA) with the workspace  *)
(* view that feeds and renders it.  A message is handled on the store's    *)
(* serial queue: a pure function makes the next state and its commands, a  *)
(* command runs on a concurrent queue and answers with messages, and every *)
(* handled message sends the state it made to the main queue, where the    *)
(* view renders it.                                                        *)
(*                                                                         *)
(* Of the data of the state only what a handler tells apart is kept:       *)
(* whether channels and repositories are there, and how far a host and a   *)
(* peer have synchronised; which workspace is shown is not.  The rooms and *)
(* the feed stay empty for ever: SRMsg.m:84 drops the rooms it is given,   *)
(* and the copy that would store a feed is declared and not implemented.   *)
(***************************************************************************)
EXTENDS Naturals, Sequences, Bags

CONSTANTS
    Hosts,      \* the rooms the user has joined
    Peers,      \* the peers whose synchronisation is reported
    None,       \* no room
    MaxEvents,  \* how many events come from outside, a bound of the model
    MaxLag      \* how many renderings wait at most, a bound of the model

ASSUME Outside == None \notin Hosts /\ {MaxEvents, MaxLag} \subseteq Nat

VARIABLES
    queue,      \* the blocks of the store's serial queue
    effects,    \* the commands started and not finished, a bag
    main,       \* the renderings waiting on the main queue
    state,      \* the state the store holds
    subscribed, \* the view's callback is among the subscribers
    shown,      \* the state the view rendered last
    running,    \* the process has not ended in an exception
    events      \* how many events have come from outside

vars == <<queue, effects, main, state, subscribed, shown, running, events>>

LoadingStates == {"Idle", "Loading", "Loaded", "Error"}
Statuses == {"Disconnected", "Connecting"}
Syncs == {"Disconnected", "Syncing", "Ready"}

-----------------------------------------------------------------------------
(* Messages.  Each set is one section of the constructors.                 *)

WorkspaceMsgs == [type : {"SetWorkspaceContext", "SelectDestination"}]
RoomMsgs == [type : {"LoadRooms", "RoomsLoaded"}]
                \union [type : {"SelectRoom", "RoomAttendantsUpdated"}, host : Hosts]
                \union [type : {"RoomStatusChanged"}, host : Hosts, status : Statuses]
                \union [type : {"RoomSyncStatusUpdated"}, host : Hosts, sync : Syncs]
FeedMsgs == [type : {"LoadFeed", "FeedLoaded"}, host : Hosts]
                \union [type : {"PublishMessage", "MessagePublished", "PublishFailed"}]
PeerMsgs == [type : {"PeerSyncStatusChanged"}, peer : Peers, sync : Syncs]
LoadedMsgs == [type : {"GitReposLoaded", "ChannelsLoaded"}]
LifecycleMsgs == [type : {"AppDidFinishLaunching"}]

Messages == WorkspaceMsgs \union RoomMsgs \union FeedMsgs \union PeerMsgs
                \union LoadedMsgs \union LifecycleMsgs

Msg(type) == [type |-> type]
MsgOf(type, host) == [type |-> type, host |-> host]

(* Commands.  "FeedAfterPublish" is the rest of a publication: what runs   *)
(* after its answer has been dispatched.                                   *)
Commands == [type : {"LoadRooms", "LoadGitRepos", "LoadChannels",
                     "PublishMessage", "FeedAfterPublish"}]
                \union [type : {"ConnectRoom", "LoadFeed"}, host : Hosts]

(* What a block of the serial queue does: handle a message, dispatch one   *)
(* to the end of the queue, or add the subscriber.                         *)
Handle(msg) == [does |-> "Handle", msg |-> msg]
Forward(msg) == [does |-> "Forward", msg |-> msg]
ForwardFeed == [does |-> "ForwardFeed"]
Subscribe == [does |-> "Subscribe"]

-----------------------------------------------------------------------------
(* The state and its copies.  The key of a feed's load is its host.        *)

Keys == {"rooms", "publish"} \union Hosts

AppModels == [host : Hosts \union {None},
              status : [Hosts -> Statuses], sync : [Hosts -> Syncs],
              peers : [Peers -> Syncs], repos : BOOLEAN, channels : BOOLEAN,
              loading : LoadingStates, loads : SUBSET Keys, error : BOOLEAN]

InitialModel ==
    [host |-> None,
     status |-> [h \in Hosts |-> "Disconnected"], sync |-> [h \in Hosts |-> "Disconnected"],
     peers |-> [p \in Peers |-> "Disconnected"], repos |-> FALSE, channels |-> FALSE,
     loading |-> "Idle", loads |-> {}, error |-> FALSE]

(* Changing the workspace also ends the loading of the current feed.       *)
CopyWithWorkspace(m) == [m EXCEPT !.loading = "Loaded", !.loads = @ \ {m.host}]

CopyWithSelectedRoom(m, host) == [m EXCEPT !.host = host]
CopyWithRoomStatus(m, host, status) == [m EXCEPT !.status[host] = status]
CopyWithRoomSyncStatus(m, host, sync) == [m EXCEPT !.sync[host] = sync]
CopyWithPeerUpdate(m, peer, sync) == [m EXCEPT !.peers[peer] = sync]
CopyWithChannels(m) == [m EXCEPT !.channels = TRUE]
CopyWithGitRepos(m) == [m EXCEPT !.repos = TRUE, !.loading = "Loaded"]

(* These three leave the channels out of the copy.                         *)
CopyWithLoading(m, key) ==
    [m EXCEPT !.loading = "Loading", !.loads = @ \union {key}, !.channels = FALSE]
CopyWithError(m) ==
    [m EXCEPT !.loading = "Error", !.loads = {}, !.error = TRUE, !.channels = FALSE]
CopyWithClearError(m) ==
    [m EXCEPT !.loading = "Idle", !.error = FALSE, !.channels = FALSE]

-----------------------------------------------------------------------------
(* The pure function.                                                      *)

(* Three updates raise: the copies for a destination and for a feed are    *)
(* not implemented, and the key of the current feed cannot be made without *)
(* a current room once some load is active.                                *)
Raises(m, msg) ==
    \/ msg.type \in {"SelectDestination", "FeedLoaded"}
    \/ msg.type = "SetWorkspaceContext" /\ m.loads # {} /\ m.host = None

Result(model, commands) == [model |-> model, commands |-> commands]

RoomsLoadedUnchained(m) == Result(m, {})  \* mutant of RoomsLoaded
RoomsLoaded(m) == Result(m, {Msg("LoadGitRepos")})

Update(m, msg) ==
    CASE msg.type = "SetWorkspaceContext" -> Result(CopyWithWorkspace(m), {})
      [] msg.type = "LoadRooms" -> Result(CopyWithLoading(m, "rooms"), {Msg("LoadRooms")})
      [] msg.type = "RoomsLoaded" -> RoomsLoaded(m)
      [] msg.type = "SelectRoom" ->
             Result(CopyWithSelectedRoom(m, msg.host), {MsgOf("ConnectRoom", msg.host)})
      [] msg.type = "RoomStatusChanged" ->
             Result(CopyWithRoomStatus(m, msg.host, msg.status), {})
      [] msg.type = "RoomSyncStatusUpdated" ->
             Result(CopyWithRoomSyncStatus(m, msg.host, msg.sync), {})
      [] msg.type = "LoadFeed" ->
             Result(CopyWithLoading(m, msg.host), {MsgOf("LoadFeed", msg.host)})
      [] msg.type = "PublishMessage" ->
             Result(CopyWithLoading(m, "publish"), {Msg("PublishMessage")})
      [] msg.type = "MessagePublished" -> Result(CopyWithClearError(m), {})
      [] msg.type = "PublishFailed" -> Result(CopyWithError(m), {})
      [] msg.type = "PeerSyncStatusChanged" ->
             Result(CopyWithPeerUpdate(m, msg.peer, msg.sync), {})
      [] msg.type = "GitReposLoaded" -> Result(CopyWithGitRepos(m), {})
      [] msg.type = "ChannelsLoaded" -> Result(CopyWithChannels(m), {})
      [] msg.type = "AppDidFinishLaunching" ->
             Result(m, {Msg("LoadRooms"), Msg("LoadChannels"), Msg("LoadGitRepos")})
      [] msg.type = "RoomAttendantsUpdated" -> Result(m, {})

-----------------------------------------------------------------------------
(* The view subscribes, then the store starts.                             *)
Init ==
    /\ queue = <<Subscribe, Handle(Msg("AppDidFinishLaunching"))>>
    /\ effects = EmptyBag
    /\ main = <<>>
    /\ state = InitialModel
    /\ subscribed = FALSE
    /\ shown = InitialModel
    /\ running = TRUE
    /\ events = 0

Dispatch(blocks) == queue' = queue \o blocks

(* What waits on the main queue: a rendering of the state captured when it *)
(* was sent, or one of the state that the store holds when it runs.        *)
Captured(model) == <<model>>
Late == <<>>

(* The serial queue.                                                       *)

Block(does) == running /\ queue # <<>> /\ Head(queue).does = does

AddSubscriber ==
    /\ Block("Subscribe")
    /\ subscribed' = TRUE
    /\ main' = Append(main, Late)
    /\ queue' = Tail(queue)
    /\ UNCHANGED <<effects, state, shown, running, events>>

(* What a handled message sends to the main queue: the state it made.      *)
Notify(model) == IF subscribed THEN Append(main, Captured(model)) ELSE main

\* Mutants of HandleMessage: the rendering reads the state when it runs, or
\* captures the one from before the message.
HandleMessageReadingLate ==
    /\ Block("Handle")
    /\ Len(main) < MaxLag
    /\ LET msg == Head(queue).msg
           result == Update(state, msg)
       IN  /\ ~Raises(state, msg)
           /\ state' = result.model
           /\ effects' = effects (+) SetToBag(result.commands)
           /\ main' = IF subscribed THEN Append(main, Late) ELSE main
    /\ queue' = Tail(queue)
    /\ UNCHANGED <<subscribed, shown, running, events>>
HandleMessageCapturingEarly ==
    /\ Block("Handle")
    /\ Len(main) < MaxLag
    /\ LET msg == Head(queue).msg
           result == Update(state, msg)
       IN  /\ ~Raises(state, msg)
           /\ state' = result.model
           /\ effects' = effects (+) SetToBag(result.commands)
           /\ main' = Notify(state)
    /\ queue' = Tail(queue)
    /\ UNCHANGED <<subscribed, shown, running, events>>

HandleMessage ==
    /\ Block("Handle")
    /\ Len(main) < MaxLag
    /\ LET msg == Head(queue).msg
           result == Update(state, msg)
       IN  /\ ~Raises(state, msg)
           /\ state' = result.model
           /\ effects' = effects (+) SetToBag(result.commands)
           /\ main' = Notify(result.model)
    /\ queue' = Tail(queue)
    /\ UNCHANGED <<subscribed, shown, running, events>>

(* Nothing catches an exception on the store's queue: the process ends.    *)
EndInException ==
    /\ Block("Handle")
    /\ Raises(state, Head(queue).msg)
    /\ running' = FALSE
    /\ UNCHANGED <<queue, effects, main, state, subscribed, shown, events>>

ForwardMessage ==
    /\ Block("Forward")
    /\ queue' = Append(Tail(queue), Handle(Head(queue).msg))
    /\ UNCHANGED <<effects, main, state, subscribed, shown, running, events>>

(* The message that reloads the feed of the current room, if there is one. *)
ReloadFeed(host) == IF host = None THEN <<>> ELSE <<Handle(MsgOf("LoadFeed", host))>>

ForwardNewMessage ==
    /\ Block("ForwardFeed")
    /\ queue' = Tail(queue) \o ReloadFeed(state.host)
    /\ UNCHANGED <<effects, main, state, subscribed, shown, running, events>>

QueueStep == AddSubscriber \/ HandleMessage \/ EndInException \/ ForwardMessage \/ ForwardNewMessage

(* The main queue.                                                         *)
Render ==
    /\ running /\ main # <<>>
    /\ shown' = IF Head(main) = Late THEN state ELSE Head(main)[1]
    /\ main' = Tail(main)
    /\ UNCHANGED <<queue, effects, state, subscribed, running, events>>

-----------------------------------------------------------------------------
(* The concurrent queue: any command that has started may run.             *)

Run(cmd, messages, rest) ==
    /\ running
    /\ BagIn(cmd, effects)
    /\ effects' = (effects (-) SetToBag({cmd})) (+) SetToBag(rest)
    /\ Dispatch(messages)
    /\ UNCHANGED <<main, state, subscribed, shown, running, events>>

LoadRooms == Run(Msg("LoadRooms"), <<Handle(Msg("RoomsLoaded"))>>, {})
LoadGitRepos == Run(Msg("LoadGitRepos"), <<Handle(Msg("GitReposLoaded"))>>, {})
LoadChannels == Run(Msg("LoadChannels"), <<Handle(Msg("ChannelsLoaded"))>>, {})

ConnectRoom(h) ==
    Run(MsgOf("ConnectRoom", h),
        <<Handle([type |-> "RoomStatusChanged", host |-> h, status |-> "Connecting"])>>, {})

LoadFeed(h) == Run(MsgOf("LoadFeed", h), <<Handle(MsgOf("FeedLoaded", h))>>, {})

(* Without a client, or when the client answers an error.                  *)
PublishFails == Run(Msg("PublishMessage"), <<Handle(Msg("PublishFailed"))>>, {})

(* The answer is dispatched; the current room is read only after that, on  *)
(* this queue.                                                             *)
Publish ==
    Run(Msg("PublishMessage"), <<Handle(Msg("MessagePublished"))>>, {Msg("FeedAfterPublish")})

FeedAfterPublish == Run(Msg("FeedAfterPublish"), ReloadFeed(state.host), {})

CommandStep ==
    \/ LoadRooms \/ LoadGitRepos \/ LoadChannels
    \/ PublishFails \/ Publish \/ FeedAfterPublish
    \/ \E h \in Hosts : ConnectRoom(h) \/ LoadFeed(h)

-----------------------------------------------------------------------------
(* What the user does and what the room manager reports, on the main       *)
(* thread.  A change of a room's connection is reported too, under a key   *)
(* the handler does not read: it returns at once.                          *)

Event(blocks) ==
    /\ running /\ events < MaxEvents
    /\ events' = events + 1
    /\ Dispatch(blocks)
    /\ UNCHANGED <<effects, main, state, subscribed, shown, running>>

SelectContext == Event(<<Handle(Msg("SetWorkspaceContext"))>>)
SelectDestination == Event(<<Handle(Msg("SelectDestination"))>>)
SelectRoom(h) == Event(<<Handle(MsgOf("SelectRoom", h))>>)
RoomsDidUpdate == Event(<<Handle(Msg("LoadRooms"))>>)
Compose == Event(<<Handle(Msg("PublishMessage"))>>)

NewMessageArrives == Event(<<ForwardFeed>>)
EndpointsChange(h) == Event(<<Forward(MsgOf("RoomAttendantsUpdated", h))>>)

(* Progress is reported for the room, and at its end for a peer as well.   *)
RoomSyncs(h) ==
    Event(<<Forward([type |-> "RoomSyncStatusUpdated", host |-> h, sync |-> "Syncing"])>>)
PeerSyncs(h, p) ==
    Event(<<Forward([type |-> "RoomSyncStatusUpdated", host |-> h, sync |-> "Ready"]),
            Forward([type |-> "PeerSyncStatusChanged", peer |-> p, sync |-> "Ready"])>>)

Outsider ==
    \/ SelectContext \/ SelectDestination \/ RoomsDidUpdate
    \/ Compose \/ NewMessageArrives
    \/ \E h \in Hosts : SelectRoom(h) \/ EndpointsChange(h) \/ RoomSyncs(h)
    \/ \E h \in Hosts, p \in Peers : PeerSyncs(h, p)

Next == QueueStep \/ Render \/ CommandStep \/ Outsider

Spec == Init /\ [][Next]_vars

(* A dispatch queue runs every block put on it; nothing makes a user act.  *)
FairSpec == Spec /\ WF_vars(QueueStep) /\ WF_vars(Render) /\ WF_vars(CommandStep)

-----------------------------------------------------------------------------
Blocks == [does : {"Handle", "Forward"}, msg : Messages]
              \union [does : {"ForwardFeed", "Subscribe"}]

(* Every block, command and state is one the store can hold.               *)
TypeOK ==
    /\ queue \in Seq(Blocks)
    /\ BagToSet(effects) \subseteq Commands
    /\ main \in Seq({Late} \union {Captured(m) : m \in AppModels})
    /\ state \in AppModels /\ shown \in AppModels
    /\ subscribed \in BOOLEAN /\ running \in BOOLEAN
    /\ events \in 0..MaxEvents

(* Once every rendering sent to the main queue has run, the view shows the *)
(* state the store holds: a subscriber that reads the state late, when the *)
(* states of earlier messages still wait behind it, does not leave an      *)
(* older one on the screen (SRStore.m subscribe and dispatch).             *)
ShownIsCurrent == subscribed /\ main = <<>> => shown = state

(* A loading state ends: whatever the order in which messages, commands    *)
(* and reloads interleave, the commands a loading state was entered for    *)
(* lead to a message that leaves it (SRUpdate.m).                          *)
LoadingEnds == state.loading = "Loading" ~> (state.loading # "Loading" \/ ~running)

FailureHandled ==
    running /\ queue # <<>> /\ Head(queue) = Handle(Msg("PublishFailed"))

(* A failed publication reaches the screen even if the next message clears *)
(* the error before the main queue gets to render it (SRStore.m dispatch   *)
(* captures the state it sends).                                           *)
FailuresShown == FailureHandled ~> (shown.error \/ ~running)
=============================================================================
