---------------------------- MODULE AppStoreProofs ----------------------------
(***************************************************************************)
(* Theorems about AppStore, for every set of rooms and peers, any number of *)
(* events, and a main queue that lags behind as far as it likes.           *)
(***************************************************************************)
EXTENDS AppStore, SequenceTheorems, TLAPS

(* A copy of a model with another value in one field is a model.            *)
LEMMA OneField ==
    ASSUME NEW m \in AppModels
    PROVE  /\ \A x \in Hosts \union {None} : [m EXCEPT !.host = x] \in AppModels
           /\ \A x \in [Hosts -> Statuses] : [m EXCEPT !.status = x] \in AppModels
           /\ \A x \in [Hosts -> Syncs] : [m EXCEPT !.sync = x] \in AppModels
           /\ \A x \in [Peers -> Syncs] : [m EXCEPT !.peers = x] \in AppModels
           /\ \A x \in BOOLEAN : [m EXCEPT !.repos = x] \in AppModels
           /\ \A x \in BOOLEAN : [m EXCEPT !.channels = x] \in AppModels
           /\ \A x \in LoadingStates : [m EXCEPT !.loading = x] \in AppModels
           /\ \A x \in SUBSET Keys : [m EXCEPT !.loads = x] \in AppModels
           /\ \A x \in BOOLEAN : [m EXCEPT !.error = x] \in AppModels
BY DEF AppModels

(* The fields of a model have their types. *)
LEMMA FieldsOf ==
    ASSUME NEW m \in AppModels
    PROVE  /\ m.status \in [Hosts -> Statuses] /\ m.sync \in [Hosts -> Syncs]
           /\ m.peers \in [Peers -> Syncs] /\ m.loads \subseteq Keys
           /\ m.host \in Hosts \union {None}
BY DEF AppModels

(* Every copyWith... method returns a model. *)
LEMMA CopiesAreModels ==
    ASSUME NEW m \in AppModels
    PROVE  /\ CopyWithWorkspace(m) \in AppModels
           /\ \A h \in Hosts : CopyWithSelectedRoom(m, h) \in AppModels
           /\ \A h \in Hosts, x \in Statuses : CopyWithRoomStatus(m, h, x) \in AppModels
           /\ \A h \in Hosts, x \in Syncs : CopyWithRoomSyncStatus(m, h, x) \in AppModels
           /\ \A p \in Peers, x \in Syncs : CopyWithPeerUpdate(m, p, x) \in AppModels
           /\ CopyWithChannels(m) \in AppModels
           /\ CopyWithGitRepos(m) \in AppModels
           /\ \A k \in Keys : CopyWithLoading(m, k) \in AppModels
           /\ CopyWithError(m) \in AppModels
           /\ CopyWithClearError(m) \in AppModels
<1> DEFINE at(l) == [m EXCEPT !.loading = l]
<1>0. \A l \in LoadingStates : at(l) \in AppModels
  BY OneField
<1>1. /\ "Loaded" \in LoadingStates /\ "Loading" \in LoadingStates
      /\ "Error" \in LoadingStates /\ "Idle" \in LoadingStates
  BY DEF LoadingStates
<1> HIDE DEF at
<1>2. CopyWithWorkspace(m) \in AppModels
  <2>1. CopyWithWorkspace(m) = [at("Loaded") EXCEPT !.loads = m.loads \ {m.host}]
    BY DEF CopyWithWorkspace, at
  <2>2. m.loads \ {m.host} \in SUBSET Keys
    BY FieldsOf
  <2> QED BY <1>0, <1>1, <2>1, <2>2, OneField
<1>3. \A h \in Hosts : CopyWithSelectedRoom(m, h) \in AppModels
  BY OneField DEF CopyWithSelectedRoom
<1>4. ASSUME NEW h \in Hosts, NEW x \in Statuses
      PROVE  CopyWithRoomStatus(m, h, x) \in AppModels
  <2>1. [m.status EXCEPT ![h] = x] \in [Hosts -> Statuses]
    BY FieldsOf
  <2>2. CopyWithRoomStatus(m, h, x) = [m EXCEPT !.status = [m.status EXCEPT ![h] = x]]
    BY DEF CopyWithRoomStatus
  <2> QED BY <2>1, <2>2, OneField
<1>5. ASSUME NEW h \in Hosts, NEW x \in Syncs
      PROVE  CopyWithRoomSyncStatus(m, h, x) \in AppModels
  <2>1. [m.sync EXCEPT ![h] = x] \in [Hosts -> Syncs]
    BY FieldsOf
  <2>2. CopyWithRoomSyncStatus(m, h, x) = [m EXCEPT !.sync = [m.sync EXCEPT ![h] = x]]
    BY DEF CopyWithRoomSyncStatus
  <2> QED BY <2>1, <2>2, OneField
<1>6. ASSUME NEW p \in Peers, NEW x \in Syncs
      PROVE  CopyWithPeerUpdate(m, p, x) \in AppModels
  <2>1. [m.peers EXCEPT ![p] = x] \in [Peers -> Syncs]
    BY FieldsOf
  <2>2. CopyWithPeerUpdate(m, p, x) = [m EXCEPT !.peers = [m.peers EXCEPT ![p] = x]]
    BY DEF CopyWithPeerUpdate
  <2> QED BY <2>1, <2>2, OneField
<1>7. CopyWithChannels(m) \in AppModels
  BY OneField DEF CopyWithChannels
<1>8. CopyWithGitRepos(m) \in AppModels
  <2> DEFINE u == [m EXCEPT !.repos = TRUE]
  <2>1. u \in AppModels
    BY OneField
  <2>2. CopyWithGitRepos(m) = [u EXCEPT !.loading = "Loaded"]
    BY DEF CopyWithGitRepos
  <2> HIDE DEF u
  <2> QED BY <1>1, <2>1, <2>2, OneField
<1>9. ASSUME NEW k \in Keys PROVE CopyWithLoading(m, k) \in AppModels
  <2> DEFINE u == [at("Loading") EXCEPT !.loads = m.loads \union {k}]
  <2>1. m.loads \union {k} \in SUBSET Keys
    BY FieldsOf
  <2>2. u \in AppModels
    BY <1>0, <1>1, <2>1, OneField
  <2>3. CopyWithLoading(m, k) = [u EXCEPT !.channels = FALSE]
    BY DEF CopyWithLoading, at
  <2> HIDE DEF u
  <2> QED BY <2>2, <2>3, OneField
<1>10. CopyWithError(m) \in AppModels
  <2> DEFINE u == [at("Error") EXCEPT !.loads = {}]
             v == [u EXCEPT !.error = TRUE]
  <2>1. u \in AppModels
    BY <1>0, <1>1, OneField
  <2>2. CopyWithError(m) = [v EXCEPT !.channels = FALSE]
    BY DEF CopyWithError, at
  <2> HIDE DEF u
  <2>3. v \in AppModels
    BY <2>1, OneField
  <2> HIDE DEF v
  <2> QED BY <2>2, <2>3, OneField
<1>11. CopyWithClearError(m) \in AppModels
  <2> DEFINE u == [at("Idle") EXCEPT !.error = FALSE]
  <2>1. u \in AppModels
    BY <1>0, <1>1, OneField
  <2>2. CopyWithClearError(m) = [u EXCEPT !.channels = FALSE]
    BY DEF CopyWithClearError, at
  <2> HIDE DEF u
  <2> QED BY <2>1, <2>2, OneField
<1> QED BY <1>2, <1>3, <1>4, <1>5, <1>6, <1>7, <1>8, <1>9, <1>10, <1>11

-----------------------------------------------------------------------------
(* What a message carries, by its type. *)
LEMMA MessageShapes ==
    ASSUME NEW msg \in Messages
    PROVE  /\ msg.type \in
                 {"SetWorkspaceContext", "SelectDestination", "LoadRooms", "RoomsLoaded",
                  "SelectRoom", "RoomAttendantsUpdated", "RoomStatusChanged",
                  "RoomSyncStatusUpdated", "LoadFeed", "FeedLoaded", "PublishMessage",
                  "MessagePublished", "PublishFailed", "PeerSyncStatusChanged",
                  "GitReposLoaded", "ChannelsLoaded", "AppDidFinishLaunching"}
           /\ msg.type \in {"SelectRoom", "RoomStatusChanged", "RoomSyncStatusUpdated",
                            "LoadFeed"} => msg.host \in Hosts
           /\ msg.type = "RoomStatusChanged" => msg.status \in Statuses
           /\ msg.type \in {"RoomSyncStatusUpdated", "PeerSyncStatusChanged"} =>
                 msg.sync \in Syncs
           /\ msg.type = "PeerSyncStatusChanged" => msg.peer \in Peers
BY DEF Messages, WorkspaceMsgs, RoomMsgs, FeedMsgs, PeerMsgs, LoadedMsgs, LifecycleMsgs

(* The commands that updates return are commands of the store. *)
LEMMA CommandsAre ==
    /\ {Msg("LoadRooms"), Msg("LoadGitRepos"), Msg("LoadChannels"),
        Msg("PublishMessage"), Msg("FeedAfterPublish")} \subseteq Commands
    /\ \A h \in Hosts : {MsgOf("ConnectRoom", h), MsgOf("LoadFeed", h)} \subseteq Commands
BY DEF Commands, Msg, MsgOf

(* updateWithModel:msg: returns a model and commands, unless it raises. *)
LEMMA UpdateTypes ==
    ASSUME NEW m \in AppModels, NEW msg \in Messages, ~Raises(m, msg)
    PROVE  /\ Update(m, msg).model \in AppModels
           /\ Update(m, msg).commands \subseteq Commands
<1> DEFINE good(r) == r.model \in AppModels /\ r.commands \subseteq Commands
<1>1. \A x \in AppModels, C \in SUBSET Commands : good(Result(x, C))
  BY DEF Result
<1>2. {} \in SUBSET Commands
  OBVIOUS
<1>3. {"rooms", "publish"} \subseteq Keys /\ Hosts \subseteq Keys
  BY DEF Keys
<1>4. msg.type \notin {"SelectDestination", "FeedLoaded"}
  BY DEF Raises
<1>5. good(RoomsLoaded(m))
  BY <1>1, CommandsAre DEF RoomsLoaded
<1> HIDE DEF good
<1>6. CASE msg.type \in {"SetWorkspaceContext", "LoadRooms", "RoomsLoaded", "SelectRoom"}
  <2>1. good(Result(CopyWithWorkspace(m), {}))
    BY <1>1, <1>2, CopiesAreModels
  <2>2. good(Result(CopyWithLoading(m, "rooms"), {Msg("LoadRooms")}))
    BY <1>1, <1>3, CommandsAre, CopiesAreModels
  <2>3. ASSUME msg.host \in Hosts
        PROVE  good(Result(CopyWithSelectedRoom(m, msg.host), {MsgOf("ConnectRoom", msg.host)}))
    BY <1>1, <2>3, CommandsAre, CopiesAreModels
  <2>4. good(Update(m, msg))
    BY <1>5, <1>6, <2>1, <2>2, <2>3, MessageShapes DEF Update
  <2> QED BY <2>4 DEF good
<1>7. CASE msg.type \in {"RoomStatusChanged", "RoomSyncStatusUpdated", "LoadFeed",
                        "PeerSyncStatusChanged"}
  <2>1. ASSUME msg.host \in Hosts, msg.status \in Statuses
        PROVE  good(Result(CopyWithRoomStatus(m, msg.host, msg.status), {}))
    BY <1>1, <1>2, <2>1, CopiesAreModels
  <2>2. ASSUME msg.host \in Hosts, msg.sync \in Syncs
        PROVE  good(Result(CopyWithRoomSyncStatus(m, msg.host, msg.sync), {}))
    BY <1>1, <1>2, <2>2, CopiesAreModels
  <2>3. ASSUME msg.host \in Hosts
        PROVE  good(Result(CopyWithLoading(m, msg.host), {MsgOf("LoadFeed", msg.host)}))
    BY <1>1, <1>3, <2>3, CommandsAre, CopiesAreModels
  <2>4. ASSUME msg.peer \in Peers, msg.sync \in Syncs
        PROVE  good(Result(CopyWithPeerUpdate(m, msg.peer, msg.sync), {}))
    BY <1>1, <1>2, <2>4, CopiesAreModels
  <2>5. good(Update(m, msg))
    BY <1>7, <2>1, <2>2, <2>3, <2>4, MessageShapes DEF Update
  <2> QED BY <2>5 DEF good
<1>8. CASE msg.type \in {"PublishMessage", "MessagePublished", "PublishFailed", "GitReposLoaded"}
  <2>1. good(Result(CopyWithLoading(m, "publish"), {Msg("PublishMessage")}))
    BY <1>1, <1>3, CommandsAre, CopiesAreModels
  <2>2. /\ good(Result(CopyWithClearError(m), {})) /\ good(Result(CopyWithError(m), {}))
        /\ good(Result(CopyWithGitRepos(m), {}))
    BY <1>1, <1>2, CopiesAreModels
  <2>3. good(Update(m, msg))
    BY <1>8, <2>1, <2>2 DEF Update
  <2> QED BY <2>3 DEF good
<1>9. CASE msg.type \in {"ChannelsLoaded", "AppDidFinishLaunching", "RoomAttendantsUpdated"}
  <2>1. good(Result(CopyWithChannels(m), {})) /\ good(Result(m, {}))
    BY <1>1, <1>2, CopiesAreModels
  <2>2. good(Result(m, {Msg("LoadRooms"), Msg("LoadChannels"), Msg("LoadGitRepos")}))
    BY <1>1, CommandsAre
  <2>3. good(Update(m, msg))
    BY <1>9, <2>1, <2>2 DEF Update
  <2> QED BY <2>3 DEF good
<1> QED BY <1>4, <1>6, <1>7, <1>8, <1>9, MessageShapes

(* Commands are started and taken. *)
LEMMA BagsOfCommands ==
    ASSUME NEW B, BagToSet(B) \subseteq Commands, NEW C \in SUBSET Commands
    PROVE  /\ BagToSet(B (+) SetToBag(C)) \subseteq Commands
           /\ \A c : BagToSet((B (-) SetToBag({c})) (+) SetToBag(C)) \subseteq Commands
<1>1. ASSUME NEW D, BagToSet(D) \subseteq Commands
      PROVE  BagToSet(D (+) SetToBag(C)) \subseteq Commands
  BY <1>1 DEF BagToSet, SetToBag, (+)
<1>2. ASSUME NEW c PROVE BagToSet(B (-) SetToBag({c})) \subseteq Commands
  BY DEF BagToSet, SetToBag, (-)
<1> QED BY <1>1, <1>2

-----------------------------------------------------------------------------
(* A rendering captures a state the store has held, or reads it late. *)
Renderings == {Late} \union {Captured(m) : m \in AppModels}

(* The blocks that actions put on the serial queue are blocks. *)
LEMMA BlocksAre ==
    /\ \A msg \in Messages : Handle(msg) \in Blocks /\ Forward(msg) \in Blocks
    /\ ForwardFeed \in Blocks /\ Subscribe \in Blocks
    /\ \A b \in Blocks : b.does \in {"Handle", "Forward"} => b.msg \in Messages
    /\ \A b \in Blocks : b.does = "Handle" => b = Handle(b.msg)
BY DEF Blocks, Handle, Forward, ForwardFeed, Subscribe

(* The messages that the views and the commands send are messages. *)
LEMMA MessagesAre ==
    /\ \A t \in {"SetWorkspaceContext", "SelectDestination", "LoadRooms", "RoomsLoaded",
                "PublishMessage", "MessagePublished", "PublishFailed",
                "GitReposLoaded", "ChannelsLoaded", "AppDidFinishLaunching"} :
          Msg(t) \in Messages
    /\ \A h \in Hosts : /\ MsgOf("SelectRoom", h) \in Messages
                        /\ MsgOf("RoomAttendantsUpdated", h) \in Messages
                        /\ MsgOf("LoadFeed", h) \in Messages
                        /\ MsgOf("FeedLoaded", h) \in Messages
    /\ \A h \in Hosts, x \in Statuses :
          [type |-> "RoomStatusChanged", host |-> h, status |-> x] \in Messages
    /\ \A h \in Hosts, x \in Syncs :
          [type |-> "RoomSyncStatusUpdated", host |-> h, sync |-> x] \in Messages
    /\ \A p \in Peers, x \in Syncs :
          [type |-> "PeerSyncStatusChanged", peer |-> p, sync |-> x] \in Messages
BY DEF Messages, WorkspaceMsgs, RoomMsgs, FeedMsgs, PeerMsgs, LoadedMsgs,
    LifecycleMsgs, Msg, MsgOf

(* dispatch: adds blocks to the serial queue. *)
LEMMA Dispatched ==
    ASSUME queue \in Seq(Blocks), NEW b \in Seq(Blocks), Dispatch(b)
    PROVE  queue' \in Seq(Blocks)
BY ConcatProperties DEF Dispatch

(* The queue without its first block is a queue. *)
LEMMA QueueRest ==
    ASSUME queue \in Seq(Blocks), queue # <<>>
    PROVE  Head(queue) \in Blocks /\ Tail(queue) \in Seq(Blocks)
BY HeadTailProperties

(* Reloading a feed is at most one message. *)
LEMMA Reloads ==
    ASSUME NEW h \in Hosts \union {None}
    PROVE  ReloadFeed(h) \in Seq(Blocks)
BY EmptySeq, BlocksAre, MessagesAre DEF ReloadFeed

(* A command that runs leaves the bag, and dispatches blocks.               *)
LEMMA RunTypes ==
    ASSUME TypeOK, NEW cmd, NEW b \in Seq(Blocks), NEW C \in SUBSET Commands, Run(cmd, b, C)
    PROVE  TypeOK'
<1>1. queue' \in Seq(Blocks)
  BY Dispatched DEF Run, TypeOK
<1>2. BagToSet(effects)' \subseteq Commands
  BY BagsOfCommands DEF Run, TypeOK
<1> QED BY <1>1, <1>2 DEF Run, TypeOK

(* An event from outside the store keeps every type. *)
LEMMA EventTypes ==
    ASSUME TypeOK, NEW b \in Seq(Blocks), Event(b)
    PROVE  TypeOK'
<1>1. queue' \in Seq(Blocks)
  BY Dispatched DEF Event, TypeOK
<1>2. events' \in 0 .. MaxEvents
  BY Outside DEF Event, TypeOK
<1> QED BY <1>1, <1>2 DEF Event, TypeOK

(* Every variable keeps its type. *)
LEMMA TypeStep == TypeOK /\ [Next]_vars => TypeOK'
<1> SUFFICES ASSUME TypeOK, [Next]_vars PROVE TypeOK'
  OBVIOUS
<1>0. /\ queue \in Seq(Blocks) /\ BagToSet(effects) \subseteq Commands
      /\ main \in Seq(Renderings) /\ state \in AppModels /\ shown \in AppModels
      /\ subscribed \in BOOLEAN /\ running \in BOOLEAN /\ events \in 0 .. MaxEvents
  BY DEF TypeOK, Renderings
<1>1. CASE QueueStep
  <2>1. CASE AddSubscriber
    <3>1. queue' \in Seq(Blocks)
      BY <1>0, <2>1, QueueRest DEF AddSubscriber, Block
    <3>2. main' \in Seq(Renderings)
      <4>1. Late \in Renderings
        BY DEF Renderings
      <4> QED BY <1>0, <2>1, <4>1 DEF AddSubscriber
    <3> QED BY <1>0, <2>1, <3>1, <3>2 DEF AddSubscriber, TypeOK, Renderings
  <2>2. CASE HandleMessage
    <3> DEFINE msg == Head(queue).msg
    <3>1. queue' \in Seq(Blocks) /\ msg \in Messages /\ ~Raises(state, msg)
      BY <1>0, <2>2, QueueRest, BlocksAre DEF HandleMessage, Block
    <3>2. /\ Update(state, msg).model \in AppModels
          /\ Update(state, msg).commands \subseteq Commands
      BY <1>0, <3>1, UpdateTypes
    <3>3. /\ state' = Update(state, msg).model
          /\ effects' = effects (+) SetToBag(Update(state, msg).commands)
          /\ main' = Notify(state')
          /\ UNCHANGED <<subscribed, shown, running, events>>
      BY <2>2 DEF HandleMessage
    <3>4. BagToSet(effects)' \subseteq Commands
      BY <1>0, <3>2, <3>3, BagsOfCommands
    <3>5. main' \in Seq(Renderings)
      <4>1. Captured(state') \in Renderings
        BY <3>2, <3>3 DEF Renderings
      <4> QED BY <1>0, <3>3, <4>1 DEF Notify
    <3> QED BY <1>0, <3>1, <3>2, <3>3, <3>4, <3>5 DEF TypeOK, Renderings
  <2>3. CASE EndInException
    BY <1>0, <2>3 DEF EndInException, TypeOK, Renderings
  <2>4. CASE ForwardMessage
    <3>1. queue' \in Seq(Blocks)
      <4>1. Handle(Head(queue).msg) \in Blocks /\ Tail(queue) \in Seq(Blocks)
        BY <1>0, <2>4, QueueRest, BlocksAre DEF ForwardMessage, Block
      <4> QED BY <2>4, <4>1 DEF ForwardMessage
    <3> QED BY <1>0, <2>4, <3>1 DEF ForwardMessage, TypeOK, Renderings
  <2>5. CASE ForwardNewMessage
    <3>1. queue' \in Seq(Blocks)
      <4>1. Tail(queue) \in Seq(Blocks)
        BY <1>0, <2>5, QueueRest DEF ForwardNewMessage, Block
      <4>2. ReloadFeed(state.host) \in Seq(Blocks)
        BY <1>0, FieldsOf, Reloads
      <4> QED BY <2>5, <4>1, <4>2, ConcatProperties DEF ForwardNewMessage
    <3> QED BY <1>0, <2>5, <3>1 DEF ForwardNewMessage, TypeOK, Renderings
  <2> QED BY <1>1, <2>1, <2>2, <2>3, <2>4, <2>5 DEF QueueStep
<1>2. CASE Render
  <2>1. main' \in Seq(Renderings) /\ Head(main) \in Renderings
    BY <1>0, <1>2, HeadTailProperties DEF Render
  <2>2. Head(main) # Late => Head(main)[1] \in AppModels
    BY <2>1 DEF Renderings, Captured
  <2>3. shown' \in AppModels
    BY <1>0, <1>2, <2>2 DEF Render
  <2> QED BY <1>0, <1>2, <2>1, <2>3 DEF Render, TypeOK, Renderings
<1>3. CASE CommandStep
  <2> DEFINE one(msg) == <<Handle(msg)>>
  <2>1. \A msg \in Messages : one(msg) \in Seq(Blocks)
    BY BlocksAre
  <2>2. {} \in SUBSET Commands /\ {Msg("FeedAfterPublish")} \in SUBSET Commands
    BY CommandsAre
  <2>3. CASE LoadRooms \/ LoadGitRepos \/ LoadChannels
    BY <2>1, <2>2, <2>3, MessagesAre, RunTypes DEF LoadRooms, LoadGitRepos, LoadChannels
  <2>4. CASE PublishFails \/ Publish
    BY <2>1, <2>2, <2>4, MessagesAre, RunTypes DEF PublishFails, Publish
  <2>5. CASE FeedAfterPublish
    <3>1. ReloadFeed(state.host) \in Seq(Blocks)
      BY <1>0, FieldsOf, Reloads
    <3> QED BY <2>2, <2>5, <3>1, RunTypes DEF FeedAfterPublish
  <2>6. ASSUME NEW h \in Hosts, ConnectRoom(h) \/ LoadFeed(h) PROVE TypeOK'
    <3>1. "Connecting" \in Statuses
      BY DEF Statuses
    <3>2. /\ one([type |-> "RoomStatusChanged", host |-> h, status |-> "Connecting"]) \in Seq(Blocks)
          /\ one(MsgOf("FeedLoaded", h)) \in Seq(Blocks)
      BY <2>1, <3>1, MessagesAre
    <3> QED BY <2>2, <2>6, <3>2, RunTypes DEF ConnectRoom, LoadFeed
  <2> QED BY <1>3, <2>3, <2>4, <2>5, <2>6 DEF CommandStep
<1>4. CASE Outsider
  <2> DEFINE one(b) == <<b>>
  <2>1. \A b \in Blocks : one(b) \in Seq(Blocks)
    OBVIOUS
  <2>2. CASE SelectContext \/ SelectDestination \/ RoomsDidUpdate \/ Compose \/ NewMessageArrives
    BY <2>1, <2>2, BlocksAre, MessagesAre, EventTypes
       DEF SelectContext, SelectDestination, RoomsDidUpdate, Compose, NewMessageArrives
  <2>3. ASSUME NEW h \in Hosts, SelectRoom(h) \/ EndpointsChange(h) \/ RoomSyncs(h)
        PROVE  TypeOK'
    <3>1. "Syncing" \in Syncs
      BY DEF Syncs
    <3>2. /\ one(Handle(MsgOf("SelectRoom", h))) \in Seq(Blocks)
          /\ one(Forward(MsgOf("RoomAttendantsUpdated", h))) \in Seq(Blocks)
          /\ one(Forward([type |-> "RoomSyncStatusUpdated", host |-> h, sync |-> "Syncing"]))
                \in Seq(Blocks)
      BY <2>1, <3>1, BlocksAre, MessagesAre
    <3> QED BY <2>3, <3>2, EventTypes DEF SelectRoom, EndpointsChange, RoomSyncs
  <2>4. ASSUME NEW h \in Hosts, NEW p \in Peers, PeerSyncs(h, p) PROVE TypeOK'
    <3>1. "Ready" \in Syncs
      BY DEF Syncs
    <3>2. /\ Forward([type |-> "RoomSyncStatusUpdated", host |-> h, sync |-> "Ready"]) \in Blocks
          /\ Forward([type |-> "PeerSyncStatusChanged", peer |-> p, sync |-> "Ready"]) \in Blocks
      BY <3>1, BlocksAre, MessagesAre
    <3>3. <<Forward([type |-> "RoomSyncStatusUpdated", host |-> h, sync |-> "Ready"]),
            Forward([type |-> "PeerSyncStatusChanged", peer |-> p, sync |-> "Ready"])>>
              \in Seq(Blocks)
      BY <3>2
    <3> QED BY <2>4, <3>3, EventTypes DEF PeerSyncs
  <2> QED BY <1>4, <2>2, <2>3, <2>4 DEF Outsider
<1>5. CASE UNCHANGED vars
  BY <1>0, <1>5 DEF vars, TypeOK, Renderings
<1> QED BY <1>1, <1>2, <1>3, <1>4, <1>5 DEF Next

(* The types hold when the application starts. *)
LEMMA InitTypes == Init => TypeOK
<1> SUFFICES ASSUME Init PROVE TypeOK
  OBVIOUS
<1>1. queue \in Seq(Blocks)
  <2>1. Subscribe \in Blocks /\ Handle(Msg("AppDidFinishLaunching")) \in Blocks
    BY BlocksAre, MessagesAre
  <2> QED BY <2>1 DEF Init
<1>2. BagToSet(effects) = {}
  BY DEF Init, EmptyBag, SetToBag, BagToSet
<1>3. InitialModel \in AppModels
  BY DEF InitialModel, AppModels, Statuses, Syncs, LoadingStates
<1>4. main \in Seq(Renderings) /\ events \in 0 .. MaxEvents
  BY EmptySeq, Outside DEF Init
<1> QED BY <1>1, <1>2, <1>3, <1>4 DEF Init, TypeOK, Renderings

(* Every block, command, rendering and state is one the store can hold.     *)
THEOREM TypeCorrect == Spec => []TypeOK
BY InitTypes, TypeStep, PTL DEF Spec

-----------------------------------------------------------------------------
(* What the view will show when the main queue has run is the state: the    *)
(* last rendering that waits captured it, or will read it; with none        *)
(* waiting, it is on the screen.                                            *)
Latest ==
    IF main = <<>> THEN shown = state
    ELSE main[Len(main)] \in {Late, Captured(state)}

IInv == TypeOK /\ (subscribed => Latest)

(* The last element of an extended sequence is the new one. *)
LEMMA AppendedLast ==
    ASSUME NEW S, NEW s \in Seq(S), NEW e
    PROVE  Append(s, e) # <<>> /\ Append(s, e)[Len(Append(s, e))] = e
<1>1. s \in Seq(S \union {e}) /\ e \in S \union {e}
  BY SeqMonotonic
<1> QED BY <1>1

(* A rendering takes the first snapshot, so the last one stays the current one. *)
LEMMA RenderStep == IInv /\ subscribed /\ Render => Latest'
<1> SUFFICES ASSUME IInv, subscribed, Render PROVE Latest'
  OBVIOUS
<1>1. main \in Seq(Renderings) /\ main # <<>> /\ Len(main) \in Nat \ {0}
  BY EmptySeq DEF IInv, TypeOK, Renderings, Render
<1>2. /\ main' = Tail(main) /\ Len(Tail(main)) = Len(main) - 1 /\ Tail(main) \in Seq(Renderings)
      /\ \A i \in 1 .. Len(Tail(main)) : Tail(main)[i] = main[i + 1]
  BY <1>1, HeadTailProperties DEF Render
<1>3. main[Len(main)] \in {Late, Captured(state)} /\ state' = state
  BY <1>1 DEF IInv, Latest, Render
<1>4. CASE Len(main) = 1
  <2>1. main' = <<>>
    BY <1>2, <1>4, EmptySeq
  <2>2. Head(main) \in {Late, Captured(state)}
    BY <1>1, <1>3, <1>4
  <2>3. Captured(state)[1] = state /\ Captured(state) # Late
    BY DEF Captured, Late
  <2>4. shown' = state
    BY <2>2, <2>3 DEF Render
  <2> QED BY <1>3, <2>1, <2>4 DEF Latest
<1>5. CASE Len(main) # 1
  <2>1. Len(main') = Len(main) - 1 /\ Len(main) - 1 \in 1 .. Len(Tail(main))
    BY <1>1, <1>2, <1>5
  <2>2. main' # <<>>
    BY <2>1
  <2>3. main'[Len(main')] = main[Len(main)]
    BY <1>1, <1>2, <2>1
  <2> QED BY <1>3, <2>2, <2>3 DEF Latest
<1> QED BY <1>4, <1>5

(* Whatever changes the state forwards it to the main queue in the same step. *)
LEMMA InvStep == IInv /\ [Next]_vars => IInv'
<1> SUFFICES ASSUME IInv, [Next]_vars PROVE IInv'
  OBVIOUS
<1>0. TypeOK' /\ main \in Seq(Renderings)
  BY TypeStep DEF IInv, TypeOK, Renderings
<1>1. ASSUME UNCHANGED <<main, state, shown, subscribed>> PROVE IInv'
  BY <1>0, <1>1 DEF IInv, Latest
<1>2. CASE QueueStep
  <2>1. CASE AddSubscriber
    <3>1. main' = Append(main, Late)
      BY <2>1 DEF AddSubscriber
    <3>2. main' # <<>> /\ main'[Len(main')] = Late
      BY <1>0, <3>1, AppendedLast
    <3> QED BY <1>0, <3>2 DEF IInv, Latest
  <2>2. CASE HandleMessage
    <3>1. main' = Notify(state') /\ subscribed' = subscribed
      BY <2>2 DEF HandleMessage
    <3>2. CASE subscribed
      <4>1. main' # <<>> /\ main'[Len(main')] = Captured(state')
        BY <1>0, <3>1, <3>2, AppendedLast DEF Notify
      <4> QED BY <1>0, <4>1 DEF IInv, Latest
    <3> QED BY <1>0, <3>1, <3>2 DEF IInv
  <2>3. CASE EndInException \/ ForwardMessage \/ ForwardNewMessage
    BY <1>1, <2>3 DEF EndInException, ForwardMessage, ForwardNewMessage
  <2> QED BY <1>2, <2>1, <2>2, <2>3 DEF QueueStep
<1>3. CASE Render
  BY <1>0, <1>3, RenderStep DEF IInv, Render
<1>4. CASE CommandStep
  BY <1>1, <1>4 DEF CommandStep, LoadRooms, LoadGitRepos, LoadChannels, PublishFails,
      Publish, FeedAfterPublish, ConnectRoom, LoadFeed, Run
<1>5. CASE Outsider
  BY <1>1, <1>5 DEF Outsider, SelectContext, SelectDestination, RoomsDidUpdate, Compose,
      NewMessageArrives, SelectRoom, EndpointsChange, RoomSyncs, PeerSyncs, Event
<1>6. CASE UNCHANGED vars
  BY <1>1, <1>6 DEF vars
<1> QED BY <1>2, <1>3, <1>4, <1>5, <1>6 DEF Next

(* Once subscribed, the last snapshot on the main queue is the current state,
   or the view shows it when there is none. *)
THEOREM Invariance == Spec => []IInv
<1>1. Init => IInv
  <2>1. Init => ~subscribed
    BY DEF Init
  <2> QED BY <2>1, InitTypes DEF IInv
<1> QED BY <1>1, InvStep, PTL DEF Spec

(* Once the main queue has run dry, the view shows the state of the store,  *)
(* whatever the order of messages and renderings (SRStore.m subscribe and   *)
(* dispatch).                                                               *)
THEOREM ViewIsCurrent == Spec => []ShownIsCurrent
<1>1. IInv => ShownIsCurrent
  BY DEF IInv, Latest, ShownIsCurrent
<1> QED BY Invariance, <1>1, PTL

=============================================================================
