# Scuttle: TLA+ models, checks and proofs

Scuttle is a Secure Scuttlebutt client in Objective-C. It stores append-only
signed feeds in SQLite, connects to room servers, opens encrypted tunnels to
other clients through a room, and replicates feeds over those tunnels; git
repositories are published as messages, and an Elm-style store feeds the user
interface. This directory holds TLA+ models of the parts whose correctness
depends on the order of events and of the C algorithms below them, TLC
configurations that check them on small instances, and TLAPS proofs about them. Paths below are relative to the repository root.

## 1. The system

| Component | State | Operations | Talks to |
|---|---|---|---|
| Feed store `Sources/SSBFeedStore.m` | tables `messages`, `feed_state`, `profiles`, `quarantine`, `quarantine_dependencies`; one serial `dbQueue` | `appendMessage:` (direct, quarantine, recursive drain), `wipeDatabase`, queries | called by every client, synchronously |
| MuxRPC session `SSBMuxRPCSession.m` | `nextRequestID`, `pendingRequests`, `activeIncomingRequests` | send request, send data, route a received frame | one per room connection, one per tunnel; callbacks into the room client |
| Tunnel negotiation `SSBRoomClient.m` 2396-2730 | `activeTunnels`, retry dates | `connectToPeer:`, `handleTunnelConnect:`, disconnect | room (messages), main thread and `clientQueue` |
| Tunnel connection `SSBTunnelConnection.m` | two loopback sockets, `incomingBuffer`, `pendingMessages`, `pendingIncomingRequests` | pump bytes, replay early requests, stop | room session, handshake framers |
| Replication `SSBRoomClient.m` 1562-2118 | `ebtRequestIDsBySession`, `peerEBTState`, clocks | start, answer requests, clocks and messages | MuxRPC session, feed store |
| Local feed `SSBRoomClient.m` 1162-1260, 1460-1560 | `isSyncingLocalFeed`, `pendingPublishQueue` | sync, publish, flush the queue | feed store shared by all clients |
| Room setup, discovery `SSBRoomClient.m` 374-1121, 2767-2866 | metadata, attendants, generations, timers | connect, setup, subscribe, fall back, reconnect | room, timers |
| Handshake and framers `SSBSecretHandshake.m`, `SSBConnectionFSM.m`, `SSBSecurityFramer.m`, `SSBBoxStream.m`, `SSBMuxRPCFramer.m` | handshake step, nonces, partial reads | four-message handshake, box and unbox, frame | Network.framework or its shim |
| Blobs `SSBBlobStore.m` | files, fetches under way | get, put, coalesce fetches | MuxRPC |
| Index feeds, metafeeds, Bamboo, tangles, JITDB | derived feeds and indexes | append, link, sort, query | feed store |
| HTTP auth, invites `SSBHTTPAuth.m`, `SSBHTTPInviteServer.m` | challenges, tokens, invites | issue, redeem, expire | HTTP |
| Git remote `SSBGitRemoteCore.c`, `SRGitRemoteHelperServer.m` | helper processes, one socket each; the server's buffers and pending pushes | list, fetch, push between git, its helper and the app | git, main queue, room client |
| Elm-style store `App/UI/TEA` | `SRAppModel`, serial queue, running commands, renderings on the main queue | dispatch, update, commands, subscribe | views, `SRRoomManager.m`, room clients |
| C primitives `tweetnacl.c`, `blake2b.c`, `blake3.c`, `SSBDiffCore.c` | none | hashes, boxes, signatures, diffs | called by the codecs and the layers above |
| App composition `SRRoomManager.m` | rooms, clients | start, wipe | room clients, feed store |
| Codecs, shims, views, CLI | - | pure functions, I/O, layout | - |

What is hard in it:

* **Threads.** The UI calls the room client on the main thread, the room's
  messages arrive on `clientQueue`, tunnels have queues of their own, and
  several clients share one feed store. Collections are guarded one access at a
  time, so a decision and the store it leads to are separate steps.
* **Crashes.** The feed store uses no transaction: each SQL statement commits
  alone, and a process may die between any two.
* **Order.** Messages arrive before what they refer to; frames arrive before
  their handler is installed; both ends of a session use the same numbers.
* **Loss.** The connection to the room and every tunnel in it may break at any
  time, with an error or without one. Helpers, git and the app may die between
  any two writes on their socket.
* **Boundaries.** Blocks, chunks, carries and counters of the primitives are
  right or wrong at sizes that tests with a few vectors do not reach.
* **Progress.** Nothing pushes a new message: it travels only because clocks
  are answered for ever.

What makes each modelled part correct:

* feed store: gapless feeds, causal order, `feed_state` that covers the table,
  a quarantine that always empties, and exactly known damage after a crash;
* session: each half of an exchange delivered once, in order, to its owner;
* negotiation: one tunnel, held by both, which then stays;
* replication: clocks neither die out nor multiply; no message travels without
  the ones before it, and all published messages arrive;
* local feed: no publication lost, doubled or signed over another message;
* git remote: both ends agree where a command begins, and "ok" is told of exactly
  the pushes that were published before the answer;
* store: the last state reaches the screen, and so does every failure;
* primitives: each computes the function it is named for.

## 2. The modules

| Module | Models | Checked by |
|---|---|---|
| `FeedLog` | abstract: append-only, gapless, causally closed logs | refined by `FeedStore` |
| `FeedStore` | the SQLite store, one step per writing statement | `FeedStoreMC`, `FeedStoreProofs` |
| `MuxRPC` | both ends of a session | `MuxRPCMC`, `MuxRPCProofs` |
| `TunnelConnect` | two clients and a room that agree on a tunnel | `TunnelConnectMC`, `TunnelConnectProofs` |
| `Replication` | EBT sessions of two clients over a tunnel | `ReplicationMC`, `ReplicationProofs` |
| `LocalFeed` | one user, several clients, one feed store | `LocalFeedMC`, `LocalFeedProofs` |
| `GitRemote` | git's helper processes and the server in the app | `GitRemoteMC`, `GitRemoteProofs` |
| `AppStore` | the serial queue, the commands and the main queue | `AppStoreMC`, `AppStoreProofs` |
| `Calls` | how a function is called and returns | `PrimitivesMC`, `PrimitivesProofs` |
| `FileDiffs`, `Boxes` | calls of the diff and of boxes, what they promise | `PrimitivesMC`, `PrimitivesProofs` |
| `Primitives` | calls of the other C functions; composes the modules below | `PrimitivesMC`, `PrimitivesProofs` |
| `Blake2b`, `Blake3`, `Sha512`, `Salsa20`, `Poly1305`, `SecretBox`, `Ed25519`, `DiffCore`, `LineHash` | one C algorithm each | `PrimitivesMC` |
| `Words`, `Loops` | machine words of a given width; counted loops | `PrimitivesMC` |

An `MC` module declares the model values and the concrete feeds, numbers or
quotas; the `.cfg` files give them values. Operators whose comment starts with
"Mutant:" are variants of the definition that follows them, with a plausible
bug; no specification uses them. They show that each property notices
something. For every property there is one that makes TLC report a violation.

### FeedStore

`messages`, `feedState`, `profiles`, `quarantine` and `quarantineDeps` are the
tables; `pc`, `arg`, `cur`, `missing` and `frames` are the position inside the
block on `dbQueue`. A message is identified with its key. `AppendInvalid`,
`AppendPast`, `AppendQuarantine` and `AppendDirect` are the early returns and
the two ways of `appendMessage:` (237-304) up to its first writing statement;
`UpdateFeedState`, `RemoveFromQuarantine`, `DrainQuarantine`, `TryRelease`,
`DrainReturns`, `UpdateProfile` are what follows. The mutual recursion of
`_drainQuarantineForKey:` and `_tryReleaseQuarantinedMessageWithKey:` is the
stack `frames`. `WipeMessages ... WipeDeps` are the statements of
`wipeDatabase`. `Crash` may fall after any statement; `torn` remembers which
kinds of operations a crash has cut short, so that an invariant can say exactly
which crash breaks it; the three about the quarantine at rest
(`DependencyRowsExact`, `NothingReleasable`, `NoStaleQuarantine`) excuse every crash, so
they speak of the nested drains and not of what a torn release leaves behind.
Profiles are written by about messages; `SRRoomManager.m:660`, which sets a name
without one, is not modelled. Signature checks are the constant `Verified`.

### MuxRPC

`Register` takes a number and registers the callback, `Transmit` puts the
envelope on the wire (or `RequestFails` takes it back), so two threads may be in
between at once. `Receive` is `handleIncomingMessage:`: a frame goes to the
request handler when its absolute number is in `activeIncomingRequests`,
otherwise to a callback. `asked`, `answered`, `called` and `handed` are the
histories the properties compare. The application that answers is an
abstraction of the request handlers of `SSBRoomClient.m`.

### TunnelConnect

`main` is where the main thread is in the delayed block of `connectToPeer:`
(`ConnectFires`, `SendConnect`, `SetActiveTunnel`); the `Receive...`,
`AcceptConnect` and `RejectConnect` actions are one message each on
`clientQueue`. `waiting` is the retry date. A tunnel is named by its attempt;
`hs` counts the messages of the secret handshake inside it. The room is
external: it relays every stream in order and ends the streams of a client that
leaves, with an error or without. Failures of the loopback sockets inside a
tunnel are left out, as is the retry after a timeout of the handshake.
`Replicate` has both branches of `startEBTReplicationWithSession:` for a tunnel that
is not connected: it is kept while its handshake runs, and removed when the
status kept for the peer is terminal (1587-1601). The second one is never taken:
`internalPeerSyncStates` is written only for statuses that name an author
(2203-2208), the only caller that names one passes "Receiving...", "Sending..." or
"Ready" (2199), and the statuses of a tunnel ("disconnected", "failed" and the
rest: 1600, 2157, 2428-2499) all pass none. So the set `KeptStatuses` has no terminal
member, the removal that the comment at 1588-1596 describes does not happen, and
`Converges` needs no fourth exception; with `KeptStatusesAll`, where
terminal statuses are kept as that comment expects, TLC finds it violated.
`tearDownActiveTunnels` (2533) takes another lock than the other users of
`activeTunnels`; the model treats each access as atomic nevertheless.

### Replication

`sess[p]` is what lives as long as a tunnel (the entry of
`ebtRequestIDsBySession`, the requests made and seen, the early frames);
`bilateral` is `peerEBTState`, which outlives it. `StartRequests` and
`StartInstalls` split `startEBTReplicationWithSession:` where another thread
or the tunnel's queue can come in between: after the request has been sent and
before its number is recorded. `Receive` is a frame on the tunnel's queue, which
goes to a handler or, before that is installed, to the buffer;
`ReplayStarts`/`ReplayNext` are the replay task. `HandleRequest`, `HandleClock`
and `HandleMessage` are the whole handlers, with the messages and the reply
they send. The model follows the two peers' own feeds; a message is its sequence
number. Notes that refuse a feed (-1, receive flag) and sessions with the room
itself are left out. The clocks kept in `peerEBTState` are left out because
nothing that is sent depends on them. `peerEBTState` is a dictionary, so the
order in which the authors of a clock are worked off is free (`first` in
`HandleClock`). Because it keeps the number of an earlier session's request, a
double start may send the messages of one feed over two requests, and some pass
others into the quarantine of the receiver: the property is therefore not that
messages arrive in order but that none is on its way alone.

### LocalFeed

One `user` (main thread), one client per room with its `queue`, its syncs and
`flush`, the position in `processPublishQueue`. The feed is the sequence of
stored items: numbers are messages the rooms already hold, other items are
contents the user publishes. `ReadFeedState`/`AppendNow` and
`FlushReads`/`FlushAppends` separate reading the feed's state from appending,
because the store's queue is free in between. `addToPendingPublishQueue:` waits
for `clientQueue`, hence `~Busy(r)` in `AddToQueue`. The sync that the
metadata timeout starts on the main thread without a connection is left out. One
thread publishes in the model; in the app `SRStore.m` (180, 267-288) and
`SRRoomManager.m` (518, 559) publish from other threads as well. Two publishers race
as a publisher and a flush do: both read the feed's state and append
without a lock in between, and the primary key keeps one of the two.

### GitRemote

`pc[h]` is where helper `h` is in `ssb_git_remote_run`; `up` and `down` are the
two directions of its socket, `buffer`, `expected` and `pending` what
`SRGitRemoteHelperServer.m` keeps for it. One item of a stream is a line, or the
bytes of one write. A push is a line and, after it, its payload in the same
stream; `Read` takes any part of what has arrived, so payloads arrive in pieces.
The server runs on the main queue; its dispatch sources (`Accept`, `Read`,
`Cancel`) may fire whenever the main queue is free. What git says, what its
subprocesses do (`PackBreaks`, a failed `index-pack`) and what the room answers
are free choices; helpers and the app may end at any time, and answering a
helper that is gone ends the app (SIGPIPE). `torn` remembers helpers that
stopped reading a pack half-way, or never began. A push that the room client only
queued is in `queued`; `ProcessPublishQueue` publishes it any time later
(`late`), or never: the queue dies with the app. `FETCH_BLOB` is answered by the server and sent
by no helper.

`ToldTruth` is about the moment the server answers. An update that is queued for
publication is answered "ERROR Publish failed" (`SRGitRemoteHelperServer.m:282`)
and published by `processPublishQueue` (`SSBRoomClient.m:1516`) once the feed is
synced: git has been told "error" of a push that then happens, and one that
repeats it publishes the update twice. The property says so by what it leaves open:
"ok" is exact and final, "error" only says "not now".

Three weaknesses of this code have no property of their own: writing a large pack blocks
the main queue (:232); lines that follow a payload in one read wait for the next
read (:166); and lines longer than 1024 bytes are cut (`SSBGitRemoteCore.c`).

### AppStore

`queue` holds the blocks of the store's serial queue, `effects` the commands
that run concurrently, `main` the snapshots that wait for the main queue.
`HandleMessage` is the whole of one block: `updateWithModel:msg:`, the new
state, its commands, and the snapshot sent to the main queue. The operators
named after messages (`RoomsLoaded`, `SelectRoom`, ...) and the `CopyWith...`
operators are the methods of `SRUpdate.m` and `SRAppModel.m`. Of the data only
what a handler tells apart is kept. Messages nobody sends are left out, and so is
`stop`.

What the code does and one might not expect is modelled as it is:
`copyWithDestination:` and `copyWithFeed:roomHost:` are declared
(`SRAppModel.h:55`, `:60`) and implemented nowhere, so a choice in the sidebar
and a feed loaded for the selected room raise (`Raises`, which ends the
process), as does a workspace context without a room while something loads; the
rooms loaded are dropped (`SRMsg.m:84`), and channels by the copies for loading
and errors; room statuses are posted under another key than they are read with,
so the status shown stays "Connecting"; an older load of repositories may
overwrite a newer one. `docs/scratchpads/tea_ui_overhaul_01.md:75-83` describes
these parts as complete.

### Primitives

`Call` picks a function and its arguments, the action named after the function
returns what the code computes, and the invariants compare it with a reference
definition: the standards' for the hashes and the stream, the polynomial for the
authenticator, exact arithmetic for the field; two parties agree on a key; and
what is sealed opens, and nothing else does; what is signed opens, and of
what was changed only a scalar with multiples of the order added, which the code
accepts because it does not ask for the least one (`tweetnacl.c:798-828`). The algorithms are
operators that follow the C loops: block buffering, counters, delayed carries,
the turned matrix of Salsa20, the ladder, `modL`.

Sizes are scaled so that every boundary is crossed often: a word has `WordBits`
bits, 8 in the run (a "byte" is then W/4 or W/8 bits), the modulus of Poly1305 is
2^17 - 5 in limbs of three bits (not a prime, as 2^130 - 5 is; only the reduction
matters here), the curve has p = 2^14 - 3 and order 8 * 2069, a BLAKE3 chunk has
`ChunkBlocks` blocks, 2 in the run. Constants that may be any words are stand-ins.
In signatures, SHA-512 is replaced by a function that spreads; in boxes, stream and authenticator are free
symbols. Lines of a diff are compared by the low 8 bits of FNV-1a, and the
inputs contain two lines that collide, as lines may in the code. `LinesAccounted`
asks that an edit script turns one file into the other up to collisions, not
that it is minimal: the algorithm called Myers deletes everything and adds
everything, although `plans/topics/GIT_DIFF_IMPLEMENTATION_PLAN.md:13`, `:61`
plans the shortest script. Hunk grouping (`SSBDiffEngine.m`) is left out.

## 3. The runs

Passing runs (counts are distinct states):

| Run | What it shows | Bounds |
|---|---|---|
| `feedstore_crash` | tables stay consistent under a crash after every statement and under wipes, and which torn operation breaks what | two authors, a fork, a tangle across feeds, a refused message: every kind of dependency, the nested drain across feeds and slot conflicts occur |
| `feedstore_live` | `messages` implements `FeedLog`; the recursive drain returns; an offered feed advances | five messages, among them one whose `previous` skips a message; no crash |
| `muxrpc_routing` | streams are delivered faithfully while a number is used at one end; no request envelope is swallowed; a request whose number the other end never uses is answered | two requests against one: numbers that collide and one that does not; the end with one request sends a value in each of its halves (40,584) |
| `tunnel_agree` | one tunnel unless the two threads race; an established one stays; both end with a connected tunnel, except in three named ways | three attempts and two delayed connects each, one lost connection, one request of the user (246,266) |
| `replication` | a clock for the feeds of both is always under way once both have started, double starts do not multiply clocks, no message travels without the ones before it, and what a peer publishes arrives over a tunnel that breaks | two messages, two starting threads at one peer; one fault, shared by breaks and double starts, and a load of two, shared by messages and double starts (656,606) |
| `localfeed_queue` | no publication is lost or doubled; the queue empties after the sync | two rooms, three contents, one sync each, limit 1: syncs end at the limit and with messages left (136,204) |
| `gitremote` | streams stay in step; git is told ok of exactly what was published when the server answered, and that only once; every command ends but a push without a client | two helpers with two commands and one, packs of two writes, the end of any process |
| `appstore` | the view ends on the current state; loading ends; every failed publication is rendered | one room, one peer, start-up and two events from outside, at most two waiting renderings |
| `primitives` | the C algorithms compute what they are meant to | every length around each block, chunk, padding and counter boundary of the scaled sizes; field elements around 0, the modulus and its double |

Violated runs, each a disagreement between the code and a text of the repository:

| Run | The text | What the code does |
|---|---|---|
| `feedstore_chain` | `SSBFeedStore.h:18` "Validates sequence/previous chain" | the direct path accepts any stored `previous` |
| `tunnel_race` | `SSBRoomClient.m:2677` "exactly one tunnel per pair" | the main thread overwrites a tunnel accepted after its check |
| `localfeed_fork` | `SSBRoomClient.m:1461` "Fork prevention" | "synced" only means that no sync is running |

More weaknesses of the code show as exceptions of properties that hold:

* a crash between the INSERT and the upsert leaves messages with a nil feed state
  although `SSBFeedStore.h:22` says nil means "no messages stored"
  (`StateCoversMessages` excepts a torn commit, `WedgedStaysWedged` says what
  follows);
* an about message released from quarantine leaves the profile alone although
  `SSBFeedStore.m:287` says "If it's an about message, update profile"
  (`ProfilesStored` does not ask for the last name);
* routing ignores the sign of a number (`SSBMuxRPCSession.m:183`, `:194`), so
  while both ends use a number, answers to one go to the request handler of the
  other: `StreamsFaithful` and `LoneRequestAnswered` ask only for numbers that
  one end uses;
* a tunnel stream that the room ends without an error leaves a dead tunnel in
  `activeTunnels` (`SSBRoomClient.m:2490`), the exception `lapsed` of `Converges`;
* a push that is only queued is answered with an error and published later
  (`SRGitRemoteHelperServer.m:282`), which `ToldTruth` leaves open;
* a helper that stops reading a pack half-way, or does not begin, takes the rest for its next reply
  (`SSBGitRemoteCore.c:264`), the exception `torn`; a push without a connected
  client is never answered (`SRGitRemoteHelperServer.m:277`), the exception
  `mute`.

Replication has one by design: the clocks of a session cover the authors known
when they were read, so an author first stored later is not asked for in that
session.

Deadlock is checked in the `FeedStore`, `Replication`, `GitRemote` and
`Primitives` runs. In the others the bounds on requests, attempts, syncs,
publications and events let the system stop.

**Fairness.** `FeedStore`: the serial queue keeps running (WF), and a message
peers hold is offered again and again (SF, since every clock exchange asks for
what is above `max_sequence`). `MuxRPC`: the connection delivers, threads go on,
and the application ends what it answers. `TunnelConnect`: main thread and
`clientQueue` run, retry dates pass, a lost room connection comes back
(`autoReconnect`). `Replication`: the tunnel comes back, a session is started
when it does, and its queue runs; publishing is not fair. `LocalFeed`: threads
run and a stream that stays connected ends. `GitRemote`: helpers run and a read
that has data returns (WF), the main queue runs (WF), and a dispatch source that
is ready again and again fires (SF, since the main queue may be busy with
another helper in between). `AppStore`: the serial queue, the main queue and the
commands run. No user action and no failure is
ever assumed fair.

**Why the bounds suffice.** Each named case needs few actors: collisions need
one number used twice, ties two peers, an overtaken frame one buffered and one
direct, a nested drain two feeds, a payload in pieces two reads, a stale
rendering two snapshots. Longer runs repeat these cases. The safety properties
proved in section 4 hold without the bounds.

## 4. What is proved

Each theorem holds for every value of the constants under the assumption that
the module names; none uses the bounds of the runs. Every invariant was checked
by TLC as an invariant of the run before it was proved.

`FeedStoreProofs`, for any set of messages and authors under
`MessagesAssumption` only (fields are functions of the right type):

* `TypeInvariant`, `TypeCorrect`: type correctness (`TypeInv` adds that the
  position in the code determines which pointers are set).
* `FeedsStayIntact`: no gap in a feed and a stored tip, through every crash
  outside a wipe.
* `StateCoversStored`: at rest `feed_state` covers every stored row unless a
  commit was torn.
* `AdvancesOneByOne`: `max_sequence` moves by at most one, and back only in a
  wipe.
* `StoredSequenceIsPast`: a sequence that is stored is answered with "past",
  never with "insert failed", unless a commit was torn.
* `WedgeIsPermanent`: a feed wedged by a torn commit stays wedged until a wipe.
* `StoreIsCausal`: nothing is stored before what it refers to, unless a
  quarantine insert or a wipe was torn.
* `RefinesFeedLog`: every behaviour with sound crashes implements `FeedLog`.

The argument: `FeedsIntact` alone is not inductive, because between the INSERT
and the upsert the table is one ahead of `feed_state`. `CommitInv` adds that
slots are unique, that at `upsert` the current message is stored and is next in
its feed, what a wipe has emptied so far, and the coverage. `CausallyClosed`
is not inductive because a release trusts the dependency rows: `CausalInv` adds
that each missing dependency of a quarantined message has a row, or is one the
running insert has still to write. Each invariant has lemmas for the steps that
change nothing it speaks of, one for the insert, one for the upsert.

The quarantine, in the same module and on top of these invariants:

* `RowsAreExact`: a dependency row exists for exactly what a quarantined message
  waits for. `RowsInv` adds the bookkeeping in between: the rows the running
  insert still owes, and those that go with the message being released.
* `DrainIsComplete`: at rest nothing releasable is left in quarantine. The
  recursion is what makes it hard: `DrainInv` says that a quarantined message
  that is ready is a candidate in some frame of the stack, or will be one of the
  drain that the last insert starts, because only that insert can have made it
  ready.
* `QuarantineIsFresh`: no message of a linked feed is both stored and
  quarantined at rest. `StaleInv` follows a released message from its INSERT to
  its removal.
* `NamesAreGiven`: an author has a profile only of an about message that is
  stored, through crashes and unless a wipe was torn.

`LocalFeedProofs`: `TypeCorrect`, `NothingIsLost`, `IsPublishedOnce`. During a
flush there are two copies of the queue, the one being worked off and the one
that is replaced at the end. `IInv` says what the copies have in common: what is
still to be tried and what has failed are in the queue, what has been published
is in the feed and nowhere else, and what another thread adds meanwhile stays
behind the part that is replaced.

`MuxRPCProofs`: `TypeCorrect`, `RequestsAreHandled`, `StreamsAreFaithful`. A number is given once, its
envelope is sent at most once, and `Receive` moves it from the wire to the
handler whatever the numbers of the other end are. `IInv` adds to the property
that a number not yet given has no envelope, and that one whose thread has not
sent yet has none either. `OwnedInv` is about numbers only one end uses: all
frames of such a number on either wire belong to its exchange; a callback waits
for whatever the other end has sent or may still send, the end comes last, and
nothing is answered before the envelope has arrived. Then routing by the absolute
number does what routing by both signs would do.

`TunnelConnectProofs`: `TypeCorrect`, `PeersAgree`, `EstablishedTunnelStays`.
Both properties assume that the connection to the room is not lost. Then a peer
never empties its entry of `activeTunnels` except through the tiebreak, so it
makes at most one attempt; `Undisturbed` describes the life of the two possible
tunnels: what is in each stream about a tunnel (a request, an answer, one
handshake message), how far each end is in the handshake, and which end gives
way to which. `BothHold` follows for the tunnel that wins.

`GitRemoteProofs`: `TypeCorrect`, `StaysInStep`, `ToldIsTrue`, for any number of
helpers, commands and writes. `IInv` says for each helper what the request stream
(what the server has read and what is still in the socket) and the reply stream
contain, as a function of where the helper is; a payload read in pieces only
moves the boundary between the two parts of the first.

`AppStoreProofs`: `TypeCorrect`, `ViewIsCurrent`, for any rooms, peers and events.
The last snapshot on the main queue is the state of the store, or the view shows
it when none waits: every step that changes the state sends it in the same
block, and a rendering takes the first.

`ReplicationProofs`: `Invariance`, `NoGaps`, `PollingGoesOn`, `NoStorm`, for any
feeds, any number of starting threads and of broken tunnels. A frame waits in the
channel, in the buffer of early requests or in what is left of a replay, and most
steps only move it along these; so the invariants speak of the set and of the
number of frames under way, and every step is one of few effects on them
(`Effect`). `StoreInv` bounds every copy of a feed by what its author has, and
every clock by what its sender has. `NoGapInFlight` is inductive with it: a batch
sent in answer to a clock begins right after what the clock claims, which the
other end has. `PollInv` says that once a peer has recorded its request, a clock for
the other's feed is on its way to it, or on its way to the other as a request
(which is kept until it can be handled) or after the other has recorded one too.
`StormInv` counts the clocks and requests under way together with what
running starts are still to send.

`PrimitivesProofs`, about `Spec` of `Primitives`: any calls in any order. A step
calls one function, returns from it, or leaves a call of another (`StepsOfOne`);
the loops of the algorithms are recursive functions, and what they compute is
proved by complete induction, since the library's induction rules cannot be
instantiated (`CompleteInduction`, from the well-foundedness of strict subsets).

* `LinesAreAccounted`, for all files, any hash of their lines and either
  algorithm. Three arguments meet: the recursion ends (`DiffExists`, by complete
  induction on the lines of a region: the edits of a region depend on smaller
  ones only, `DiffIsLocal`); what is sound for the parts before and after the anchor
  is sound for the whole (`SplitIsSound`, from the concatenation of adjacent
  runs); and in equal regions the anchors face each other (`Aligned`: both are the first
  line of their hash), so equal files match in every line.
* `OnlySealedBoxesAreOpened`, for all messages, nonces and secrets under
  `BoxTextsAssumption` (the two leading cells are zero, as the code requires, and a
  change is none of the unknowns). A tag tells the body and the first two cells of
  the stream, and these tell nonce and key; xor with the same stream
  twice restores the message.
* `Blake3HashesTheWholeTree`, for inputs of any length and content, any number of
  blocks in a chunk and words of 8, 16, 32 or 64 bits. The rounds of the code look
  words up in a table of positions, those of the specification permute the
  message; the flags and counters of the blocks are those of the position in the
  chunk; and the values that are left after merging pairs one, two and three times
  are those of the subtrees of 2, 4 and 8 chunks, the last of them a shorter one, so that
  exactly the last merge is the root.
* `BufferedHashIsBlake2b`, for inputs of any length and content and words of 8, 16, 32
  or 64 bits, 64 in the code. The eight calls of a round are its columns and diagonals, and the
  schedules of the last two rounds repeat the first two (`Blake2bCompressIsF`). Before
  each turn of the loop the state holds the chaining value of the blocks before the
  last one that was begun, their bytes as two words (the carry is that of the
  division, `WordsOfCount`), and this block in the buffer: a block that ends the
  input stays there, and only `final` compresses it, flagged, with the number
  of bytes of the input (`UpdateKeepsLastBlock`, `FinalState`).
* `KeystreamIsXSalsa20`, for streams of any length, any key, nonce and message, and
  words of the same widths. A turned matrix has in its columns what the other has in
  its rows, so two rounds of the code are a column round and a row round
  of the definition (`TurnsAreRounds`). HSalsa20 subtracts the input it has just added,
  which gives back the rounds alone because every operation keeps words in range
  (`XorTableIsClosed`, `AddIsWord`, `RotlIsWord`). The carry that
  ripples through bytes 8 to 15 counts blocks: its digits are those of j + 1 if they were
  those of j. By induction on j, block j is the hash of key, nonce and j.
* `ScheduleInPlaceIsSha512`, for messages of any length whose bits are counted by a
  word and one byte more, of any bytes, and words of the same widths, 64 bits in the code. The loop that overwrites
  its sixteen words reads some it has replaced and some it has not, and these are
  the words of the schedule 2, 7, 15 and 16 places back (`NextWordsAreScheduled`);
  the sum of a round is reduced before its last summand, which changes nothing
  (`SumOfReduced`); the chaining value survives being stored as bytes between the two
  calls of `crypto_hashblocks` (`Load8OfStore8`), which needs every word to stay in
  range (`RotrIsWord` for twelve distances, `LogicIsWord`); and the one or two blocks built on
  the stack are the end of the padded message (`PaddedBytes`). `SizesAssumption` states
  the bound on the length, which every length of 64 bits meets in the code: it writes
  `b >> 61` in one byte.

The widths are the powers of two from a byte up to the 64 bits of BLAKE2b and SHA-512;
BLAKE3 and Salsa20 have 32. No argument looks at one width alone: `Power` doubles
(`PowerDoubles`), so the power of a sum is a product (`PowerOfSum`) and the bytes of
a word fill it (`PowersOfBytes`), and the laws of quotient and remainder that the
carries, rotations and stored words need are proved from the uniqueness of both
(`QuotientIs`). The initial words and round constants are stand-ins at every width; the proofs
use of them only that they are words.

Left to TLC:

* all liveness (`AppendReturns`, `OfferedFeedAdvances`, `LoneRequestAnswered`,
  `Converges`, `OwnFeedsArrive`, `QueueDrains`, `CommandsEnd`, `LoadingEnds`,
  `FailuresShown`): proofs from fairness need ENABLED, which the prover does not
  handle;
* `TagIsPolynomial`, `FieldIsExact`, `KeysAgree`, `SignaturesVerify`: they rest on
  products modulo a number and on the points of a curve, and the provers have no
  nonlinear arithmetic to speak of. KeysAgree is the commutativity of the
  group of the small curve, which TLC finds by computing it.

## 5. What is not modelled

`PROJECT.json` lists every component with the reason. In short:

* codecs, identities, Bamboo, tangles, indexes and git parsers are byte-level or
  read-only sequential functions; views, logging and the CLI have no protocol
  state;
* the layers between a tunnel and a session (`SSBTunnelConnection.m`, the
  handshake's state machine, framers, transport) are taken to be a stream of
  frames in order; their primitives, their replay of early requests and the
  handshake's messages are modelled where they matter;
* setup and discovery of `SSBRoomClient.m` (699-873, 1053-1121) are timers whose
  late answers repeat a subscription; loss and reconnect are in `TunnelConnect`;
* `SSBHTTPAuth.m` and `SSBHTTPInviteServer.m` are used by no part of the
  application, and two of their calls wait for the queue they are on (see the
  hazards of kind deadlock);
* `SRRoomManager.m`, blobs and stores of devices and rooms guard their state with
  one queue or lock per call.

## 6. Running

In this directory: `tlc -config <cfg> <MC module>` for a run of
`PROJECT.json`, `tlapm <module>Proofs.tla` for the proofs.
