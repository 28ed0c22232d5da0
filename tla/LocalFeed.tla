------------------------------ MODULE LocalFeed ------------------------------
(***************************************************************************)
(* Publishing to the local feed while rooms send back what they still hold *)
(* of it (SSBRoomClient: syncLocalFeed, publishLocalMessageWithContent:,   *)
(* publishMessageNow: and processPublishQueue).                            *)
(*                                                                         *)
(* There is one SSBRoomClient per room; all share one feed store.  The     *)
(* user publishes on the main thread; what a room sends is handled on the  *)
(* clientQueue of its client, and pendingPublishQueue is only touched      *)
(* there, so the main thread waits for a handler that runs.  The feed      *)
(* store is not locked between reading the state of the feed and appending.*)
(***************************************************************************)
EXTENDS Integers, Sequences, FiniteSets, SequencesExt

CONSTANTS
    Rooms,      \* the rooms with a client
    Contents,   \* what the user publishes, each once
    Old,        \* Old[r]: how many messages of the feed room r holds
    Limit,      \* "limit" of createHistoryStream: 100 in the code
    MaxSyncs    \* bound: syncLocalFeed calls per client

ASSUME LocalFeedAssumption ==
    /\ Old \in [Rooms -> Nat]
    /\ Limit \in Nat \ {0} /\ MaxSyncs \in Nat
    /\ \A c \in Contents : c \notin Nat

VARIABLES
    feed,      \* the stored feed: numbers of old messages, and contents
    syncing,   \* isSyncingLocalFeed
    queue,     \* pendingPublishQueue
    streams,   \* streams[r][k]: the k-th createHistoryStream of room r
    user,      \* the main thread in publishLocalMessageWithContent:
    flush,     \* the handler of room r in processPublishQueue
    offered,   \* contents not published yet
    refused,   \* contents whose publication returned an error
    excused    \* history: queued contents whose room lost its connection, or
               \* that lost their sequence number to another publication

clients == <<syncing, queue, streams, flush>>
vars == <<feed, clients, user, offered, refused, excused>>

Syncs == 1 .. MaxSyncs

(* An old message is its sequence number: all rooms hold the same feed. *)
Items == Contents \cup (Nat \ {0})

Idle == [at |-> "idle"]

(* The main thread waits for the handler of the room, or has the message    *)
(* and, later, the sequence number it signs it with.                        *)
Hands == {Idle} \cup [at : {"enqueue"}, room : Rooms, item : Contents]
              \cup [at : {"read"}, room : Rooms, item : Contents]
              \cup [at : {"append"}, item : Contents, seq : Nat]

(* A handler that flushes: what is still to be tried, and what failed.      *)
Flushes == {Idle} \cup [at : {"start"}, runs : Nat]
              \cup [at : {"read"}, runs : Nat, todo : Seq(Contents),
                    failed : Seq(Contents)]
              \cup [at : {"append"}, runs : Nat, todo : Seq(Contents),
                    failed : Seq(Contents), seq : Nat]

(* Every queue holds contents, and a flush under way has one to try.        *)
TypeOK ==
    /\ feed \in Seq(Items)
    /\ syncing \in [Rooms -> BOOLEAN]
    /\ queue \in [Rooms -> Seq(Contents)]
    /\ streams \in [Rooms -> [Syncs -> [state : {"unused", "open", "over"},
                                       next : Nat, left : 0 .. Limit]]]
    /\ user \in Hands
    /\ flush \in [Rooms -> Flushes]
    /\ \A r \in Rooms : flush[r].at \in {"read", "append"} => flush[r].todo # <<>>
    /\ offered \subseteq Contents /\ refused \subseteq Contents
    /\ excused \subseteq Contents

Init ==
    /\ feed = <<>>
    /\ syncing = [r \in Rooms |-> FALSE]
    /\ queue = [r \in Rooms |-> <<>>]
    /\ streams = [r \in Rooms |->
          [k \in Syncs |-> [state |-> "unused", next |-> 0, left |-> 0]]]
    /\ user = Idle
    /\ flush = [r \in Rooms |-> Idle]
    /\ offered = Contents
    /\ refused = {}
    /\ excused = {}

-----------------------------------------------------------------------------
(* syncLocalFeed and the completion of its createHistoryStream. *)

Busy(r) == flush[r].at # "idle"

(* processPublishQueue is called n times in a row. *)
Flush(r, n) == flush' = [flush EXCEPT ![r] = [at |-> "start", runs |-> n]]

Spend(r, k) ==
    /\ ~Busy(r) /\ streams[r][k].state = "unused"
    /\ \A j \in Syncs : j < k => streams[r][j].state # "unused"

StartSync(r, k) ==
    /\ Spend(r, k)
    /\ syncing' = [syncing EXCEPT ![r] = TRUE]
    /\ streams' = [streams EXCEPT ![r][k] =
          [state |-> "open", next |-> Len(feed) + 1, left |-> Limit]]
    /\ UNCHANGED <<feed, queue, user, flush, offered, refused, excused>>

(* The room has no createHistoryStream: one call of processPublishQueue.    *)
(* No connection: sendRPCRequest: runs the completion and returns -1, and   *)
(* both call it.                                                            *)
SyncNotPossible(r, k) ==
    /\ Spend(r, k)
    /\ syncing' = [syncing EXCEPT ![r] = FALSE]
    /\ streams' = [streams EXCEPT ![r][k].state = "over"]
    /\ \E n \in {1, 2} : Flush(r, n)
    /\ UNCHANGED <<feed, queue, user, offered, refused, excused>>

(* appendMessage: takes an old message only on top of the one before it. *)
Fits(n) == n = Len(feed) + 1 /\ (n > 1 => feed[n - 1] = n - 1)

SyncValue(r, k) ==
    /\ ~Busy(r) /\ streams[r][k].state = "open"
    /\ streams[r][k].next <= Old[r] /\ streams[r][k].left > 0
    /\ LET n == streams[r][k].next
       IN  /\ feed' = IF Fits(n) THEN Append(feed, n) ELSE feed
           /\ streams' = [streams EXCEPT ![r][k].next = n + 1,
                                         ![r][k].left = @ - 1]
    /\ UNCHANGED <<syncing, queue, user, flush, offered, refused, excused>>

(* Mutant: the end of the stream does not flush the queue. *)
SyncEndsOnly(r, k) ==
    /\ ~Busy(r) /\ streams[r][k].state = "open"
    /\ streams' = [streams EXCEPT ![r][k].state = "over"]
    /\ syncing' = [syncing EXCEPT ![r] = FALSE]
    /\ UNCHANGED <<feed, queue, user, flush, offered, refused, excused>>

(* After the last message or the limit, or with an error at any time. *)
SyncEnds(r, k) ==
    /\ ~Busy(r) /\ streams[r][k].state = "open"
    /\ streams' = [streams EXCEPT ![r][k].state = "over"]
    /\ syncing' = [syncing EXCEPT ![r] = FALSE]
    /\ Flush(r, 1)
    /\ UNCHANGED <<feed, queue, user, offered, refused, excused>>

(* A lost connection silences the open streams; disconnect also resets      *)
(* isSyncingLocalFeed.                                                      *)
ConnectionLost(r) ==
    /\ \E k \in Syncs : streams[r][k].state = "open"
    /\ streams' = [streams EXCEPT ![r] =
          [k \in Syncs |-> IF @[k].state = "open"
                           THEN [@[k] EXCEPT !.state = "over"] ELSE @[k]]]
    /\ \E keep \in BOOLEAN :
          syncing' = [syncing EXCEPT ![r] = @ /\ keep]
    /\ excused' = excused \cup ToSet(queue[r])
    /\ UNCHANGED <<feed, queue, user, flush, offered, refused>>

-----------------------------------------------------------------------------
(* publishLocalMessageWithContent: on the main thread. *)

Publish(r, c) ==
    /\ user.at = "idle" /\ c \in offered
    /\ offered' = offered \ {c}
    /\ user' = [at |-> IF syncing[r] THEN "enqueue" ELSE "read",
                room |-> r, item |-> c]
    /\ UNCHANGED <<feed, clients, refused, excused>>

AddToQueue(r) ==
    /\ user.at = "enqueue" /\ user.room = r /\ ~Busy(r)
    /\ queue' = [queue EXCEPT ![r] = Append(@, user.item)]
    /\ user' = Idle
    /\ UNCHANGED <<feed, syncing, streams, flush, offered, refused, excused>>

(* publishMessageNow: the message is signed with the sequence read here. *)
ReadFeedState ==
    /\ user.at = "read"
    /\ user' = [at |-> "append", item |-> user.item, seq |-> Len(feed) + 1]
    /\ UNCHANGED <<feed, clients, offered, refused, excused>>

Accepts(seq) == seq = Len(feed) + 1

AppendNow ==
    /\ user.at = "append"
    /\ IF Accepts(user.seq)
       THEN feed' = Append(feed, user.item) /\ UNCHANGED refused
       ELSE refused' = refused \cup {user.item} /\ UNCHANGED feed
    /\ user' = Idle
    /\ UNCHANGED <<clients, offered, excused>>

-----------------------------------------------------------------------------
(* processPublishQueue in the handler of room r. *)

FlushReturns(r) ==
    flush' = [flush EXCEPT ![r] =
        IF @.runs > 1 THEN [at |-> "start", runs |-> @.runs - 1] ELSE Idle]

FlushStarts(r) ==
    /\ flush[r].at = "start"
    /\ IF queue[r] = <<>> \/ syncing[r] THEN FlushReturns(r)
       ELSE flush' = [flush EXCEPT ![r] =
                [at |-> "read", runs |-> @.runs, todo |-> queue[r],
                 failed |-> <<>>]]
    /\ UNCHANGED <<feed, syncing, queue, streams, user, offered, refused, excused>>

FlushReads(r) ==
    /\ flush[r].at = "read"
    /\ flush' = [flush EXCEPT ![r] =
          [at |-> "append", runs |-> @.runs, todo |-> @.todo,
           failed |-> @.failed, seq |-> Len(feed) + 1]]
    /\ UNCHANGED <<feed, syncing, queue, streams, user, offered, refused, excused>>

(* Mutant: the messages that could not be stored are forgotten. *)
RemainingNone(todo, failed) == <<>>

(* Mutant: a message that was stored is kept as well. *)
RemainingAll(todo, failed) == failed \o todo

(* What the queue holds when the last message has been tried. *)
Remaining(todo, failed) == failed

FlushAppends(r) ==
    /\ flush[r].at = "append"
    /\ LET c == Head(flush[r].todo)
           rest == Tail(flush[r].todo)
           stored == Accepts(flush[r].seq)
           failed == IF stored THEN flush[r].failed
                     ELSE Append(flush[r].failed, c)
       IN  /\ feed' = IF stored THEN Append(feed, c) ELSE feed
           /\ IF rest # <<>>
              THEN /\ flush' = [flush EXCEPT ![r] =
                         [at |-> "read", runs |-> @.runs, todo |-> rest,
                          failed |-> failed]]
                   /\ UNCHANGED queue
              ELSE /\ queue' = [queue EXCEPT ![r] =
                         Remaining(flush[r].todo, failed)]
                   /\ FlushReturns(r)
          /\ excused' = IF stored THEN excused ELSE excused \cup {c}
    /\ UNCHANGED <<syncing, streams, user, offered, refused>>

-----------------------------------------------------------------------------
Sync(r) ==
    \/ ConnectionLost(r)
    \/ \E k \in Syncs :
          StartSync(r, k) \/ SyncNotPossible(r, k) \/ SyncValue(r, k) \/ SyncEnds(r, k)

ProcessPublishQueue(r) == FlushStarts(r) \/ FlushReads(r) \/ FlushAppends(r)

Main(r) == AddToQueue(r) \/ ReadFeedState \/ AppendNow

Next ==
    \E r \in Rooms :
        Sync(r) \/ ProcessPublishQueue(r) \/ Main(r)
          \/ \E c \in Contents : Publish(r, c)

Spec == Init /\ [][Next]_vars

(* The threads run, and a stream that stays connected comes to its end. *)
FairSpec ==
    /\ Spec
    /\ \A r \in Rooms :
          /\ WF_vars(ProcessPublishQueue(r))
          /\ WF_vars(Main(r))
          /\ \A k \in Syncs : WF_vars(SyncEnds(r, k))

-----------------------------------------------------------------------------
(* Properties. *)

Stored == ToSet(feed)
Queued == UNION {ToSet(queue[r]) : r \in Rooms}

(* No content the user published is lost: it is stored, waits in a queue,   *)
(* is in the hands of the main thread, or its publication returned an error.*)
NothingLost ==
    \A c \in Contents :
        \/ c \in offered \cup refused \cup Stored \cup Queued
        \/ user.at # "idle" /\ user.item = c

(* No content is stored twice, however often the queues are flushed; it is  *)
(* still in the queue only while a flush has it, and an error is final.     *)
PublishedOnce ==
    /\ \A i, j \in 1 .. Len(feed) : feed[i] = feed[j] => i = j
    /\ refused \cap (Stored \cup Queued) = {}
    /\ \A r \in Rooms : ~Busy(r) => ToSet(queue[r]) \cap Stored = {}

(* A content that waits while its room syncs leaves the queue when the sync *)
(* ends, unless the connection is lost first or another publication takes   *)
(* its sequence number while the queue is flushed.                          *)
Open(r) == \E k \in Syncs : streams[r][k].state = "open"
QueueDrains ==
    \A r \in Rooms, c \in Contents :
        (c \in ToSet(queue[r]) /\ Open(r))
          ~> (c \notin ToSet(queue[r]) \/ c \in excused)

(* SSBRoomClient.m:1461-1462, the queue "prevents creating forked feeds":   *)
(* no stored message has the sequence number of another one a room holds.   *)
NoFork ==
    \A r \in Rooms : \A n \in 1 .. Old[r] : n <= Len(feed) => feed[n] = n

=============================================================================
