--------------------------- MODULE LocalFeedProofs ---------------------------
(***************************************************************************)
(* Theorems about LocalFeed, for every set of rooms and contents, whatever *)
(* the rooms hold and however often they are asked for it.                 *)
(*                                                                         *)
(* While a flush runs, the queue still holds what the flush has stored     *)
(* already.  The invariant says how the two copies of the queue relate:    *)
(* what is to be tried and what failed is all of it that is not stored.    *)
(***************************************************************************)
EXTENDS LocalFeed, SequenceTheorems, TLAPS

Distinct(s) == \A i, j \in 1 .. Len(s) : s[i] = s[j] => i = j

(* What the main thread is publishing. *)
Hand == IF user.at = "idle" THEN {} ELSE {user.item}

(* What the flush of r, if there is one, has not stored of its queue. *)
InFlush(r) == flush[r].at \in {"read", "append"}
Unstored(r) ==
    IF InFlush(r) THEN ToSet(flush[r].todo) \cup ToSet(flush[r].failed)
    ELSE ToSet(queue[r])

FeedOK ==
    /\ Distinct(feed)
    /\ \A i \in 1 .. Len(feed) : feed[i] \in Nat => feed[i] = i

PlacesOK ==
    /\ offered \cap refused = {} /\ (offered \cup refused) \cap Hand = {}
    /\ (offered \cup refused \cup Hand) \cap Stored = {}

QueuesOK ==
    /\ \A r \in Rooms :
          /\ Distinct(queue[r])
          /\ ToSet(queue[r]) \cap (offered \cup refused \cup Hand) = {}
          /\ Unstored(r) \cap Stored = {}
    /\ \A r, s \in Rooms : r # s => ToSet(queue[r]) \cap ToSet(queue[s]) = {}

FlushesOK ==
    \A r \in Rooms : InFlush(r) =>
        /\ Distinct(flush[r].todo) /\ Distinct(flush[r].failed)
        /\ ToSet(flush[r].todo) \cap ToSet(flush[r].failed) = {}
        /\ Unstored(r) \subseteq ToSet(queue[r])
        /\ ToSet(queue[r]) \subseteq Unstored(r) \cup Stored

IInv == TypeOK /\ FeedOK /\ PlacesOK /\ QueuesOK /\ FlushesOK /\ NothingLost

-----------------------------------------------------------------------------
(* The elements of a sequence, and of one with an element more or less.     *)
LEMMA Elements ==
    ASSUME NEW S, NEW s \in Seq(S)
    PROVE  /\ \A x : x \in ToSet(s) <=> \E i \in 1 .. Len(s) : s[i] = x
           /\ ToSet(s) \subseteq S
BY LenProperties DEF ToSet

(* The empty queue. *)
LEMMA NoElements == ToSet(<<>>) = {} /\ Distinct(<<>>)
BY DEF ToSet, Distinct

(* Adding to a queue adds one element. *)
LEMMA OneMore ==
    ASSUME NEW S, NEW s \in Seq(S), NEW e \in S
    PROVE  /\ Append(s, e) \in Seq(S)
           /\ ToSet(Append(s, e)) = ToSet(s) \cup {e}
           /\ Distinct(s) /\ e \notin ToSet(s) => Distinct(Append(s, e))
<1> DEFINE t == Append(s, e)
<1>1. /\ t \in Seq(S) /\ Len(t) = Len(s) + 1 /\ Len(s) \in Nat
      /\ \A i \in 1 .. Len(s) : t[i] = s[i]
      /\ t[Len(s) + 1] = e
  OBVIOUS
<1> HIDE DEF t
<1>2. ToSet(t) = ToSet(s) \cup {e}
  BY <1>1, Elements
<1>3. ASSUME Distinct(s), e \notin ToSet(s) PROVE Distinct(t)
  BY <1>1, <1>3, Elements DEF Distinct
<1> QED BY <1>1, <1>2, <1>3 DEF t

(* A queue is its first element and the rest. *)
LEMMA FirstAndRest ==
    ASSUME NEW S, NEW s \in Seq(S), s # <<>>
    PROVE  /\ Head(s) \in S /\ Tail(s) \in Seq(S)
           /\ ToSet(s) = ToSet(Tail(s)) \cup {Head(s)}
           /\ Distinct(s) => Head(s) \notin ToSet(Tail(s)) /\ Distinct(Tail(s))
<1> DEFINE t == Tail(s)
<1>1. /\ Head(s) \in S /\ t \in Seq(S) /\ Len(t) = Len(s) - 1 /\ Len(s) \in Nat \ {0}
      /\ \A i \in 1 .. Len(t) : t[i] = s[i + 1]
      /\ Head(s) = s[1]
  BY HeadTailProperties, EmptySeq, LenProperties
<1> HIDE DEF t
<1>2. ASSUME NEW x PROVE x \in ToSet(s) <=> x \in ToSet(t) \cup {Head(s)}
  <2>1. ASSUME NEW i \in 1 .. Len(s), s[i] = x PROVE x \in ToSet(t) \cup {Head(s)}
    <3>1. CASE i = 1
      BY <1>1, <2>1, <3>1
    <3>2. CASE i # 1
      <4>1. i - 1 \in 1 .. Len(t) /\ t[i - 1] = x
        BY <1>1, <2>1, <3>2
      <4> QED BY <1>1, <4>1, Elements
    <3> QED BY <3>1, <3>2
  <2>2. ASSUME NEW i \in 1 .. Len(t), t[i] = x PROVE x \in ToSet(s)
    <3>1. i + 1 \in 1 .. Len(s) /\ s[i + 1] = x
      BY <1>1, <2>2
    <3> QED BY <3>1, Elements
  <2>3. Head(s) \in ToSet(s)
    BY <1>1, Elements
  <2> QED BY <1>1, <2>1, <2>2, <2>3, Elements
<1>3. ASSUME Distinct(s) PROVE Head(s) \notin ToSet(t) /\ Distinct(t)
  <2>1. ASSUME NEW i \in 1 .. Len(t), t[i] = Head(s) PROVE FALSE
    BY <1>1, <1>3, <2>1 DEF Distinct
  <2>2. Distinct(t)
    BY <1>1, <1>3 DEF Distinct
  <2> QED BY <1>1, <2>1, <2>2, Elements
<1> QED BY <1>1, <1>2, <1>3 DEF t

-----------------------------------------------------------------------------
(* What a flush and the main thread carry in each of their phases. *)
LEMMA FlushShapes ==
    ASSUME NEW f \in Flushes
    PROVE  /\ f.at \in {"idle", "start", "read", "append"}
           /\ f.at # "idle" => f.runs \in Nat
           /\ f.at \in {"read", "append"} =>
                 f.todo \in Seq(Contents) /\ f.failed \in Seq(Contents)
           /\ f.at = "append" => f.seq \in Nat
BY DEF Flushes, Idle

(* What the main thread holds in each position. *)
LEMMA HandShapes ==
    /\ user \in Hands => user.at \in {"idle", "enqueue", "read", "append"}
    /\ user \in Hands /\ user.at # "idle" => user.item \in Contents
    /\ user \in Hands /\ user.at = "append" => user.seq \in Nat
BY DEF Hands, Idle

(* The end of a flush leaves the flushes of other rooms alone. *)
LEMMA NextFlush ==
    ASSUME NEW r \in Rooms, flush \in [Rooms -> Flushes], flush[r].at # "idle",
           FlushReturns(r)
    PROVE  /\ flush' \in [Rooms -> Flushes]
           /\ flush'[r].at \in {"idle", "start"}
           /\ \A q \in Rooms : q # r => flush'[q] = flush[q]
<1> DEFINE g == IF flush[r].runs > 1 THEN [at |-> "start", runs |-> flush[r].runs - 1]
                ELSE Idle
<1>1. flush' = [flush EXCEPT ![r] = g]
  BY DEF FlushReturns
<1>2. g \in Flushes /\ g.at \in {"idle", "start"}
  BY FlushShapes DEF Flushes, Idle
<1> QED BY <1>1, <1>2

(* A stream changed to a stream leaves the streams what they are. *)
Streams == [state : {"unused", "open", "over"}, next : Nat, left : 0 .. Limit]

(* A stream keeps its type when one field changes. *)
LEMMA StreamOf ==
    ASSUME NEW t \in Streams
    PROVE  /\ [t EXCEPT !.state = "over"] \in Streams
           /\ t.next \in Nat /\ t.left \in 0 .. Limit
           /\ \A n \in Nat : [t EXCEPT !.next = n] \in Streams
           /\ \A n \in 0 .. Limit : [t EXCEPT !.left = n] \in Streams
BY DEF Streams

(* So do all streams when one does. *)
LEMMA StreamChanged ==
    ASSUME NEW r \in Rooms, NEW k \in Syncs, NEW t \in Streams,
           streams \in [Rooms -> [Syncs -> Streams]],
           streams' = [streams EXCEPT ![r] = [@ EXCEPT ![k] = t]]
    PROVE  streams' \in [Rooms -> [Syncs -> Streams]]
<1>1. [streams[r] EXCEPT ![k] = t] \in [Syncs -> Streams]
  OBVIOUS
<1> QED BY <1>1

(* A stream that ends keeps the type of all. *)
LEMMA StreamOver ==
    ASSUME NEW r \in Rooms, NEW k \in Syncs,
           streams \in [Rooms -> [Syncs -> Streams]],
           streams' = [streams EXCEPT ![r][k].state = "over"]
    PROVE  streams' \in [Rooms -> [Syncs -> Streams]]
<1> DEFINE t == [streams[r][k] EXCEPT !.state = "over"]
<1>1. t \in Streams
  <2>1. streams[r][k] \in Streams
    OBVIOUS
  <2> QED BY <2>1, StreamOf
<1>2. streams' = [streams EXCEPT ![r] = [@ EXCEPT ![k] = t]]
  OBVIOUS
<1> HIDE DEF t
<1> QED BY <1>1, <1>2, StreamChanged

(* Every variable keeps its type. *)
LEMMA TypeStep == TypeOK /\ [Next]_vars => TypeOK'
<1> SUFFICES ASSUME TypeOK, [Next]_vars PROVE TypeOK'
  OBVIOUS
<1> USE LocalFeedAssumption DEF TypeOK
<1>1. ASSUME NEW r \in Rooms, Sync(r) PROVE TypeOK'
  <2>0. streams \in [Rooms -> [Syncs -> Streams]]
    BY DEF Streams
  <2>1. CASE ConnectionLost(r)
    <3> DEFINE row == [k \in Syncs |-> IF streams[r][k].state = "open"
                         THEN [streams[r][k] EXCEPT !.state = "over"]
                         ELSE streams[r][k]]
    <3>0. row \in [Syncs -> Streams]
      <4>1. ASSUME NEW k \in Syncs
            PROVE  [streams[r][k] EXCEPT !.state = "over"] \in Streams
        <5>1. streams[r][k] \in Streams
          BY <2>0
        <5> QED BY <5>1, StreamOf
      <4> QED BY <2>0, <4>1
    <3>1. streams' \in [Rooms -> [Syncs -> Streams]]
      <4>1. streams' = [streams EXCEPT ![r] = row]
        BY <2>1 DEF ConnectionLost
      <4> HIDE DEF row
      <4> QED BY <2>0, <3>0, <4>1
    <3>3. syncing' \in [Rooms -> BOOLEAN]
      BY <2>1 DEF ConnectionLost
    <3>2. ToSet(queue[r]) \subseteq Contents
      BY Elements
    <3> QED BY <2>1, <3>1, <3>2, <3>3 DEF ConnectionLost, Streams
  <2>2. ASSUME NEW k \in Syncs, StartSync(r, k) PROVE TypeOK'
    <3>1. Len(feed) + 1 \in Nat
      BY LenProperties
    <3>2. streams' \in [Rooms -> [Syncs -> Streams]]
      <4>1. [state |-> "open", next |-> Len(feed) + 1, left |-> Limit] \in Streams
        BY <3>1 DEF Streams
      <4> QED BY <2>0, <2>2, <4>1, StreamChanged DEF StartSync
    <3> QED BY <2>2, <3>2 DEF StartSync, Streams
  <2>3. ASSUME NEW k \in Syncs, SyncNotPossible(r, k) PROVE TypeOK'
    <3>1. streams' \in [Rooms -> [Syncs -> Streams]]
      BY <2>0, <2>3, StreamOver DEF SyncNotPossible
    <3>2. PICK n \in {1, 2} : flush' = [flush EXCEPT ![r] = [at |-> "start", runs |-> n]]
      BY <2>3 DEF SyncNotPossible, Flush
    <3>3. [at |-> "start", runs |-> n] \in Flushes
      BY DEF Flushes
    <3> QED BY <2>3, <3>1, <3>2, <3>3 DEF SyncNotPossible, Streams
  <2>4. ASSUME NEW k \in Syncs, SyncValue(r, k) PROVE TypeOK'
    <3> DEFINE n == streams[r][k].next
    <3>1. streams' \in [Rooms -> [Syncs -> Streams]]
      <4> DEFINE u == [streams[r][k] EXCEPT !.next = n + 1]
                 t == [u EXCEPT !.left = streams[r][k].left - 1]
      <4>1. t \in Streams
        <5>1. streams[r][k] \in Streams /\ streams[r][k].left > 0
          BY <2>0, <2>4 DEF SyncValue
        <5>2. u \in Streams /\ streams[r][k].left - 1 \in 0 .. Limit
          <6>1. streams[r][k].next + 1 \in Nat /\ streams[r][k].left - 1 \in 0 .. Limit
            BY <5>1, StreamOf, LocalFeedAssumption
          <6> QED BY <5>1, <6>1, StreamOf
        <5> HIDE DEF u
        <5> QED BY <5>2, StreamOf
      <4>2. streams' = [streams EXCEPT ![r] = [@ EXCEPT ![k] = t]]
        BY <2>0, <2>4 DEF SyncValue
      <4> HIDE DEF t
      <4> QED BY <2>0, <4>1, <4>2, StreamChanged
    <3>2. feed' \in Seq(Items)
      <4>1. CASE Fits(n)
        <5>1. n \in Items
          BY <4>1, LenProperties DEF Fits, Items
        <5> QED BY <2>4, <4>1, <5>1, OneMore DEF SyncValue
      <4>2. CASE ~Fits(n)
        BY <2>4, <4>2 DEF SyncValue
      <4> QED BY <4>1, <4>2
    <3> QED BY <2>4, <3>1, <3>2 DEF SyncValue, Streams
  <2>5. ASSUME NEW k \in Syncs, SyncEnds(r, k) PROVE TypeOK'
    <3>1. streams' \in [Rooms -> [Syncs -> Streams]]
      BY <2>0, <2>5, StreamOver DEF SyncEnds
    <3>2. [at |-> "start", runs |-> 1] \in Flushes
      BY DEF Flushes
    <3> QED BY <2>5, <3>1, <3>2 DEF SyncEnds, Flush, Streams
  <2> QED BY <1>1, <2>1, <2>2, <2>3, <2>4, <2>5 DEF Sync
<1>2. ASSUME NEW r \in Rooms, ProcessPublishQueue(r) PROVE TypeOK'
  <2> DEFINE f == flush[r]
  <2>0. f \in Flushes
    OBVIOUS
  <2>1. CASE FlushStarts(r)
    <3>1. CASE queue[r] = <<>> \/ syncing[r]
      BY <2>1, <3>1, NextFlush DEF FlushStarts
    <3>2. CASE ~(queue[r] = <<>> \/ syncing[r])
      <4> DEFINE g == [at |-> "read", runs |-> f.runs, todo |-> queue[r], failed |-> <<>>]
      <4>1. g \in Flushes /\ g.todo # <<>>
        BY <2>0, <2>1, <3>2, FlushShapes DEF Flushes, FlushStarts
      <4>2. flush' = [flush EXCEPT ![r] = g]
        BY <2>1, <3>2 DEF FlushStarts
      <4> HIDE DEF g
      <4> QED BY <2>1, <4>1, <4>2 DEF FlushStarts
    <3> QED BY <3>1, <3>2
  <2>2. CASE FlushReads(r)
    <3> DEFINE g == [at |-> "append", runs |-> f.runs, todo |-> f.todo,
                     failed |-> f.failed, seq |-> Len(feed) + 1]
    <3>1. g \in Flushes /\ g.todo # <<>>
      BY <2>0, <2>2, FlushShapes, LenProperties DEF Flushes, FlushReads
    <3>2. flush' = [flush EXCEPT ![r] = g]
      BY <2>2 DEF FlushReads
    <3> HIDE DEF g
    <3> QED BY <2>2, <3>1, <3>2 DEF FlushReads
  <2>3. CASE FlushAppends(r)
    <3> DEFINE c == Head(f.todo)
               rest == Tail(f.todo)
               stored == Accepts(f.seq)
               failed == IF stored THEN f.failed ELSE Append(f.failed, c)
    <3>1. /\ f.at = "append" /\ f.runs \in Nat /\ f.failed \in Seq(Contents)
          /\ f.todo \in Seq(Contents) /\ f.todo # <<>>
      BY <2>0, <2>3, FlushShapes DEF FlushAppends
    <3>2. c \in Contents /\ rest \in Seq(Contents)
      BY <3>1, FirstAndRest
    <3>3. failed \in Seq(Contents)
      BY <3>1, <3>2, OneMore
    <3>4. feed' \in Seq(Items)
      <4>1. c \in Items
        BY <3>2 DEF Items
      <4> QED BY <2>3, <4>1, OneMore DEF FlushAppends
    <3>5. excused' \subseteq Contents
      BY <2>3, <3>2 DEF FlushAppends
    <3>6. CASE rest # <<>>
      <4> DEFINE g == [at |-> "read", runs |-> f.runs, todo |-> rest, failed |-> failed]
      <4>1. g \in Flushes /\ g.todo # <<>>
        BY <3>1, <3>2, <3>3, <3>6 DEF Flushes
      <4>2. flush' = [flush EXCEPT ![r] = g] /\ UNCHANGED queue
        BY <2>3, <3>6 DEF FlushAppends
      <4> HIDE DEF g
      <4> QED BY <2>3, <3>4, <3>5, <4>1, <4>2 DEF FlushAppends
    <3>7. CASE rest = <<>>
      <4>1. queue' = [queue EXCEPT ![r] = failed] /\ FlushReturns(r)
        BY <2>3, <3>7 DEF FlushAppends, Remaining
      <4> HIDE DEF failed
      <4>2. queue' \in [Rooms -> Seq(Contents)]
        BY <3>3, <4>1
      <4> QED BY <2>3, <3>1, <3>4, <3>5, <4>1, <4>2, NextFlush DEF FlushAppends
    <3> QED BY <3>6, <3>7
  <2> QED BY <1>2, <2>1, <2>2, <2>3 DEF ProcessPublishQueue
<1>3. ASSUME NEW r \in Rooms, Main(r) PROVE TypeOK'
  <2>1. CASE AddToQueue(r)
    <3>1. user.item \in Contents /\ Idle \in Hands
      BY <2>1, HandShapes DEF AddToQueue, Hands
    <3>2. Append(queue[r], user.item) \in Seq(Contents)
      BY <3>1, OneMore
    <3> QED BY <2>1, <3>1, <3>2 DEF AddToQueue
  <2>2. CASE ReadFeedState
    <3>1. user.item \in Contents /\ Len(feed) + 1 \in Nat
      BY <2>2, HandShapes, LenProperties DEF ReadFeedState
    <3>2. user' \in Hands
      BY <2>2, <3>1 DEF ReadFeedState, Hands
    <3> QED BY <2>2, <3>2 DEF ReadFeedState, clients
  <2>3. CASE AppendNow
    <3>1. user.item \in Contents /\ user.item \in Items /\ Idle \in Hands
      BY <2>3, HandShapes DEF AppendNow, Hands, Items
    <3>2. feed' \in Seq(Items) /\ refused' \subseteq Contents
      <4>1. Append(feed, user.item) \in Seq(Items)
        BY <3>1, OneMore
      <4> QED BY <2>3, <3>1, <4>1 DEF AppendNow
    <3> QED BY <2>3, <3>1, <3>2 DEF AppendNow, clients
  <2> QED BY <1>3, <2>1, <2>2, <2>3 DEF Main
<1>4. ASSUME NEW r \in Rooms, NEW c \in Contents, Publish(r, c) PROVE TypeOK'
  <2>1. user' \in Hands
    BY <1>4 DEF Publish, Hands
  <2> QED BY <1>4, <2>1 DEF Publish, clients
<1>5. CASE UNCHANGED vars
  BY <1>5 DEF vars, clients
<1> QED BY <1>1, <1>2, <1>3, <1>4, <1>5 DEF Next

-----------------------------------------------------------------------------
(* The parts of the invariant that the type invariant says nothing of, for  *)
(* a step that moves no message: what is stored, queued, offered, refused   *)
(* and published stays, and so does what each flush has in hand.            *)
Lost(c) == c \notin offered \cup refused \cup Stored \cup Queued \cup Hand

(* The property in the words of the invariant. *)
LEMMA NothingLostIs == NothingLost <=> \A c \in Contents : ~Lost(c)
BY DEF NothingLost, Lost, Hand

(* A step that touches neither feed, queues nor the hand of a thread keeps IInv. *)
LEMMA Framed ==
    ASSUME IInv, TypeOK', UNCHANGED <<feed, queue, offered, refused>>, Hand' = Hand,
           \A q \in Rooms :
              /\ InFlush(q)' <=> InFlush(q)
              /\ InFlush(q) => /\ flush'[q].todo = flush[q].todo
                               /\ flush'[q].failed = flush[q].failed
    PROVE  IInv'
<1>1. \A q \in Rooms : Unstored(q)' = Unstored(q)
  BY DEF Unstored
<1>2. Stored' = Stored /\ Queued' = Queued
  BY DEF Stored, Queued
<1>3. FeedOK' /\ PlacesOK'
  BY <1>2 DEF IInv, FeedOK, PlacesOK
<1>4. QueuesOK'
  BY <1>1, <1>2 DEF IInv, QueuesOK
<1>5. FlushesOK'
  BY <1>1, <1>2 DEF IInv, FlushesOK
<1>6. NothingLost'
  BY <1>2, NothingLostIs DEF IInv, NothingLost, Hand
<1> QED BY <1>3, <1>4, <1>5, <1>6 DEF IInv

(* A content that is stored was in one place only, and it was not stored.   *)
LEMMA FeedGrows ==
    ASSUME TypeOK, FeedOK, NEW c \in Items, c \notin Stored, feed' = Append(feed, c),
           c \in Nat => c = Len(feed) + 1
    PROVE  FeedOK' /\ Stored' = Stored \cup {c}
<1>1. /\ Stored' = Stored \cup {c}
      /\ Distinct(feed')
  BY OneMore DEF TypeOK, FeedOK, Stored
<1>2. /\ Len(feed) \in Nat /\ Len(feed') = Len(feed) + 1
      /\ \A i \in 1 .. Len(feed) : feed'[i] = feed[i]
      /\ feed'[Len(feed) + 1] = c
  BY DEF TypeOK
<1>3. ASSUME NEW i \in 1 .. Len(feed'), feed'[i] \in Nat PROVE feed'[i] = i
  BY <1>2, <1>3 DEF FeedOK
<1> QED BY <1>1, <1>3 DEF FeedOK

(* A message that a sync brings is never one that the user publishes. *)
LEMMA SyncValueSound ==
    ASSUME IInv, TypeOK', NEW r \in Rooms, NEW k \in Syncs, SyncValue(r, k)
    PROVE  IInv'
<1> DEFINE n == streams[r][k].next
<1>0. /\ UNCHANGED <<queue, offered, refused, user, flush>>
      /\ feed' = IF Fits(n) THEN Append(feed, n) ELSE feed
  BY DEF SyncValue
<1>1. CASE ~Fits(n)
  BY <1>0, <1>1, Framed DEF Hand, InFlush
<1>2. CASE Fits(n)
  <2>0. TypeOK /\ FeedOK
    BY DEF IInv
  <2>1. n = Len(feed) + 1 /\ n \in Nat \ {0} /\ n \in Items /\ n \notin Contents
    BY <1>2, <2>0, LenProperties, LocalFeedAssumption DEF Fits, Items, TypeOK
  <2>2. n \notin Stored
    <3>1. feed \in Seq(Items)
      BY <2>0 DEF TypeOK
    <3>2. ASSUME NEW i \in 1 .. Len(feed), feed[i] = n PROVE FALSE
      BY <2>0, <2>1, <3>1, <3>2, LenProperties DEF FeedOK
    <3> QED BY <3>1, <3>2, Elements DEF Stored
  <2>3. FeedOK' /\ Stored' = Stored \cup {n}
    BY <1>0, <1>2, <2>0, <2>1, <2>2, FeedGrows
  <2>4. Hand' = Hand /\ Queued' = Queued /\ \A q \in Rooms : Unstored(q)' = Unstored(q)
    BY <1>0 DEF Hand, Queued, Unstored, InFlush
  <2>5. /\ offered \cup refused \cup Hand \subseteq Contents
        /\ \A q \in Rooms : Unstored(q) \subseteq Contents
    <3>1. Hand \subseteq Contents /\ offered \subseteq Contents /\ refused \subseteq Contents
      BY <2>0, HandShapes DEF TypeOK, Hand
    <3>2. ASSUME NEW q \in Rooms PROVE Unstored(q) \subseteq Contents
      <4>1. flush[q] \in Flushes /\ queue[q] \in Seq(Contents)
        BY <2>0 DEF TypeOK
      <4> QED BY <4>1, FlushShapes, Elements DEF Unstored, InFlush
    <3> QED BY <3>1, <3>2
  <2>6. PlacesOK'
    BY <1>0, <2>1, <2>3, <2>4, <2>5 DEF IInv, PlacesOK
  <2>7. QueuesOK'
    BY <1>0, <2>1, <2>3, <2>4, <2>5 DEF IInv, QueuesOK
  <2>8. FlushesOK'
    BY <1>0, <2>3, <2>4 DEF IInv, FlushesOK, InFlush
  <2>9. NothingLost'
    BY <1>0, <2>3, <2>4 DEF IInv, NothingLost
  <2> QED BY <2>3, <2>6, <2>7, <2>8, <2>9 DEF IInv
<1> QED BY <1>1, <1>2

(* The main thread takes a content, and gives it to a queue or the feed.    *)
LEMMA PublishSound ==
    ASSUME IInv, TypeOK', NEW r \in Rooms, NEW c \in Contents, Publish(r, c)
    PROVE  IInv'
<1>1. /\ Hand = {} /\ Hand' = {c} /\ c \in offered /\ offered' = offered \ {c}
      /\ UNCHANGED <<feed, queue, flush, refused>>
  BY DEF Publish, Hand, clients
<1>2. Stored' = Stored /\ Queued' = Queued
      /\ \A q \in Rooms : Unstored(q)' = Unstored(q) /\ (InFlush(q)' <=> InFlush(q))
  BY <1>1 DEF Stored, Queued, Unstored, InFlush
<1>3. FeedOK' /\ FlushesOK'
  BY <1>1, <1>2 DEF IInv, FeedOK, FlushesOK
<1>4. PlacesOK'
  BY <1>1, <1>2 DEF IInv, PlacesOK
<1>5. QueuesOK'
  BY <1>1, <1>2 DEF IInv, QueuesOK
<1>6. NothingLost'
  BY <1>1, <1>2 DEF IInv, NothingLost, Hand
<1> QED BY <1>3, <1>4, <1>5, <1>6 DEF IInv

(* Queueing moves a content from the main thread to one room's queue. *)
LEMMA AddToQueueSound ==
    ASSUME IInv, TypeOK', NEW r \in Rooms, AddToQueue(r)
    PROVE  IInv'
<1> DEFINE c == user.item
<1>0. c \in Contents /\ queue \in [Rooms -> Seq(Contents)]
  BY HandShapes DEF IInv, TypeOK, AddToQueue
<1>1. /\ Hand = {c} /\ Hand' = {}
      /\ UNCHANGED <<feed, flush, offered, refused>>
      /\ queue' = [queue EXCEPT ![r] = Append(@, c)]
  BY DEF AddToQueue, Hand, Idle
<1>2. ToSet(queue[r]) \cap {c} = {}
  BY <1>1 DEF IInv, QueuesOK
<1>3. /\ ToSet(queue'[r]) = ToSet(queue[r]) \cup {c} /\ Distinct(queue'[r])
      /\ \A q \in Rooms : q # r => queue'[q] = queue[q]
  <2>1. queue[r] \in Seq(Contents) /\ Distinct(queue[r])
    BY <1>0 DEF IInv, QueuesOK
  <2>2. queue'[r] = Append(queue[r], c)
    BY <1>0, <1>1
  <2> QED BY <1>0, <1>1, <1>2, <2>1, <2>2, OneMore
<1>4. Stored' = Stored /\ \A q \in Rooms : InFlush(q)' <=> InFlush(q)
  BY <1>1 DEF Stored, InFlush
<1>5. ~InFlush(r) /\ Unstored(r) = ToSet(queue[r]) /\ Unstored(r)' = ToSet(queue'[r])
  BY <1>4 DEF AddToQueue, Busy, InFlush, Unstored
<1>6. \A q \in Rooms : q # r => Unstored(q)' = Unstored(q)
  BY <1>1, <1>3, <1>4 DEF Unstored
<1> HIDE DEF c
<1>7. FeedOK'
  BY <1>1 DEF IInv, FeedOK
<1>8. PlacesOK'
  BY <1>1, <1>4 DEF IInv, PlacesOK
<1>9. QueuesOK'
  <2>1. c \notin Stored /\ c \notin offered \cup refused
        /\ \A q \in Rooms : c \notin ToSet(queue[q])
    BY <1>1 DEF IInv, PlacesOK, QueuesOK
  <2>2. ASSUME NEW q \in Rooms
        PROVE /\ Distinct(queue'[q])
              /\ ToSet(queue'[q]) \cap (offered' \cup refused' \cup Hand') = {}
              /\ Unstored(q)' \cap Stored' = {}
    BY <1>1, <1>3, <1>4, <1>5, <1>6, <2>1 DEF IInv, QueuesOK
  <2>3. ASSUME NEW p \in Rooms, NEW q \in Rooms, p # q
        PROVE  ToSet(queue'[p]) \cap ToSet(queue'[q]) = {}
    BY <1>3, <2>1, <2>3 DEF IInv, QueuesOK
  <2> QED BY <2>2, <2>3 DEF QueuesOK
<1>10. FlushesOK'
  BY <1>1, <1>3, <1>4, <1>5, <1>6 DEF IInv, FlushesOK
<1>11. NothingLost'
  <2>1. Queued' = Queued \cup {c}
    BY <1>3 DEF Queued
  <2>2. ASSUME NEW d \in Contents PROVE ~Lost(d)'
    BY <1>1, <1>4, <2>1, NothingLostIs DEF IInv, Lost
  <2> QED BY <2>2, NothingLostIs DEF NothingLost, Lost, Hand
<1> QED BY <1>7, <1>8, <1>9, <1>10, <1>11 DEF IInv

(* Publishing at once moves it to the feed, or out with an error. *)
LEMMA AppendNowSound ==
    ASSUME IInv, TypeOK', AppendNow
    PROVE  IInv'
<1> DEFINE c == user.item
<1>0. c \in Contents /\ c \in Items /\ c \notin Nat
  BY HandShapes, LocalFeedAssumption DEF IInv, TypeOK, AppendNow, Items
<1>1. /\ Hand = {c} /\ Hand' = {} /\ UNCHANGED <<queue, flush, offered>>
      /\ \/ feed' = Append(feed, c) /\ UNCHANGED refused
         \/ refused' = refused \cup {c} /\ UNCHANGED feed
  BY DEF AppendNow, Hand, Idle, clients
<1> HIDE DEF c
<1>2. /\ c \notin offered \cup refused \cup Stored
      /\ \A q \in Rooms : c \notin ToSet(queue[q])
  BY <1>1 DEF IInv, PlacesOK, QueuesOK
<1>3. /\ \A q \in Rooms : (InFlush(q)' <=> InFlush(q)) /\ Unstored(q)' = Unstored(q)
      /\ Queued' = Queued
  BY <1>1 DEF InFlush, Unstored, Queued
<1>4. \A q \in Rooms : Unstored(q) \subseteq ToSet(queue[q])
  BY DEF IInv, FlushesOK, Unstored
<1>5. CASE feed' = Append(feed, c) /\ UNCHANGED refused
  <2>1. FeedOK' /\ Stored' = Stored \cup {c}
    BY <1>0, <1>2, <1>5, FeedGrows DEF IInv
  <2>2. PlacesOK'
    BY <1>1, <1>2, <1>5, <2>1 DEF IInv, PlacesOK
  <2>3. QueuesOK'
    BY <1>1, <1>2, <1>3, <1>4, <1>5, <2>1 DEF IInv, QueuesOK
  <2>4. FlushesOK'
    BY <1>1, <1>3, <2>1 DEF IInv, FlushesOK
  <2>5. NothingLost'
    <3>1. ASSUME NEW d \in Contents PROVE ~Lost(d)'
      BY <1>1, <1>3, <1>5, <2>1, NothingLostIs DEF IInv, Lost
    <3> QED BY <3>1 DEF NothingLost, Lost, Hand
  <2> QED BY <2>1, <2>2, <2>3, <2>4, <2>5 DEF IInv
<1>6. CASE refused' = refused \cup {c} /\ UNCHANGED feed
  <2>1. FeedOK' /\ Stored' = Stored
    BY <1>6 DEF IInv, FeedOK, Stored
  <2>2. PlacesOK'
    BY <1>1, <1>2, <1>6, <2>1 DEF IInv, PlacesOK
  <2>3. QueuesOK'
    BY <1>1, <1>2, <1>3, <1>6, <2>1 DEF IInv, QueuesOK
  <2>4. FlushesOK'
    BY <1>1, <1>3, <2>1 DEF IInv, FlushesOK
  <2>5. NothingLost'
    <3>1. ASSUME NEW d \in Contents PROVE ~Lost(d)'
      BY <1>1, <1>3, <1>6, <2>1, NothingLostIs DEF IInv, Lost
    <3> QED BY <3>1 DEF NothingLost, Lost, Hand
  <2> QED BY <2>1, <2>2, <2>3, <2>4, <2>5 DEF IInv
<1> QED BY <1>1, <1>5, <1>6

(* A flush begins with the whole queue, none of which is stored.            *)
LEMMA FlushStartsSound ==
    ASSUME IInv, TypeOK', NEW r \in Rooms, FlushStarts(r)
    PROVE  IInv'
<1>0. /\ flush \in [Rooms -> Flushes] /\ ~InFlush(r) /\ flush[r].at # "idle"
      /\ UNCHANGED <<feed, queue, user, offered, refused>>
  BY DEF IInv, TypeOK, FlushStarts, InFlush
<1>1. CASE queue[r] = <<>> \/ syncing[r]
  <2>1. flush'[r].at \in {"idle", "start"} /\ \A q \in Rooms : q # r => flush'[q] = flush[q]
    BY <1>0, <1>1, NextFlush DEF FlushStarts
  <2> QED BY <1>0, <2>1, Framed DEF Hand, InFlush
<1>2. CASE ~(queue[r] = <<>> \/ syncing[r])
  <2>1. /\ flush'[r].at = "read" /\ flush'[r].todo = queue[r] /\ flush'[r].failed = <<>>
        /\ \A q \in Rooms : q # r => flush'[q] = flush[q]
    BY <1>0, <1>2 DEF FlushStarts
  <2>2. Hand' = Hand /\ Stored' = Stored /\ Queued' = Queued
    BY <1>0 DEF Hand, Stored, Queued
  <2>3. \A q \in Rooms : Unstored(q)' = Unstored(q)
    BY <1>0, <2>1, NoElements DEF Unstored, InFlush
  <2>4. FeedOK' /\ PlacesOK' /\ QueuesOK'
    BY <1>0, <2>2, <2>3 DEF IInv, FeedOK, PlacesOK, QueuesOK
  <2>5. FlushesOK'
    <3>1. ASSUME NEW q \in Rooms, q # r, InFlush(q)'
          PROVE /\ Distinct(flush'[q].todo) /\ Distinct(flush'[q].failed)
                /\ ToSet(flush'[q].todo) \cap ToSet(flush'[q].failed) = {}
                /\ Unstored(q)' \subseteq ToSet(queue'[q])
                /\ ToSet(queue'[q]) \subseteq Unstored(q)' \cup Stored'
      BY <1>0, <2>1, <2>2, <2>3, <3>1 DEF IInv, FlushesOK, InFlush
    <3>2. /\ Distinct(flush'[r].todo) /\ Distinct(flush'[r].failed)
          /\ ToSet(flush'[r].todo) \cap ToSet(flush'[r].failed) = {}
          /\ Unstored(r)' = ToSet(queue'[r])
      BY <1>0, <2>1, <2>3, NoElements DEF IInv, QueuesOK, Unstored
    <3> QED BY <3>1, <3>2 DEF FlushesOK
  <2>6. NothingLost'
    BY <1>0, <2>2 DEF IInv, NothingLost
  <2> QED BY <2>4, <2>5, <2>6 DEF IInv
<1> QED BY <1>1, <1>2

(* The first of what a flush has to try is stored, or fails; with the last  *)
(* one, the queue becomes what failed.                                      *)
LEMMA FlushAppendsSound ==
    ASSUME IInv, TypeOK', NEW r \in Rooms, FlushAppends(r)
    PROVE  IInv'
<1> DEFINE f == flush[r]
           c == Head(f.todo)
           rest == Tail(f.todo)
           stored == Accepts(f.seq)
           failed == IF stored THEN f.failed ELSE Append(f.failed, c)
<1>0. /\ f \in Flushes /\ f.at = "append" /\ InFlush(r) /\ f.todo # <<>>
      /\ f.todo \in Seq(Contents) /\ f.failed \in Seq(Contents)
      /\ flush \in [Rooms -> Flushes] /\ queue \in [Rooms -> Seq(Contents)]
      /\ UNCHANGED <<user, offered, refused>>
  BY FlushShapes DEF IInv, TypeOK, FlushAppends, InFlush
<1>1. /\ c \in Contents /\ c \in Items /\ c \notin Nat /\ rest \in Seq(Contents)
      /\ ToSet(f.todo) = ToSet(rest) \cup {c}
      /\ c \notin ToSet(rest) /\ Distinct(rest)
  BY <1>0, FirstAndRest, LocalFeedAssumption DEF IInv, FlushesOK, Items
<1>2. /\ Distinct(f.failed) /\ c \notin ToSet(f.failed)
      /\ ToSet(rest) \cap ToSet(f.failed) = {}
      /\ Unstored(r) = ToSet(rest) \cup {c} \cup ToSet(f.failed)
      /\ Unstored(r) \subseteq ToSet(queue[r])
      /\ ToSet(queue[r]) \subseteq Unstored(r) \cup Stored
      /\ Unstored(r) \cap Stored = {}
  <2>1. /\ Distinct(f.failed) /\ ToSet(f.todo) \cap ToSet(f.failed) = {}
        /\ Unstored(r) \subseteq ToSet(queue[r])
        /\ ToSet(queue[r]) \subseteq Unstored(r) \cup Stored
    BY <1>0 DEF IInv, FlushesOK
  <2>2. Unstored(r) = ToSet(f.todo) \cup ToSet(f.failed)
    BY <1>0 DEF Unstored
  <2>3. Unstored(r) \cap Stored = {}
    BY DEF IInv, QueuesOK
  <2> HIDE DEF f, c, rest
  <2> QED BY <1>1, <2>1, <2>2, <2>3
<1>3. /\ failed \in Seq(Contents) /\ Distinct(failed)
      /\ ToSet(failed) = IF stored THEN ToSet(f.failed) ELSE ToSet(f.failed) \cup {c}
  <2> HIDE DEF f, c, rest, stored
  <2>1. CASE stored
    BY <1>0, <1>2, <2>1
  <2>2. CASE ~stored
    BY <1>0, <1>1, <1>2, <2>2, OneMore
  <2> QED BY <2>1, <2>2
<1>4. FeedOK' /\ Stored' = IF stored THEN Stored \cup {c} ELSE Stored
  <2>1. CASE stored
    <3>1. feed' = Append(feed, c)
      BY <2>1 DEF FlushAppends
    <3> QED BY <1>1, <1>2, <2>1, <3>1, FeedGrows DEF IInv
  <2>2. CASE ~stored
    BY <2>2 DEF FlushAppends, IInv, FeedOK, Stored
  <2> QED BY <2>1, <2>2
<1>5. /\ \A q \in Rooms : q # r => flush'[q] = flush[q] /\ queue'[q] = queue[q]
      /\ \/ /\ rest # <<>> /\ queue'[r] = queue[r] /\ InFlush(r)'
            /\ flush'[r].todo = rest /\ flush'[r].failed = failed
         \/ rest = <<>> /\ queue'[r] = failed /\ ~InFlush(r)'
  <2>1. CASE rest # <<>>
    <3>1. UNCHANGED queue /\ flush' = [flush EXCEPT ![r] =
              [at |-> "read", runs |-> @.runs, todo |-> rest, failed |-> failed]]
      BY <2>1 DEF FlushAppends
    <3> HIDE DEF rest, failed
    <3> QED BY <1>0, <2>1, <3>1 DEF InFlush
  <2>2. CASE rest = <<>>
    <3>1. queue' = [queue EXCEPT ![r] = failed] /\ FlushReturns(r)
      BY <2>2 DEF FlushAppends, Remaining
    <3> HIDE DEF rest, failed
    <3> QED BY <1>0, <2>2, <3>1, NextFlush DEF InFlush
  <2> QED BY <2>1, <2>2
<1> HIDE DEF f, c, rest, stored, failed
<1>6. /\ Hand' = Hand
      /\ \A q \in Rooms : q # r => (InFlush(q)' <=> InFlush(q)) /\ Unstored(q)' = Unstored(q)
      /\ Unstored(r)' = ToSet(rest) \cup ToSet(failed)
  BY <1>0, <1>5, NoElements DEF Hand, InFlush, Unstored
<1>7. /\ c \in ToSet(queue[r]) /\ c \notin offered \cup refused \cup Hand
      /\ \A q \in Rooms : q # r => c \notin ToSet(queue[q]) /\ c \notin Unstored(q)
  <2>1. c \in ToSet(queue[r])
    BY <1>2
  <2> QED BY <2>1 DEF IInv, QueuesOK, FlushesOK, Unstored
<1>8. /\ ToSet(queue'[r]) \subseteq ToSet(queue[r]) /\ Distinct(queue'[r])
      /\ Unstored(r)' \subseteq ToSet(queue'[r])
      /\ ToSet(queue'[r]) \subseteq Unstored(r)' \cup Stored'
      /\ ToSet(queue[r]) \subseteq ToSet(queue'[r]) \cup Stored'
      /\ Unstored(r)' \cap Stored' = {}
  <2>1. Unstored(r)' \cap Stored' = {} /\ ToSet(queue[r]) \subseteq Unstored(r)' \cup Stored'
        /\ Unstored(r)' \subseteq ToSet(queue[r])
    BY <1>1, <1>2, <1>3, <1>4, <1>6
  <2>2. CASE queue'[r] = queue[r]
    BY <2>1, <2>2 DEF IInv, QueuesOK
  <2>3. CASE rest = <<>> /\ queue'[r] = failed
    BY <1>3, <1>6, <2>1, <2>3, NoElements
  <2> QED BY <1>5, <2>2, <2>3
<1>9. PlacesOK'
  BY <1>0, <1>4, <1>6, <1>7 DEF IInv, PlacesOK
<1>10. QueuesOK'
  <2>1. ASSUME NEW q \in Rooms
        PROVE /\ Distinct(queue'[q])
              /\ ToSet(queue'[q]) \cap (offered' \cup refused' \cup Hand') = {}
              /\ Unstored(q)' \cap Stored' = {}
    <3>1. CASE q = r
      BY <1>0, <1>6, <1>8, <3>1 DEF IInv, QueuesOK
    <3>2. CASE q # r
      BY <1>0, <1>4, <1>5, <1>6, <1>7, <3>2 DEF IInv, QueuesOK
    <3> QED BY <3>1, <3>2
  <2>2. ASSUME NEW p \in Rooms, NEW q \in Rooms, p # q
        PROVE  ToSet(queue'[p]) \cap ToSet(queue'[q]) = {}
    <3>1. \A x \in Rooms : ToSet(queue'[x]) \subseteq ToSet(queue[x])
      BY <1>5, <1>8
    <3> QED BY <2>2, <3>1 DEF IInv, QueuesOK
  <2> QED BY <2>1, <2>2 DEF QueuesOK
<1>11. FlushesOK'
  <2>1. ASSUME NEW q \in Rooms, InFlush(q)'
        PROVE /\ Distinct(flush'[q].todo) /\ Distinct(flush'[q].failed)
              /\ ToSet(flush'[q].todo) \cap ToSet(flush'[q].failed) = {}
              /\ Unstored(q)' \subseteq ToSet(queue'[q])
              /\ ToSet(queue'[q]) \subseteq Unstored(q)' \cup Stored'
    <3>1. CASE q = r
      BY <1>1, <1>2, <1>3, <1>5, <1>8, <2>1, <3>1
    <3>2. CASE q # r
      BY <1>4, <1>5, <1>6, <2>1, <3>2 DEF IInv, FlushesOK
    <3> QED BY <3>1, <3>2
  <2> QED BY <2>1 DEF FlushesOK
<1>12. NothingLost'
  <2>1. Queued \subseteq Queued' \cup Stored'
    <3>1. ASSUME NEW q \in Rooms PROVE ToSet(queue[q]) \subseteq ToSet(queue'[q]) \cup Stored'
      BY <1>5, <1>8
    <3> QED BY <3>1 DEF Queued
  <2>2. ASSUME NEW d \in Contents PROVE ~Lost(d)'
    BY <1>0, <1>4, <1>6, <2>1, NothingLostIs DEF IInv, Lost
  <2> QED BY <2>2 DEF NothingLost, Lost, Hand
<1> QED BY <1>4, <1>9, <1>10, <1>11, <1>12 DEF IInv

-----------------------------------------------------------------------------
(* Every step keeps IInv, action by action. *)
LEMMA InvStep == IInv /\ [Next]_vars => IInv'
<1> SUFFICES ASSUME IInv, [Next]_vars PROVE IInv'
  OBVIOUS
<1>0. TypeOK'
  BY TypeStep DEF IInv
<1>1. ASSUME NEW r \in Rooms, Sync(r) PROVE IInv'
  <2>1. CASE ConnectionLost(r)
    BY <1>0, <2>1, Framed DEF ConnectionLost, Hand, InFlush
  <2>2. ASSUME NEW k \in Syncs, StartSync(r, k) PROVE IInv'
    BY <1>0, <2>2, Framed DEF StartSync, Hand, InFlush
  <2>3. ASSUME NEW k \in Syncs, SyncNotPossible(r, k) \/ SyncEnds(r, k) PROVE IInv'
    <3>1. /\ UNCHANGED <<feed, queue, user, offered, refused>> /\ ~InFlush(r)
          /\ \E n \in Nat : flush' = [flush EXCEPT ![r] = [at |-> "start", runs |-> n]]
      BY <2>3 DEF SyncNotPossible, SyncEnds, Flush, Busy, InFlush, Spend
    <3>2. flush \in [Rooms -> Flushes]
      BY DEF IInv, TypeOK
    <3> QED BY <1>0, <3>1, <3>2, Framed DEF Hand, InFlush
  <2>4. ASSUME NEW k \in Syncs, SyncValue(r, k) PROVE IInv'
    BY <1>0, <2>4, SyncValueSound
  <2> QED BY <1>1, <2>1, <2>2, <2>3, <2>4 DEF Sync
<1>2. ASSUME NEW r \in Rooms, ProcessPublishQueue(r) PROVE IInv'
  <2>1. CASE FlushReads(r)
    <3>1. flush \in [Rooms -> Flushes]
      BY DEF IInv, TypeOK
    <3> QED BY <1>0, <2>1, <3>1, Framed DEF FlushReads, Hand, InFlush
  <2> QED BY <1>0, <1>2, <2>1, FlushStartsSound, FlushAppendsSound DEF ProcessPublishQueue
<1>3. ASSUME NEW r \in Rooms, Main(r) PROVE IInv'
  <2>1. CASE ReadFeedState
    BY <1>0, <2>1, Framed DEF ReadFeedState, clients, Hand, InFlush
  <2> QED BY <1>0, <1>3, <2>1, AddToQueueSound, AppendNowSound DEF Main
<1>4. CASE UNCHANGED vars
  BY <1>0, <1>4, Framed DEF vars, clients, Hand, InFlush
<1> QED BY <1>0, <1>1, <1>2, <1>3, <1>4, PublishSound DEF Next

(* IInv holds before anything is published. *)
LEMMA InitInv == Init => IInv
<1> SUFFICES ASSUME Init PROVE IInv
  OBVIOUS
<1>1. TypeOK
  BY LocalFeedAssumption, EmptySeq DEF Init, TypeOK, Hands, Flushes, Idle
<1>2. /\ Hand = {} /\ Stored = {} /\ Queued = {} /\ refused = {} /\ feed = <<>>
      /\ \A r \in Rooms : queue[r] = <<>> /\ ~InFlush(r) /\ Unstored(r) = {}
  BY NoElements DEF Init, Hand, Stored, Queued, Unstored, InFlush, Idle
<1>3. FeedOK /\ PlacesOK /\ FlushesOK
  BY <1>2, EmptySeq DEF FeedOK, PlacesOK, FlushesOK, Distinct
<1>4. QueuesOK
  BY <1>2, NoElements DEF QueuesOK
<1>5. NothingLost
  BY DEF Init, NothingLost
<1> QED BY <1>1, <1>3, <1>4, <1>5 DEF IInv

(* Outside a flush a content is in one place; inside one, the copy and the queue
   agree on what is still to be tried. *)
THEOREM Invariance == Spec => []IInv
BY InitInv, InvStep, PTL DEF Spec

(* Every variable keeps its type, and every flush has something to try.     *)
THEOREM TypeCorrect == Spec => []TypeOK
<1>1. IInv => TypeOK
  BY DEF IInv
<1> QED BY Invariance, <1>1, PTL

(* Whatever the interleaving of the main thread, the handlers and what the  *)
(* rooms send back, no content the user published is lost.                  *)
THEOREM NothingIsLost == Spec => []NothingLost
<1>1. IInv => NothingLost
  BY DEF IInv
<1> QED BY Invariance, <1>1, PTL

(* No content is stored twice, and one that was refused or is stored is in  *)
(* no queue unless a flush is about to take it out.                         *)
THEOREM IsPublishedOnce == Spec => []PublishedOnce
<1>1. IInv => PublishedOnce
  <2> SUFFICES ASSUME IInv PROVE PublishedOnce
    OBVIOUS
  <2>1. \A i, j \in 1 .. Len(feed) : feed[i] = feed[j] => i = j
    BY DEF IInv, FeedOK, Distinct
  <2>2. refused \cap (Stored \cup Queued) = {}
    BY DEF IInv, PlacesOK, QueuesOK, Queued
  <2>3. \A r \in Rooms : ~Busy(r) => ToSet(queue[r]) \cap Stored = {}
    BY DEF IInv, QueuesOK, Unstored, InFlush, Busy
  <2> QED BY <2>1, <2>2, <2>3 DEF PublishedOnce
<1> QED BY Invariance, <1>1, PTL

=============================================================================
