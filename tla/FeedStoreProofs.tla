--------------------------- MODULE FeedStoreProofs ---------------------------
(***************************************************************************)
(* Theorems about FeedStore, for every set of messages and authors, every  *)
(* order of appends, every crash and every wipe.                           *)
(***************************************************************************)
EXTENDS FeedStore, SequenceTheorems, TLAPS

(* The two stack operations keep frames a stack of candidate sets. *)
LEMMA PushFrame ==
    ASSUME NEW s \in Seq(SUBSET Messages), NEW S \in SUBSET Messages
    PROVE  <<S>> \o s \in Seq(SUBSET Messages)
BY ConcatProperties, <<S>> \in Seq(SUBSET Messages)

(* Returning from a drain leaves a stack, too. *)
LEMMA PopFrame ==
    ASSUME NEW s \in Seq(SUBSET Messages), s # <<>>
    PROVE  /\ Head(s) \in SUBSET Messages
           /\ Tail(s) \in Seq(SUBSET Messages)
BY HeadTailProperties

(* TypeOK alone is not inductive: a running append has a message to work on. *)
WorkOK ==
    /\ pc \in {"clearDeps", "addDeps", "upsert", "unquarantine", "drain"} =>
          cur \in Messages
    /\ pc \notin {"idle"} \cup WipePhases => arg \in Messages
TypeInv == TypeOK /\ WorkOK

(* Every variable keeps its type, through crashes and wipes. *)
THEOREM TypeInvariant == Spec => []TypeInv
<1>1. Init => TypeInv
  BY DEF Init, TypeInv, TypeOK, WorkOK, EmptyFeedState, NoProfiles, NoReply, NoRow,
      Phases
<1>2. TypeInv /\ [Next]_vars => TypeInv'
  <2> SUFFICES ASSUME TypeInv, [Next]_vars PROVE TypeInv'
    OBVIOUS
  <2> USE MessagesAssumption DEF TypeInv, TypeOK, WorkOK, Phases,
        QuarantinePhases, CommitPhases, WipePhases, Return, NoReply
  <2>0. <<>> \in Seq(SUBSET Messages)
    BY EmptySeq
  <2>1. ASSUME NEW m \in Messages, AppendMessage(m) PROVE TypeInv'
    <3>1. CASE AppendInvalid(m)
      BY <3>1, <2>0 DEF AppendInvalid, tables
    <3>2. CASE AppendPast(m)
      BY <3>2, <2>0 DEF AppendPast, tables
    <3>3. CASE AppendQuarantine(m)
      <4>1. MissingDependencies(m) \subseteq Messages
        BY DEF MissingDependencies, Dependencies
      <4>2. CASE InsertAccepted(quarantine, m)
        <5>1. /\ quarantine' = quarantine \cup {m}
              /\ pc' = "clearDeps" /\ arg' = m /\ cur' = m
              /\ missing' = MissingDependencies(m) /\ reply' = NoReply
              /\ UNCHANGED <<messages, feedState, profiles, quarantineDeps,
                             frames, torn>>
          BY <3>3, <4>2 DEF AppendQuarantine
        <5>2. TypeOK'
          BY <4>1, <5>1
        <5>3. WorkOK'
          BY <5>1
        <5> QED BY <5>2, <5>3
      <4>3. CASE ~InsertAccepted(quarantine, m)
        <5>1. /\ Return(m, "insertFailed")
              /\ UNCHANGED <<messages, feedState, profiles, quarantine,
                             quarantineDeps, torn>>
          BY <3>3, <4>3 DEF AppendQuarantine
        <5>2. TypeOK'
          BY <5>1, <2>0
        <5>3. WorkOK'
          BY <5>1
        <5> QED BY <5>2, <5>3
      <4> QED BY <4>2, <4>3
    <3>4. CASE AppendDirect(m)
      <4>1. CASE InsertAccepted(messages, m)
        <5>1. /\ messages' = messages \cup {m}
              /\ pc' = "upsert" /\ arg' = m /\ cur' = m /\ reply' = NoReply
              /\ UNCHANGED <<feedState, profiles, quarantine, quarantineDeps,
                             missing, frames, torn>>
          BY <3>4, <4>1 DEF AppendDirect
        <5>2. TypeOK'
          BY <5>1
        <5>3. WorkOK'
          BY <5>1
        <5> QED BY <5>2, <5>3
      <4>2. CASE ~InsertAccepted(messages, m)
        <5>1. /\ Return(m, "insertFailed")
              /\ UNCHANGED <<messages, feedState, profiles, quarantine,
                             quarantineDeps, torn>>
          BY <3>4, <4>2 DEF AppendDirect
        <5>2. TypeOK'
          BY <5>1, <2>0
        <5>3. WorkOK'
          BY <5>1
        <5> QED BY <5>2, <5>3
      <4> QED BY <4>1, <4>2
    <3> QED BY <2>1, <3>1, <3>2, <3>3, <3>4 DEF AppendMessage
  <2>2. CASE WipeMessages
    BY <2>2 DEF WipeMessages
  <2>3. CASE QueueStep
    <3>1. CASE ClearDeps
      BY <3>1 DEF ClearDeps
    <3>2. CASE AddDep
      BY <3>2 DEF AddDep
    <3>3. CASE QuarantineDone
      BY <3>3, <2>0 DEF QuarantineDone, tables
    <3>4. CASE UpdateFeedState
      BY <3>4 DEF UpdateFeedState
    <3>5. CASE RemoveFromQuarantine
      BY <3>5 DEF RemoveFromQuarantine
    <3>6. CASE DrainQuarantine
      <4>1. DrainCandidates(cur) \in SUBSET Messages
        BY DEF DrainCandidates, BlockedBy, NextInLine
      <4>2. frames' \in Seq(SUBSET Messages)
        BY <3>6, <4>1, PushFrame DEF DrainQuarantine
      <4> QED BY <3>6, <4>2 DEF DrainQuarantine
    <3>7. CASE \E m \in Messages : TryRelease(m)
      <4> PICK m \in Messages : TryRelease(m)
        BY <3>7
      <4>1. frames' \in Seq(SUBSET Messages)
        BY PushFrame, PopFrame DEF TryRelease
      <4> QED BY <4>1 DEF TryRelease
    <3>8. CASE DrainReturns
      BY <3>8, PopFrame DEF DrainReturns, tables
    <3>9. CASE UpdateProfile
      BY <3>9, <2>0 DEF UpdateProfile
    <3>10. CASE WipeStep
      <4>1. CASE WipeFeedState
        BY <4>1 DEF WipeFeedState, EmptyFeedState, NoRow
      <4>2. CASE WipeProfiles
        BY <4>2 DEF WipeProfiles, NoProfiles
      <4>3. CASE WipeQuarantine
        BY <4>3 DEF WipeQuarantine
      <4>4. CASE WipeDeps
        BY <4>4 DEF WipeDeps
      <4> QED BY <3>10, <4>1, <4>2, <4>3, <4>4 DEF WipeStep
    <3> QED BY <2>3, <3>1, <3>2, <3>3, <3>4, <3>5, <3>6, <3>7, <3>8, <3>9,
          <3>10 DEF QueueStep
  <2>4. CASE Crash
    BY <2>4, <2>0 DEF Crash, CutShort, tables
  <2>5. CASE UNCHANGED vars
    BY <2>5 DEF vars, tables, volatile
  <2> QED BY <2>1, <2>2, <2>3, <2>4, <2>5 DEF Next
<1> QED BY <1>1, <1>2, PTL DEF Spec

(* The type invariant the runs check holds for every instance. *)
COROLLARY TypeCorrect == Spec => []TypeOK
BY TypeInvariant, PTL DEF TypeInv

-----------------------------------------------------------------------------
(* The rows of a feed are gapless.  FeedsIntact is not inductive: the proof *)
(* needs that the row between its INSERT and its feed_state update is the   *)
(* next of its feed, and how far a wipe has come.                           *)

SlotsUnique == \A m, n \in messages : SameSlot(m, n) => m = n
CurrentIsNext ==
    pc = "upsert" => /\ cur \in messages
                     /\ Sequence[cur] = ExpectedSeq(Author[cur])
WipeProgress ==
    /\ Wiping => messages = {}
    /\ pc \in WipePhases \ {"wipeState"} => feedState = EmptyFeedState
StateCovers ==
    ~Wiping /\ torn \cap {"commit", "wipe"} = {} =>
        \A m \in messages :
            \/ Sequence[m] <= MaxSequence(Author[m])
            \/ pc = "upsert" /\ m = cur
CommitInv ==
    SlotsUnique /\ CurrentIsNext /\ WipeProgress /\ FeedsIntact /\ StateCovers

(* A step that touches neither table, starts no commit, and is not part of *)
(* a wipe.                                                                 *)
LEMMA CommitFrame ==
    ASSUME CommitInv, ~Wiping, ~Wiping', UNCHANGED <<messages, feedState>>,
           pc' # "upsert", torn \subseteq torn',
           pc = "upsert" => "commit" \in torn'
    PROVE  CommitInv'
<1> USE DEF CommitInv
<1>1. SlotsUnique'
  BY DEF SlotsUnique, SameSlot
<1>2. CurrentIsNext'
  BY DEF CurrentIsNext
<1>3. WipeProgress'
  BY DEF WipeProgress, Wiping
<1>4. FeedsIntact'
  BY DEF FeedsIntact, FeedIntact, StoredBy, MaxSequence, MaxKey, ExpectedSeq
<1>5. StateCovers'
  BY DEF StateCovers, MaxSequence
<1> QED BY <1>1, <1>2, <1>3, <1>4, <1>5

(* INSERT INTO messages of the next message of a feed: by appendMessage: or *)
(* by the release from quarantine.                                          *)
LEMMA CommitInsert ==
    ASSUME TypeInv, CommitInv, ~Wiping, pc # "upsert",
           NEW m \in Messages, Sequence[m] = ExpectedSeq(Author[m]),
           InsertAccepted(messages, m), messages' = messages \cup {m},
           pc' = "upsert", cur' = m, UNCHANGED <<feedState, torn>>
    PROVE  CommitInv'
<1> USE MessagesAssumption DEF CommitInv
<1>1. SlotsUnique'
  BY DEF SlotsUnique, SameSlot, InsertAccepted
<1>2. CurrentIsNext'
  BY DEF CurrentIsNext, ExpectedSeq, MaxSequence
<1>3. WipeProgress'
  BY DEF WipeProgress, Wiping, WipePhases
<1>4. FeedsIntact'
  <2> SUFFICES ASSUME "wipe" \notin torn, NEW a \in Authors
               PROVE  FeedIntact(a)'
    BY DEF FeedsIntact
  <2>1. FeedIntact(a)
    BY DEF FeedsIntact
  <2>2. MaxSequence(a) \in Nat
    BY <2>1 DEF FeedIntact, NoRow, StoredBy, MaxSequence, MaxKey,
        ExpectedSeq, TypeInv, TypeOK
  <2> QED BY <2>1, <2>2 DEF FeedIntact, StoredBy, MaxSequence, MaxKey,
        ExpectedSeq
<1>5. StateCovers'
  BY DEF StateCovers, MaxSequence, Wiping
<1> QED BY <1>1, <1>2, <1>3, <1>4, <1>5

(* The feed_state row of the message just inserted: the feed is one longer, *)
(* and its tip is that message.                                             *)
LEMMA CommitUpsert ==
    ASSUME TypeInv, CommitInv, UpdateFeedState
    PROVE  CommitInv'
<1> USE MessagesAssumption DEF CommitInv
<1> DEFINE b == Author[cur]
<1>0. /\ cur \in messages /\ cur \in Messages /\ b \in Authors
      /\ ~Wiping /\ ~Wiping' /\ pc' # "upsert"
      /\ Sequence[cur] = MaxSequence(b) + 1
  BY DEF CurrentIsNext, ExpectedSeq, UpdateFeedState, Wiping, WipePhases,
      TypeInv, TypeOK
<1>1. /\ MaxSequence(b)' = Sequence[cur] /\ MaxKey(b)' = cur
      /\ \A a \in Authors \ {b} : feedState'[a] = feedState[a]
  BY <1>0 DEF UpdateFeedState, MaxSequence, MaxKey, TypeInv, TypeOK
<1>2. SlotsUnique'
  BY DEF SlotsUnique, SameSlot, UpdateFeedState
<1>3. CurrentIsNext' /\ WipeProgress'
  BY <1>0 DEF CurrentIsNext, WipeProgress, Wiping
<1>4. FeedsIntact'
  <2> SUFFICES ASSUME "wipe" \notin torn, NEW a \in Authors
               PROVE  FeedIntact(a)'
    BY DEF FeedsIntact, UpdateFeedState
  <2>1. FeedIntact(a)
    BY <1>0 DEF FeedsIntact
  <2>2. MaxSequence(a) \in Nat
    BY <2>1 DEF FeedIntact, NoRow, StoredBy, MaxSequence, MaxKey,
        ExpectedSeq, TypeInv, TypeOK
  <2>3. CASE a # b
    BY <1>1, <2>1, <2>3 DEF FeedIntact, StoredBy, MaxSequence, MaxKey,
        ExpectedSeq, UpdateFeedState
  <2>4. CASE a = b
    <3>0. /\ StoredBy(a)' = StoredBy(a) /\ cur \in StoredBy(a)
          /\ MaxSequence(a)' = MaxSequence(a) + 1
          /\ ExpectedSeq(a) = MaxSequence(a) + 1
          /\ ExpectedSeq(a)' = MaxSequence(a)' + 1
      BY <1>0, <1>1, <2>4 DEF StoredBy, ExpectedSeq, UpdateFeedState
    <3>1. \A i \in 1 .. MaxSequence(a)' : \E m \in StoredBy(a)' : Sequence[m] = i
      BY <1>0, <2>1, <2>2, <2>4, <3>0 DEF FeedIntact
    <3>2. \A m \in StoredBy(a)' : Sequence[m] \in 1 .. ExpectedSeq(a)'
      BY <2>1, <2>2, <3>0 DEF FeedIntact
    <3>3. MaxKey(a)' \in StoredBy(a)' /\ Sequence[MaxKey(a)'] = MaxSequence(a)'
      BY <1>0, <1>1, <2>4 DEF StoredBy, UpdateFeedState
    <3> QED BY <3>1, <3>2, <3>3 DEF FeedIntact
  <2> QED BY <2>3, <2>4
<1>5. StateCovers'
  <2> SUFFICES ASSUME torn \cap {"commit", "wipe"} = {}, NEW m \in messages
               PROVE  Sequence[m] <= MaxSequence(Author[m])'
    BY DEF StateCovers, UpdateFeedState
  <2>1. Sequence[m] <= MaxSequence(Author[m]) \/ m = cur
    BY <1>0 DEF StateCovers
  <2>2. Author[m] \in Authors /\ Sequence[m] \in Int
    BY DEF TypeInv, TypeOK
  <2>3. MaxSequence(b) \in Int
    BY <1>0 DEF TypeInv, TypeOK, MaxSequence
  <2>4. CASE Author[m] = b
    <3>1. feedState'[b].seq = feedState[b].seq + 1
      BY <1>0 DEF UpdateFeedState, MaxSequence, TypeInv, TypeOK
    <3>2. Sequence[m] <= feedState[b].seq + 1
      BY <1>0, <2>1, <2>2, <2>3, <2>4 DEF MaxSequence
    <3> QED BY <2>4, <3>1, <3>2 DEF MaxSequence
  <2>5. CASE Author[m] # b
    BY <1>1, <2>1, <2>2, <2>5 DEF MaxSequence
  <2> QED BY <2>4, <2>5
<1> QED BY <1>2, <1>3, <1>4, <1>5

(* Every action keeps the commit invariant. *)
LEMMA CommitInvStep == TypeInv /\ CommitInv /\ [Next]_vars => CommitInv'
<1> SUFFICES ASSUME TypeInv, CommitInv, [Next]_vars PROVE CommitInv'
  OBVIOUS
<1> USE DEF TypeInv, Wiping, WipePhases
<1>1. ASSUME NEW m \in Messages, AppendMessage(m) PROVE CommitInv'
  <2>1. CASE AppendInvalid(m) \/ AppendPast(m)
    BY <2>1, CommitFrame DEF AppendInvalid, AppendPast, Return, tables
  <2>2. CASE AppendQuarantine(m)
    BY <2>2, CommitFrame DEF AppendQuarantine, Return
  <2>3. CASE AppendDirect(m)
    <3>1. CASE InsertAccepted(messages, m)
      BY <2>3, <3>1, CommitInsert DEF AppendDirect
    <3>2. CASE ~InsertAccepted(messages, m)
      BY <2>3, <3>2, CommitFrame DEF AppendDirect, Return
    <3> QED BY <3>1, <3>2
  <2> QED BY <1>1, <2>1, <2>2, <2>3 DEF AppendMessage
<1>2. CASE WipeMessages
  BY <1>2 DEF WipeMessages, CommitInv, SlotsUnique, CurrentIsNext,
      WipeProgress, FeedsIntact, StateCovers
<1>3. CASE QueueStep
  <2>1. CASE ClearDeps \/ AddDep \/ QuarantineDone
    BY <2>1, CommitFrame DEF ClearDeps, AddDep, QuarantineDone, Return, tables
  <2>2. CASE UpdateFeedState
    BY <2>2, CommitUpsert
  <2>3. CASE RemoveFromQuarantine \/ DrainQuarantine \/ DrainReturns
    BY <2>3, CommitFrame DEF RemoveFromQuarantine, DrainQuarantine,
        DrainReturns, tables
  <2>4. ASSUME NEW m \in Messages, TryRelease(m) PROVE CommitInv'
    <3>1. CASE Releasable(m) /\ InsertAccepted(messages, m)
      BY <2>4, <3>1, CommitInsert DEF TryRelease, Releasable
    <3>2. CASE ~(Releasable(m) /\ InsertAccepted(messages, m))
      BY <2>4, <3>2, CommitFrame DEF TryRelease
    <3> QED BY <3>1, <3>2
  <2>5. CASE UpdateProfile
    BY <2>5, CommitFrame DEF UpdateProfile, Return
  <2>6. CASE WipeStep
    <3>1. CASE WipeFeedState \/ WipeProfiles \/ WipeQuarantine
      BY <2>6, <3>1 DEF WipeFeedState, WipeProfiles, WipeQuarantine, CommitInv,
          SlotsUnique, CurrentIsNext, WipeProgress, FeedsIntact, StateCovers
    <3>2. CASE WipeDeps
      <4>1. /\ messages' = {} /\ feedState' = EmptyFeedState /\ pc' = "idle"
        BY <3>2 DEF WipeDeps, CommitInv, WipeProgress
      <4>2. \A a \in Authors : FeedIntact(a)'
        BY <4>1 DEF EmptyFeedState, NoRow, FeedIntact, StoredBy, MaxSequence
      <4> QED BY <4>1, <4>2 DEF CommitInv, SlotsUnique, CurrentIsNext,
            WipeProgress, FeedsIntact, StateCovers
    <3> QED BY <2>6, <3>1, <3>2 DEF WipeStep
  <2> QED BY <1>3, <2>1, <2>2, <2>3, <2>4, <2>5, <2>6 DEF QueueStep
<1>4. CASE Crash
  <2>1. CASE Wiping
    <3>1. "wipe" \in torn'
      BY <1>4, <2>1 DEF Crash, CutShort, QuarantinePhases, CommitPhases
    <3> QED BY <1>4, <2>1, <3>1 DEF Crash, tables, CommitInv, SlotsUnique,
          CurrentIsNext, WipeProgress, FeedsIntact, StateCovers
  <2>2. CASE ~Wiping
    <3>1. pc = "upsert" => "commit" \in torn'
      BY <1>4 DEF Crash, CutShort, QuarantinePhases, CommitPhases
    <3> QED BY <1>4, <2>2, <3>1, CommitFrame DEF Crash, tables
  <2> QED BY <2>1, <2>2
<1>5. CASE UNCHANGED vars
  BY <1>5 DEF vars, tables, volatile, CommitInv, SlotsUnique, SameSlot,
      CurrentIsNext, WipeProgress, FeedsIntact, FeedIntact, StoredBy,
      MaxSequence, MaxKey, ExpectedSeq, StateCovers
<1> QED BY <1>1, <1>2, <1>3, <1>4, <1>5 DEF Next

(* The inductive invariant behind the feeds and their state: between the    *)
(* INSERT and the upsert of a commit at most one row is ahead, and it is    *)
(* the one being committed unless a crash tore a commit.                    *)
THEOREM CommitInvariant == Spec => []CommitInv
<1>1. Init => CommitInv
  BY DEF Init, EmptyFeedState, NoRow, CommitInv, SlotsUnique, CurrentIsNext,
      WipeProgress, FeedsIntact, FeedIntact, StoredBy, MaxSequence, StateCovers,
      Wiping, WipePhases
<1> QED BY <1>1, TypeInvariant, CommitInvStep, PTL DEF Spec

(* No crash outside a wipe leaves a hole in a feed or a tip that is not     *)
(* there: SSBFeedStore's rows can always be served as a gapless history.    *)
THEOREM FeedsStayIntact == Spec => []FeedsIntact
BY CommitInvariant, PTL DEF CommitInv

(* At rest, feed_state covers every stored row unless a commit was torn.    *)
THEOREM StateCoversStored == Spec => []StateCoversMessages
<1>1. CommitInv => StateCoversMessages
  BY DEF CommitInv, StateCovers, StateCoversMessages, Idle, Wiping, WipePhases
<1> QED BY <1>1, CommitInvariant, PTL

-----------------------------------------------------------------------------
(* Action properties that follow from the two invariants. *)

(* Every action but the feed_state update of a commit and the wipe leaves   *)
(* feed_state alone.                                                        *)
LEMMA FeedStateChanges ==
    ASSUME [Next]_vars, pc # "wipeState"
    PROVE  UpdateFeedState \/ UNCHANGED feedState
BY DEF Next, AppendMessage, AppendInvalid, AppendPast, AppendQuarantine,
    AppendDirect, WipeMessages, QueueStep, ClearDeps, AddDep, QuarantineDone,
    RemoveFromQuarantine, DrainQuarantine, TryRelease, DrainReturns,
    UpdateProfile, WipeStep, WipeFeedState, WipeProfiles, WipeQuarantine,
    WipeDeps, Crash, vars, tables

(* max_sequence advances one message at a time. *)
THEOREM AdvancesOneByOne == Spec => AdvancesByOne
<1>1. ASSUME TypeInv, CommitInv, [Next]_vars, pc # "wipeState",
             NEW a \in Authors
      PROVE  MaxSequence(a)' - MaxSequence(a) \in {0, 1}
  <2>1. feedState[a].seq \in Int
    BY <1>1 DEF TypeInv, TypeOK
  <2>2. CASE UNCHANGED feedState
    BY <2>1, <2>2 DEF MaxSequence
  <2>3. CASE UpdateFeedState
    <3>1. Sequence[cur] = feedState[Author[cur]].seq + 1
      BY <1>1, <2>3 DEF CommitInv, CurrentIsNext, ExpectedSeq, MaxSequence,
          UpdateFeedState
    <3>2. CASE a = Author[cur]
      BY <1>1, <2>1, <2>3, <3>1, <3>2 DEF UpdateFeedState, MaxSequence, TypeInv,
          TypeOK
    <3>3. CASE a # Author[cur]
      BY <1>1, <2>1, <2>3, <3>3 DEF UpdateFeedState, MaxSequence, TypeInv,
          TypeOK
    <3> QED BY <3>2, <3>3
  <2> QED BY <1>1, <2>2, <2>3, FeedStateChanges
<1>2. TypeInv /\ CommitInv /\ [Next]_vars =>
        [pc # "wipeState" =>
            \A a \in Authors : MaxSequence(a)' - MaxSequence(a) \in {0, 1}]_vars
  BY <1>1
<1> QED BY <1>2, TypeInvariant, CommitInvariant, PTL DEF Spec, AdvancesByOne

(* Without a torn commit, a stored sequence is always answered with "past". *)
THEOREM StoredSequenceIsPast == Spec => StoredMeansPast
<1>1. ASSUME TypeInv, CommitInv, [Next]_vars, reply'.code = "insertFailed",
             reply' # reply, torn \cap {"commit", "wipe"} = {},
             NEW n \in messages, SameSlot(n, reply'.msg)
      PROVE  FALSE
  <2>0. \E m \in Messages : AppendQuarantine(m) \/ AppendDirect(m)
    <3>1. ASSUME NEW m \in Messages, AppendInvalid(m) \/ AppendPast(m)
          PROVE  FALSE
      BY <1>1, <3>1 DEF AppendInvalid, AppendPast, Return
    <3>2. CASE QuarantineDone \/ UpdateProfile
      BY <1>1, <3>2 DEF QuarantineDone, UpdateProfile, Return
    <3>3. CASE WipeMessages \/ Crash
      BY <1>1, <3>3 DEF WipeMessages, Crash, NoReply
    <3>4. CASE UNCHANGED reply
      BY <1>1, <3>4
    <3> QED BY <1>1, <3>1, <3>2, <3>3, <3>4 DEF Next, AppendMessage, QueueStep,
          ClearDeps, AddDep, UpdateFeedState, RemoveFromQuarantine,
          DrainQuarantine, TryRelease, DrainReturns, WipeStep, WipeFeedState,
          WipeProfiles, WipeQuarantine, WipeDeps, vars
  <2> PICK m \in Messages : AppendQuarantine(m) \/ AppendDirect(m)
    BY <2>0
  <2>1. reply'.msg = m
    <3>1. reply' = NoReply \/ reply' = [msg |-> m, code |-> "insertFailed"]
      BY DEF AppendQuarantine, AppendDirect, Return
    <3> QED BY <1>1, <3>1 DEF NoReply
  <2>2. pc = "idle" /\ Sequence[m] >= MaxSequence(Author[m]) + 1
    BY <1>1, MessagesAssumption DEF AppendQuarantine, AppendDirect,
        ExpectedSeq, MaxSequence, TypeInv, TypeOK
  <2>3. Sequence[n] <= MaxSequence(Author[n])
    BY <1>1, <2>2 DEF CommitInv, StateCovers, Wiping, WipePhases
  <2>4. Author[n] = Author[m] /\ Sequence[n] = Sequence[m]
    BY <1>1, <2>1 DEF SameSlot
  <2>5. MaxSequence(Author[m]) \in Int /\ Sequence[m] \in Int
    BY <1>1, MessagesAssumption DEF MaxSequence, TypeInv, TypeOK
  <2> QED BY <2>2, <2>3, <2>4, <2>5
<1>2. TypeInv /\ CommitInv /\ [Next]_vars =>
        [/\ reply'.code = "insertFailed" /\ reply' # reply
         /\ torn \cap {"commit", "wipe"} = {}
         => \A n \in messages : ~SameSlot(n, reply'.msg)]_vars
  BY <1>1
<1> QED BY <1>2, TypeInvariant, CommitInvariant, PTL DEF Spec, StoredMeansPast

(* A feed wedged by a torn commit stays so until the database is wiped.     *)
THEOREM WedgeIsPermanent == Spec => WedgedStaysWedged
<1>1. ASSUME TypeInv, CommitInv, [Next]_vars, ~Wiping, ~Wiping',
             NEW a \in Authors, Wedged(a)
      PROVE  Wedged(a)'
  <2> PICK m \in messages :
          /\ Author[m] = a /\ Sequence[m] = ExpectedSeq(a)
          /\ ~(pc = "upsert" /\ cur = m)
    BY <1>1 DEF Wedged, StoredBy
  <2>1. m \in messages'
    BY <1>1 DEF Next, AppendMessage, AppendInvalid, AppendPast,
        AppendQuarantine, AppendDirect, WipeMessages, QueueStep, ClearDeps,
        AddDep, QuarantineDone, UpdateFeedState, RemoveFromQuarantine,
        DrainQuarantine, TryRelease, DrainReturns, UpdateProfile, WipeStep,
        WipeFeedState, WipeProfiles, WipeQuarantine, WipeDeps, Crash, vars,
        tables, Wiping, WipePhases
  <2>2. feedState'[a] = feedState[a]
    <3>1. CASE UpdateFeedState
      <4>1. Author[cur] # a
        BY <1>1, <3>1 DEF UpdateFeedState, CommitInv, CurrentIsNext,
            SlotsUnique, SameSlot
      <4> QED BY <1>1, <3>1, <4>1 DEF UpdateFeedState, TypeInv, TypeOK
    <3> QED BY <1>1, <3>1, FeedStateChanges DEF Wiping, WipePhases
  <2>3. ~(pc' = "upsert" /\ cur' = m)
    BY <1>1 DEF Next, AppendMessage, AppendInvalid, AppendPast,
        AppendQuarantine, AppendDirect, WipeMessages, QueueStep, ClearDeps,
        AddDep, QuarantineDone, UpdateFeedState, RemoveFromQuarantine,
        DrainQuarantine, TryRelease, DrainReturns, UpdateProfile, WipeStep,
        WipeFeedState, WipeProfiles, WipeQuarantine, WipeDeps, Crash, vars,
        volatile, Return, InsertAccepted
  <2> QED BY <2>1, <2>2, <2>3 DEF Wedged, StoredBy, ExpectedSeq, MaxSequence
<1>2. TypeInv /\ CommitInv /\ [Next]_vars =>
        [~Wiping /\ ~Wiping' => \A a \in Authors : Wedged(a) => Wedged(a)']_vars
  BY <1>1
<1> QED BY <1>2, TypeInvariant, CommitInvariant, PTL DEF Spec, WedgedStaysWedged

-----------------------------------------------------------------------------
(* A message is visible only after all it refers to.  The invariant behind  *)
(* it is that a quarantined message has a dependency row (written, or still *)
(* to be written by the running append) for each thing it misses.           *)

DepsIntact == ~Wiping /\ torn \cap {"quarantine", "wipe"} = {}
MissingTracked ==
    DepsIntact /\ pc = "clearDeps" => MissingDependencies(cur) \subseteq missing
QuarantineWaits ==
    DepsIntact =>
        \A m \in quarantine : \A d \in MissingDependencies(m) :
            \/ <<m, d>> \in quarantineDeps
            \/ m = cur /\ pc = "clearDeps"
            \/ m = cur /\ pc = "addDeps" /\ d \in missing
CommittedStored == pc \in {"unquarantine", "drain"} => cur \in messages
WipedQuarantine == pc = "wipeDeps" => quarantine = {}
CausalInv ==
    /\ CausallyClosed /\ MissingTracked /\ QuarantineWaits
    /\ CommittedStored /\ WipedQuarantine

(* A step that adds no message, quarantines none and deletes no dependency  *)
(* row.                                                                     *)
LEMMA CausalFrame ==
    ASSUME CausalInv, UNCHANGED <<messages, quarantineDeps>>,
           quarantine' \subseteq quarantine, torn \subseteq torn',
           ~Wiping, ~Wiping',
           pc' \notin {"clearDeps", "addDeps"},
           pc \in {"clearDeps", "addDeps"} =>
               \/ "quarantine" \in torn'
               \/ (pc = "addDeps" /\ missing = {}),
           pc' \in {"unquarantine", "drain"} => cur' \in messages
    PROVE  CausalInv'
<1> USE DEF CausalInv, DepsIntact
<1>1. CausallyClosed'
  BY DEF CausallyClosed
<1>2. MissingTracked' /\ CommittedStored' /\ WipedQuarantine'
  BY DEF MissingTracked, CommittedStored, WipedQuarantine, Wiping, WipePhases
<1>3. QuarantineWaits'
  BY DEF QuarantineWaits, MissingDependencies
<1> QED BY <1>1, <1>2, <1>3

(* A message with all it refers to enters the messages table. *)
LEMMA CausalInsert ==
    ASSUME CausalInv, ~Wiping, NEW m \in Messages,
           DepsIntact => MissingDependencies(m) = {},
           messages' = messages \cup {m}, pc' = "upsert", cur' = m,
           pc \notin {"clearDeps", "addDeps"},
           UNCHANGED <<quarantine, quarantineDeps, torn>>
    PROVE  CausalInv'
<1> USE DEF CausalInv, DepsIntact
<1>1. CausallyClosed'
  BY DEF CausallyClosed, MissingDependencies
<1>2. MissingTracked' /\ CommittedStored' /\ WipedQuarantine'
  BY DEF MissingTracked, CommittedStored, WipedQuarantine
<1>3. QuarantineWaits'
  BY DEF QuarantineWaits, MissingDependencies, Wiping, WipePhases
<1> QED BY <1>1, <1>2, <1>3

(* Every action keeps the causal invariant. *)
LEMMA CausalInvStep == TypeInv /\ CommitInv /\ CausalInv /\ [Next]_vars => CausalInv'
<1> SUFFICES ASSUME TypeInv, CommitInv, CausalInv, [Next]_vars PROVE CausalInv'
  OBVIOUS
<1> USE DEF Wiping, WipePhases
<1>1. ASSUME NEW m \in Messages, AppendMessage(m) PROVE CausalInv'
  <2>1. CASE AppendInvalid(m) \/ AppendPast(m)
    BY <2>1, CausalFrame DEF AppendInvalid, AppendPast, Return, tables
  <2>2. CASE AppendQuarantine(m)
    <3>1. CASE InsertAccepted(quarantine, m)
      <4>1. /\ quarantine' = quarantine \cup {m} /\ pc = "idle"
            /\ pc' = "clearDeps" /\ cur' = m
            /\ missing' = MissingDependencies(m)
            /\ UNCHANGED <<messages, quarantineDeps, torn>>
        BY <2>2, <3>1 DEF AppendQuarantine
      <4> QED BY <4>1 DEF CausalInv, DepsIntact, CausallyClosed,
            MissingTracked, QuarantineWaits, MissingDependencies,
            CommittedStored, WipedQuarantine
    <3>2. CASE ~InsertAccepted(quarantine, m)
      BY <2>2, <3>2, CausalFrame DEF AppendQuarantine, Return
    <3> QED BY <3>1, <3>2
  <2>3. CASE AppendDirect(m)
    <3>1. CASE InsertAccepted(messages, m)
      BY <2>3, <3>1, CausalInsert DEF AppendDirect, MustQuarantine
    <3>2. CASE ~InsertAccepted(messages, m)
      BY <2>3, <3>2, CausalFrame DEF AppendDirect, Return
    <3> QED BY <3>1, <3>2
  <2> QED BY <1>1, <2>1, <2>2, <2>3 DEF AppendMessage
<1>2. CASE WipeMessages
  BY <1>2 DEF WipeMessages, CausalInv, DepsIntact, CausallyClosed,
      MissingTracked, QuarantineWaits, CommittedStored, WipedQuarantine
<1>3. CASE QueueStep
  <2>1. CASE ClearDeps
    <3>1. /\ quarantineDeps' = {row \in quarantineDeps : row[1] # cur}
          /\ pc = "clearDeps" /\ pc' = "addDeps"
          /\ UNCHANGED <<messages, quarantine, cur, missing, torn>>
      BY <2>1 DEF ClearDeps
    <3>2. QuarantineWaits'
      BY <3>1 DEF CausalInv, QuarantineWaits, MissingTracked, DepsIntact,
          MissingDependencies
    <3> QED BY <3>1, <3>2 DEF CausalInv, DepsIntact, CausallyClosed,
          MissingTracked, CommittedStored, WipedQuarantine
  <2>2. CASE AddDep
    <3>1. PICK d \in missing :
              /\ quarantineDeps' = quarantineDeps \cup {<<cur, d>>}
              /\ missing' = missing \ {d}
      BY <2>2 DEF AddDep
    <3>2. pc = "addDeps" /\ UNCHANGED <<messages, quarantine, cur, pc, torn>>
      BY <2>2 DEF AddDep
    <3>3. QuarantineWaits'
      BY <3>1, <3>2 DEF CausalInv, QuarantineWaits, DepsIntact,
          MissingDependencies
    <3> QED BY <3>2, <3>3 DEF CausalInv, DepsIntact, CausallyClosed,
          MissingTracked, CommittedStored, WipedQuarantine
  <2>3. CASE QuarantineDone
    BY <2>3, CausalFrame DEF QuarantineDone, Return, tables
  <2>4. CASE UpdateFeedState
    BY <2>4, CausalFrame DEF UpdateFeedState, CommitInv, CurrentIsNext
  <2>5. CASE RemoveFromQuarantine
    BY <2>5, CausalFrame DEF RemoveFromQuarantine, CausalInv, CommittedStored
  <2>6. CASE DrainQuarantine
    <3>1. /\ quarantineDeps' = {row \in quarantineDeps : row[2] # cur}
          /\ pc = "drain" /\ pc' = "release"
          /\ UNCHANGED <<messages, quarantine, torn>>
      BY <2>6 DEF DrainQuarantine
    <3>2. cur \in messages
      BY <3>1 DEF CausalInv, CommittedStored
    <3>3. QuarantineWaits'
      BY <3>1, <3>2 DEF CausalInv, QuarantineWaits, DepsIntact,
          MissingDependencies
    <3> QED BY <3>1, <3>3 DEF CausalInv, DepsIntact, CausallyClosed,
          MissingTracked, CommittedStored, WipedQuarantine
  <2>7. ASSUME NEW m \in Messages, TryRelease(m) PROVE CausalInv'
    <3>1. CASE Releasable(m) /\ InsertAccepted(messages, m)
      <4>1. DepsIntact => MissingDependencies(m) = {}
        BY <2>7, <3>1 DEF TryRelease, Releasable, CausalInv, QuarantineWaits
      <4> QED BY <2>7, <3>1, <4>1, CausalInsert DEF TryRelease
    <3>2. CASE ~(Releasable(m) /\ InsertAccepted(messages, m))
      BY <2>7, <3>2, CausalFrame DEF TryRelease
    <3> QED BY <3>1, <3>2
  <2>8. CASE DrainReturns
    BY <2>8, CausalFrame DEF DrainReturns, tables
  <2>9. CASE UpdateProfile
    BY <2>9, CausalFrame DEF UpdateProfile, Return
  <2>10. CASE WipeStep
    <3>1. messages = {} /\ messages' = {} /\ pc \in WipePhases
      BY <2>10 DEF WipeStep, WipeFeedState, WipeProfiles, WipeQuarantine,
          WipeDeps, CommitInv, WipeProgress
    <3>2. (pc' = "wipeDeps" \/ pc' = "idle") => quarantine' = {}
      BY <2>10 DEF WipeStep, WipeFeedState, WipeProfiles, WipeQuarantine,
          WipeDeps, CausalInv, WipedQuarantine
    <3>3. pc' \in WipePhases \cup {"idle"}
      BY <2>10 DEF WipeStep, WipeFeedState, WipeProfiles, WipeQuarantine,
          WipeDeps
    <3> QED BY <3>1, <3>2, <3>3 DEF CausalInv, DepsIntact, CausallyClosed,
          MissingTracked, QuarantineWaits, CommittedStored, WipedQuarantine
  <2> QED BY <1>3, <2>1, <2>2, <2>3, <2>4, <2>5, <2>6, <2>7, <2>8, <2>9, <2>10
        DEF QueueStep
<1>4. CASE Crash
  <2>1. CASE Wiping
    <3>1. "wipe" \in torn' /\ pc' = "idle"
      BY <1>4, <2>1 DEF Crash, CutShort, QuarantinePhases, CommitPhases
    <3> QED BY <3>1 DEF CausalInv, DepsIntact, CausallyClosed, MissingTracked,
          QuarantineWaits, CommittedStored, WipedQuarantine
  <2>2. CASE ~Wiping
    <3>1. pc \in {"clearDeps", "addDeps"} => "quarantine" \in torn'
      BY <1>4 DEF Crash, CutShort, QuarantinePhases, CommitPhases
    <3>2. /\ pc' = "idle" /\ torn \subseteq torn'
          /\ UNCHANGED <<messages, quarantineDeps, quarantine>>
      BY <1>4 DEF Crash, tables
    <3>3. ~Wiping'
      BY <3>2
    <3> QED BY <2>2, <3>1, <3>2, <3>3, CausalFrame
  <2> QED BY <2>1, <2>2
<1>5. CASE UNCHANGED vars
  BY <1>5 DEF vars, tables, volatile, CausalInv, DepsIntact, CausallyClosed,
      MissingTracked, QuarantineWaits, MissingDependencies, CommittedStored,
      WipedQuarantine
<1> QED BY <1>1, <1>2, <1>3, <1>4, <1>5 DEF Next

(* The inductive invariant behind causality: a quarantined message has a    *)
(* dependency row for everything it misses, so having none means missing    *)
(* nothing.                                                                 *)
THEOREM CausalInvariant == Spec => []CausalInv
<1>1. Init => CausalInv
  BY DEF Init, CausalInv, DepsIntact, CausallyClosed, MissingTracked,
      QuarantineWaits, CommittedStored, WipedQuarantine
<1> QED BY <1>1, TypeInvariant, CommitInvariant, CausalInvStep, PTL DEF Spec

(* Nothing is visible before what it refers to, unless a crash fell inside  *)
(* a quarantine insert or a wipe.                                           *)
THEOREM StoreIsCausal == Spec => []CausallyClosed
BY CausalInvariant, PTL DEF CausalInv

-----------------------------------------------------------------------------
(* The messages table implements FeedLog. *)

NoBadCrash == torn \cap {"quarantine", "wipe"} = {}

(* The row an append or a release inserts is a legal extension of the log.  *)
LEMMA InsertExtends ==
    ASSUME TypeInv, CommitInv, NoBadCrash, ~Wiping, NEW m \in Messages,
           Sequence[m] = ExpectedSeq(Author[m]), InsertAccepted(messages, m),
           MissingDependencies(m) = {}, messages' = messages \cup {m}
    PROVE  Log!Extend(m)
<1> DEFINE a == Author[m]
<1>1. FeedIntact(a)
  BY MessagesAssumption DEF CommitInv, FeedsIntact, NoBadCrash
<1>2. MaxSequence(a) \in Nat
  BY <1>1, MessagesAssumption DEF FeedIntact, NoRow, StoredBy, MaxSequence,
      MaxKey, ExpectedSeq, TypeInv, TypeOK
<1>3. Sequence[m] = MaxSequence(a) + 1
  BY DEF ExpectedSeq
<1>4. \A i \in 1 .. (Sequence[m] - 1) : Log!Slot(a, i) # {}
  BY <1>1, <1>2, <1>3 DEF FeedIntact, StoredBy, Log!Slot
<1>5. ASSUME NEW n \in messages, Author[n] = a PROVE Sequence[n] < Sequence[m]
  <2>1. Sequence[n] \in 1 .. (MaxSequence(a) + 1)
    BY <1>1, <1>5 DEF FeedIntact, StoredBy, ExpectedSeq
  <2>2. Sequence[n] # Sequence[m]
    BY <1>5 DEF InsertAccepted, SameSlot
  <2> QED BY <1>2, <1>3, <2>1, <2>2
<1>6. Dependencies(m) \subseteq messages
  BY DEF MissingDependencies
<1> QED BY <1>2, <1>3, <1>4, <1>5, <1>6 DEF Log!Extend

(* Every step of the store is a step of the abstract log or a stutter. *)
LEMMA StepRefines ==
    ASSUME TypeInv, CommitInv, CausalInv, NoBadCrash, NoBadCrash', [Next]_vars
    PROVE  [Log!Next]_messages
<1>1. CASE UNCHANGED messages
  BY <1>1
<1>2. CASE WipeMessages
  BY <1>2 DEF WipeMessages, Log!Wipe, Log!Next
<1>3. ASSUME NEW m \in Messages, AppendDirect(m), InsertAccepted(messages, m)
      PROVE  Log!Next
  <2>1. Log!Extend(m)
    BY <1>3, InsertExtends DEF AppendDirect, MustQuarantine, Wiping, WipePhases
  <2> QED BY <2>1 DEF Log!Next
<1>4. ASSUME NEW m \in Messages, TryRelease(m),
             Releasable(m), InsertAccepted(messages, m)
      PROVE  Log!Next
  <2>1. pc = "release" /\ messages' = messages \cup {m}
    BY <1>4 DEF TryRelease
  <2>2. MissingDependencies(m) = {}
    BY <1>4, <2>1 DEF Releasable, CausalInv, QuarantineWaits, DepsIntact,
        NoBadCrash, Wiping, WipePhases
  <2>3. Log!Extend(m)
    BY <1>4, <2>1, <2>2, InsertExtends DEF Releasable, Wiping, WipePhases
  <2> QED BY <2>3 DEF Log!Next
<1> QED BY <1>1, <1>2, <1>3, <1>4 DEF Next, AppendMessage, AppendInvalid,
      AppendPast, AppendQuarantine, AppendDirect, QueueStep, ClearDeps, AddDep,
      QuarantineDone, UpdateFeedState, RemoveFromQuarantine, DrainQuarantine,
      TryRelease, DrainReturns, UpdateProfile, WipeStep, WipeFeedState,
      WipeProfiles, WipeQuarantine, WipeDeps, Crash, vars, tables

(* The store is an append-only, gapless, causally closed log of feeds, even *)
(* when the process dies in the middle of a commit.                         *)
THEOREM RefinesFeedLog == SoundSpec => ImplementsFeedLog
<1>1. Init => Log!Init /\ NoBadCrash
  BY DEF Init, Log!Init, NoBadCrash
<1>2. SoundSpec => Spec
  BY PTL DEF SoundSpec, Spec
<1>3. NoBadCrash /\ [Next /\ torn' \cap {"quarantine", "wipe"} = {}]_vars =>
        NoBadCrash'
  BY DEF NoBadCrash, vars
<1>4. SoundSpec => []NoBadCrash
  BY <1>1, <1>3, PTL DEF SoundSpec
<1>5. TypeInv /\ CommitInv /\ CausalInv /\ NoBadCrash /\ NoBadCrash' /\ [Next]_vars
        => [Log!Next]_messages
  BY StepRefines
<1> QED BY <1>1, <1>2, <1>4, <1>5, TypeInvariant, CommitInvariant,
      CausalInvariant, PTL DEF SoundSpec, Spec, ImplementsFeedLog, Log!Spec

-----------------------------------------------------------------------------
(***************************************************************************)
(* The quarantine and the profiles: what the dependency rows are, that a   *)
(* drain leaves nothing behind that could be released, and that no message *)
(* of a linked feed stays in quarantine once it is stored.                 *)
(***************************************************************************)

(* No crash since the database was created or wiped, and no wipe under way. *)
Clean == ~Wiping /\ torn = {}
Committing == pc \in CommitPhases \cup {"profile"}
Inserted == pc \in {"upsert", "unquarantine", "drain"}

-----------------------------------------------------------------------------
(* The bookkeeping of a running operation. *)

ArgStored == Committing => arg \in messages
QuarantineSlots == \A m, n \in quarantine : SameSlot(m, n) => m = n
FramesEmpty == pc \notin CommitPhases => frames = <<>>

(* What appendMessage: is quarantining: its rows are those of what it misses. *)
Quarantining ==
    Clean /\ pc \in {"clearDeps", "addDeps"} =>
        cur \in quarantine /\ missing \subseteq MissingDependencies(cur)

(* What is being released is still in quarantine, and waits for nothing.    *)
Releasing ==
    Clean /\ pc \in {"upsert", "unquarantine"} /\ cur # arg =>
        cur \in quarantine /\ \A row \in quarantineDeps : row[1] # cur
ReleasedNotArg == pc = "unquarantine" => cur # arg

(* A row is owed by a quarantined message to something not stored, but for  *)
(* the rows the drain of the message just stored will delete.               *)
RowsOwed ==
    Clean =>
        \A row \in quarantineDeps :
            /\ row[1] \in quarantine /\ row[2] \in Dependencies(row[1])
            /\ row[2] \notin messages \/ (Inserted /\ row[2] = cur)

RowsInv ==
    /\ ArgStored /\ QuarantineSlots /\ FramesEmpty /\ Quarantining
    /\ Releasing /\ ReleasedNotArg /\ RowsOwed

-----------------------------------------------------------------------------
(* What could be released is on its way to _tryRelease. *)

Ready(m) ==
    /\ Sequence[m] = ExpectedSeq(Author[m])
    /\ MissingDependencies(m) = {}
    /\ Sequence[m] > 1 => Previous[m] = MaxKey(Author[m])
InFrames(m) == \E i \in 1 .. Len(frames) : m \in frames[i]
ToBeDrained(m) ==
    Inserted /\ (<<m, cur>> \in quarantineDeps \/ Author[m] = Author[cur])
DrainInv ==
    Clean => \A m \in quarantine : Ready(m) => InFrames(m) \/ ToBeDrained(m)

(* A stored message of a linked feed is quarantined only until its release  *)
(* has removed it.                                                          *)
StaleInv ==
    Clean => \A m \in quarantine \cap messages :
                \/ ~WellLinked(m)
                \/ pc \in {"upsert", "unquarantine"} /\ m = cur /\ cur # arg

(* Before a wipe is over the profiles are gone. *)
ProfileInv ==
    /\ ProfilesStored
    /\ pc \in {"wipeQuarantine", "wipeDeps"} => profiles = NoProfiles

-----------------------------------------------------------------------------
(* A running wipe or a crash leaves nothing to keep track of. *)
LEMMA NotClean ==
    ASSUME WipeMessages \/ WipeFeedState \/ WipeProfiles \/ WipeQuarantine \/ Crash
    PROVE  ~Clean'
<1>1. CASE Crash
  BY <1>1 DEF Crash, CutShort, Clean
<1>2. CASE ~Crash
  BY <1>2 DEF WipeMessages, WipeFeedState, WipeProfiles, WipeQuarantine, Clean,
      Wiping, WipePhases
<1> QED BY <1>1, <1>2

(* Every action keeps the bookkeeping. *)
LEMMA RowsStep == TypeInv /\ CommitInv /\ RowsInv /\ [Next]_vars => RowsInv'
<1> SUFFICES ASSUME TypeInv, CommitInv, RowsInv, [Next]_vars PROVE RowsInv'
  OBVIOUS
<1> USE DEF RowsInv, Committing, CommitPhases, Inserted
<1>1. ASSUME NEW m \in Messages, AppendMessage(m) PROVE RowsInv'
  <2>0. pc = "idle" /\ frames = <<>> /\ UNCHANGED torn /\ (Clean' => Clean)
    BY <1>1 DEF AppendMessage, AppendInvalid, AppendPast, AppendQuarantine,
        AppendDirect, FramesEmpty, Clean, Wiping, WipePhases
  <2>1. CASE Return(m, reply'.code) /\ UNCHANGED tables
    BY <2>0, <2>1 DEF Return, tables, ArgStored, QuarantineSlots, SameSlot,
        FramesEmpty, Quarantining, Releasing, ReleasedNotArg, RowsOwed
  <2>2. CASE AppendQuarantine(m) /\ InsertAccepted(quarantine, m)
    <3>1. /\ quarantine' = quarantine \cup {m}
          /\ pc' = "clearDeps" /\ cur' = m /\ missing' = MissingDependencies(m)
          /\ UNCHANGED <<messages, quarantineDeps, frames>>
      BY <2>2 DEF AppendQuarantine
    <3>2. QuarantineSlots'
      BY <2>2, <3>1 DEF QuarantineSlots, SameSlot, InsertAccepted
    <3>3. Quarantining' /\ RowsOwed'
      BY <2>0, <3>1 DEF Quarantining, MissingDependencies, RowsOwed
    <3> QED BY <2>0, <3>1, <3>2, <3>3 DEF ArgStored, FramesEmpty, Releasing,
          ReleasedNotArg
  <2>3. CASE AppendDirect(m) /\ InsertAccepted(messages, m)
    <3>1. /\ messages' = messages \cup {m}
          /\ pc' = "upsert" /\ arg' = m /\ cur' = m
          /\ UNCHANGED <<quarantine, quarantineDeps, frames>>
      BY <2>3 DEF AppendDirect
    <3> QED BY <2>0, <3>1 DEF ArgStored, QuarantineSlots, SameSlot, FramesEmpty,
          Quarantining, Releasing, ReleasedNotArg, RowsOwed
  <2> QED BY <1>1, <2>1, <2>2, <2>3 DEF AppendMessage, AppendInvalid, AppendPast,
        AppendQuarantine, AppendDirect, Return, tables
<1>2. CASE WipeMessages \/ WipeFeedState \/ WipeProfiles \/ WipeQuarantine \/ Crash
  <2>1. ArgStored' /\ QuarantineSlots' /\ FramesEmpty' /\ ReleasedNotArg'
    BY <1>2 DEF WipeMessages, WipeFeedState, WipeProfiles, WipeQuarantine, Crash,
        tables, ArgStored, QuarantineSlots, SameSlot, FramesEmpty, ReleasedNotArg
  <2> QED BY <1>2, <2>1, NotClean DEF Quarantining, Releasing, RowsOwed
<1>3. CASE WipeDeps
  BY <1>3 DEF WipeDeps, ArgStored, QuarantineSlots, SameSlot, FramesEmpty,
      Quarantining, Releasing, ReleasedNotArg, RowsOwed
<1>4. CASE QueueStep /\ ~WipeStep
  <2>0. UNCHANGED torn /\ ~Wiping /\ ~Wiping' /\ (Clean' <=> Clean)
    BY <1>4 DEF QueueStep, ClearDeps, AddDep, QuarantineDone, UpdateFeedState,
        RemoveFromQuarantine, DrainQuarantine, TryRelease, DrainReturns,
        UpdateProfile, Return, Clean, Wiping, WipePhases
  <2>1. CASE ClearDeps
    <3>1. quarantineDeps' \subseteq quarantineDeps
      BY <2>1 DEF ClearDeps
    <3> QED BY <2>0, <2>1, <3>1 DEF ClearDeps, ArgStored, QuarantineSlots,
          SameSlot, FramesEmpty, Quarantining, MissingDependencies, Releasing,
          ReleasedNotArg, RowsOwed
  <2>2. CASE AddDep
    <3>1. PICK d \in missing : /\ quarantineDeps' = quarantineDeps \cup {<<cur, d>>}
                               /\ missing' = missing \ {d}
      BY <2>2 DEF AddDep
    <3>2. /\ pc = "addDeps" /\ pc' = "addDeps"
          /\ UNCHANGED <<messages, quarantine, arg, cur, frames>>
      BY <2>2 DEF AddDep
    <3>3. Quarantining' /\ RowsOwed'
      BY <2>0, <3>1, <3>2 DEF Quarantining, MissingDependencies, RowsOwed
    <3> QED BY <3>2, <3>3 DEF ArgStored, QuarantineSlots, SameSlot, FramesEmpty,
          Releasing, ReleasedNotArg
  <2>3. CASE QuarantineDone
    BY <2>0, <2>3 DEF QuarantineDone, Return, tables, ArgStored, QuarantineSlots,
        SameSlot, FramesEmpty, Quarantining, Releasing, ReleasedNotArg, RowsOwed
  <2>4. CASE UpdateFeedState
    BY <2>0, <2>4 DEF UpdateFeedState, ArgStored, QuarantineSlots, SameSlot,
        FramesEmpty, Quarantining, Releasing, ReleasedNotArg, RowsOwed
  <2>5. CASE RemoveFromQuarantine
    <3>1. /\ pc = "unquarantine" /\ pc' = "drain"
          /\ quarantine' = {m \in quarantine : ~SameSlot(m, cur)}
          /\ UNCHANGED <<messages, quarantineDeps, arg, cur, frames>>
      BY <2>5 DEF RemoveFromQuarantine
    <3>2. RowsOwed'
      <4> SUFFICES ASSUME Clean, NEW row \in quarantineDeps
                   PROVE  row[1] \in quarantine'
        BY <2>0, <3>1 DEF RowsOwed
      <4>1. row[1] \in quarantine /\ row[1] # cur /\ cur \in quarantine
        BY <3>1 DEF RowsOwed, Releasing, ReleasedNotArg
      <4> QED BY <3>1, <4>1 DEF QuarantineSlots
    <3> QED BY <3>1, <3>2 DEF ArgStored, QuarantineSlots, SameSlot, FramesEmpty,
          Quarantining, Releasing, ReleasedNotArg
  <2>6. CASE DrainQuarantine
    <3>1. /\ quarantineDeps' = {row \in quarantineDeps : row[2] # cur}
          /\ pc = "drain" /\ pc' = "release"
          /\ UNCHANGED <<messages, quarantine, arg>>
      BY <2>6 DEF DrainQuarantine
    <3> QED BY <2>0, <3>1 DEF ArgStored, QuarantineSlots, SameSlot, FramesEmpty,
          Quarantining, Releasing, ReleasedNotArg, RowsOwed
  <2>7. ASSUME NEW m \in Messages, TryRelease(m) PROVE RowsInv'
    <3>1. CASE Releasable(m) /\ InsertAccepted(messages, m)
      <4>1. /\ messages' = messages \cup {m} /\ pc' = "upsert" /\ cur' = m
            /\ pc = "release"
            /\ UNCHANGED <<quarantine, quarantineDeps, arg>>
        BY <2>7, <3>1 DEF TryRelease
      <4>2. m \in quarantine /\ \A row \in quarantineDeps : row[1] # m
        BY <3>1 DEF Releasable
      <4> QED BY <2>0, <4>1, <4>2 DEF ArgStored, QuarantineSlots, SameSlot,
            FramesEmpty, Quarantining, Releasing, ReleasedNotArg, RowsOwed
    <3>2. CASE ~(Releasable(m) /\ InsertAccepted(messages, m))
      <4>1. /\ pc = "release" /\ pc' = "release"
            /\ UNCHANGED <<messages, quarantine, quarantineDeps, arg, cur>>
        BY <2>7, <3>2 DEF TryRelease
      <4> QED BY <2>0, <4>1 DEF ArgStored, QuarantineSlots, SameSlot, FramesEmpty,
            Quarantining, Releasing, ReleasedNotArg, RowsOwed
    <3> QED BY <3>1, <3>2
  <2>8. CASE DrainReturns
    BY <2>0, <2>8 DEF DrainReturns, tables, ArgStored, QuarantineSlots, SameSlot,
        FramesEmpty, Quarantining, Releasing, ReleasedNotArg, RowsOwed
  <2>9. CASE UpdateProfile
    BY <2>0, <2>9 DEF UpdateProfile, Return, ArgStored, QuarantineSlots, SameSlot,
        FramesEmpty, Quarantining, Releasing, ReleasedNotArg, RowsOwed
  <2> QED BY <1>4, <2>1, <2>2, <2>3, <2>4, <2>5, <2>6, <2>7, <2>8, <2>9
        DEF QueueStep
<1>5. CASE UNCHANGED vars
  BY <1>5 DEF vars, tables, volatile, Clean, Wiping, ArgStored, QuarantineSlots,
      SameSlot, FramesEmpty, Quarantining, MissingDependencies, Releasing,
      ReleasedNotArg, RowsOwed
<1> QED BY <1>1, <1>2, <1>3, <1>4, <1>5 DEF Next, QueueStep, WipeStep

(* The inductive invariant of the bookkeeping: a released message has no    *)
(* row left, and every other row is owed.                                   *)
THEOREM RowsInvariant == Spec => []RowsInv
<1>1. Init => RowsInv
  BY DEF Init, RowsInv, Committing, CommitPhases, Inserted, ArgStored,
      QuarantineSlots, FramesEmpty, Quarantining, Releasing, ReleasedNotArg,
      RowsOwed
<1> QED BY <1>1, RowsStep, TypeInvariant, CommitInvariant, PTL DEF Spec

(* The rows of quarantine_deps are exactly what each quarantined message    *)
(* waits for, as long as no crash has cut an operation short.               *)
THEOREM RowsAreExact == Spec => []DependencyRowsExact
<1>1. TypeInv /\ RowsInv /\ CausalInv => DependencyRowsExact
  <2> SUFFICES ASSUME TypeInv, RowsInv, CausalInv, Idle, torn = {}
               PROVE  quarantineDeps =
                        UNION {{m} \X MissingDependencies(m) : m \in quarantine}
    BY DEF DependencyRowsExact
  <2>1. ASSUME NEW row \in quarantineDeps
        PROVE  \E m \in quarantine : row \in {m} \X MissingDependencies(m)
    <3>1. row = <<row[1], row[2]>>
      BY DEF TypeInv, TypeOK
    <3>2. row[1] \in quarantine /\ row[2] \in MissingDependencies(row[1])
      BY DEF RowsInv, RowsOwed, Clean, Inserted, Idle, Wiping, WipePhases,
          MissingDependencies
    <3> QED BY <3>1, <3>2
  <2>2. ASSUME NEW m \in quarantine, NEW d \in MissingDependencies(m)
        PROVE  <<m, d>> \in quarantineDeps
    BY DEF CausalInv, QuarantineWaits, DepsIntact, Idle, Wiping, WipePhases
  <2> QED BY <2>1, <2>2
<1> QED BY <1>1, TypeInvariant, RowsInvariant, CausalInvariant, PTL

-----------------------------------------------------------------------------
(* A drain leaves nothing behind. *)

(* A message stays in the frames when its drain starts or an empty one ends. *)
LEMMA FramesKept ==
    ASSUME NEW s \in Seq(SUBSET Messages), NEW m
    PROVE  /\ \A S \in SUBSET Messages :
                /\ m \in S => \E i \in 1 .. Len(<<S>> \o s) : m \in (<<S>> \o s)[i]
                /\ (\E i \in 1 .. Len(s) : m \in s[i]) =>
                      \E i \in 1 .. Len(<<S>> \o s) : m \in (<<S>> \o s)[i]
           /\ s # <<>> /\ (\E i \in 1 .. Len(s) : m \in s[i]) =>
                 m \in Head(s) \/ \E i \in 1 .. Len(Tail(s)) : m \in Tail(s)[i]
<1>1. ASSUME NEW S \in SUBSET Messages
      PROVE  /\ Len(<<S>> \o s) = Len(s) + 1
             /\ (<<S>> \o s)[1] = S
             /\ \A i \in 1 .. Len(s) : (<<S>> \o s)[i + 1] = s[i]
  <2>1. <<S>> \in Seq(SUBSET Messages) /\ Len(<<S>>) = 1 /\ <<S>>[1] = S
    OBVIOUS
  <2>2. Len(s) \in Nat
    OBVIOUS
  <2> QED BY <2>1, <2>2, ConcatProperties
<1>2. ASSUME NEW S \in SUBSET Messages
      PROVE  /\ m \in S => \E i \in 1 .. Len(<<S>> \o s) : m \in (<<S>> \o s)[i]
             /\ (\E i \in 1 .. Len(s) : m \in s[i]) =>
                   \E i \in 1 .. Len(<<S>> \o s) : m \in (<<S>> \o s)[i]
  <2>1. Len(s) \in Nat
    OBVIOUS
  <2>2. 1 \in 1 .. Len(<<S>> \o s)
    BY <1>1, <2>1
  <2>3. \A i \in 1 .. Len(s) : i + 1 \in 1 .. Len(<<S>> \o s)
    BY <1>1, <2>1
  <2> QED BY <1>1, <2>2, <2>3
<1>3. ASSUME s # <<>>, NEW i \in 1 .. Len(s), m \in s[i]
      PROVE  m \in Head(s) \/ \E j \in 1 .. Len(Tail(s)) : m \in Tail(s)[j]
  <2>1. Len(s) \in Nat /\ Head(s) = s[1]
    BY <1>3
  <2>2. /\ Len(Tail(s)) = Len(s) - 1
        /\ \A j \in 1 .. Len(Tail(s)) : Tail(s)[j] = s[j + 1]
    BY <1>3, HeadTailProperties
  <2>3. CASE i = 1
    BY <1>3, <2>1, <2>3
  <2>4. CASE i # 1
    <3>1. i - 1 \in 1 .. Len(Tail(s)) /\ Tail(s)[i - 1] = s[i]
      BY <2>1, <2>2, <2>4
    <3> QED BY <1>3, <3>1
  <2> QED BY <2>3, <2>4
<1> QED BY <1>2, <1>3

(* A released message takes only itself out of the innermost frame. *)
LEMMA FrameLosesOne ==
    ASSUME NEW s \in Seq(SUBSET Messages), s # <<>>, NEW n \in Messages, NEW m,
           m # n, \E i \in 1 .. Len(s) : m \in s[i]
    PROVE  \E i \in 1 .. Len(<<Head(s) \ {n}>> \o Tail(s)) :
               m \in (<<Head(s) \ {n}>> \o Tail(s))[i]
<1>1. Head(s) \ {n} \in SUBSET Messages /\ Tail(s) \in Seq(SUBSET Messages)
  BY PopFrame
<1>2. m \in Head(s) \ {n} \/ \E i \in 1 .. Len(Tail(s)) : m \in Tail(s)[i]
  BY FramesKept
<1> QED BY <1>1, <1>2, FramesKept

(* A message that becomes ready by the insertion of n waited for n alone.   *)
LEMMA InsertReadies ==
    ASSUME TypeInv, CausalInv, RowsInv, DrainInv, Clean,
           pc \in {"idle", "release"},
           NEW n \in Messages, messages' = messages \cup {n}, pc' = "upsert", cur' = n,
           UNCHANGED <<feedState, quarantine, quarantineDeps, torn>>,
           NEW m \in quarantine, Ready(m)'
    PROVE  ToBeDrained(m)' \/ InFrames(m)
<1>1. CASE MissingDependencies(m) = {}
  <2>1. Ready(m)
    BY <1>1 DEF Ready, ExpectedSeq, MaxSequence, MaxKey
  <2> QED BY <2>1 DEF DrainInv, ToBeDrained, Inserted
<1>2. CASE MissingDependencies(m) # {}
  <2>1. n \in MissingDependencies(m)
    BY <1>2 DEF Ready, MissingDependencies
  <2>2. <<m, n>> \in quarantineDeps
    BY <2>1 DEF CausalInv, QuarantineWaits, DepsIntact, Clean
  <2> QED BY <2>2 DEF ToBeDrained, Inserted
<1> QED BY <1>1, <1>2

(* Nothing that is ready is lost, in any step. *)
LEMMA DrainStep ==
    TypeInv /\ CommitInv /\ CausalInv /\ RowsInv /\ DrainInv /\ [Next]_vars => DrainInv'
<1> SUFFICES ASSUME TypeInv, CommitInv, CausalInv, RowsInv, DrainInv, [Next]_vars
             PROVE  DrainInv'
  OBVIOUS
<1>0. frames \in Seq(SUBSET Messages)
  BY DEF TypeInv, TypeOK
<1>1. ASSUME NEW n \in Messages, AppendMessage(n) PROVE DrainInv'
  <2>0. pc = "idle" /\ frames = <<>> /\ Len(frames) = 0 /\ (Clean' => Clean)
    BY <1>1 DEF AppendMessage, AppendInvalid, AppendPast, AppendQuarantine,
        AppendDirect, RowsInv, FramesEmpty, CommitPhases, Clean, Wiping, WipePhases
  <2>1. Clean => \A m \in quarantine : ~Ready(m)
    BY <2>0 DEF DrainInv, InFrames, ToBeDrained, Inserted
  <2>2. CASE UNCHANGED <<messages, feedState>> /\ quarantine' \subseteq quarantine \cup {n}
             /\ (n \in quarantine' => n \in quarantine \/ MustQuarantine(n))
    <3>1. MustQuarantine(n) => ~Ready(n)
      BY MessagesAssumption DEF MustQuarantine, Ready, TypeInv, TypeOK, ExpectedSeq,
          MaxSequence
    <3>2. \A m \in Messages : Ready(m)' <=> Ready(m)
      BY <2>2 DEF Ready, ExpectedSeq, MaxSequence, MaxKey, MissingDependencies
    <3> QED BY <2>0, <2>1, <2>2, <3>1, <3>2 DEF DrainInv, TypeInv, TypeOK
  <2>3. CASE AppendDirect(n) /\ InsertAccepted(messages, n)
    <3>1. /\ messages' = messages \cup {n} /\ pc' = "upsert" /\ cur' = n
          /\ UNCHANGED <<feedState, quarantine, quarantineDeps, torn>>
      BY <2>3 DEF AppendDirect
    <3>2. ASSUME Clean, NEW m \in quarantine, Ready(m)' PROVE ToBeDrained(m)'
      BY <2>0, <3>1, <3>2, InsertReadies DEF InFrames
    <3> QED BY <2>0, <3>1, <3>2 DEF DrainInv
  <2> QED BY <1>1, <2>2, <2>3 DEF AppendMessage, AppendInvalid, AppendPast,
        AppendQuarantine, AppendDirect, tables
<1>2. CASE WipeMessages \/ WipeFeedState \/ WipeProfiles \/ WipeQuarantine \/ Crash
  BY <1>2, NotClean DEF DrainInv
<1>3. CASE WipeDeps
  BY <1>3 DEF WipeDeps, DrainInv, CausalInv, WipedQuarantine
<1>4. CASE QueueStep /\ ~WipeStep
  <2>0. UNCHANGED torn /\ ~Wiping /\ (Clean' <=> Clean)
    BY <1>4 DEF QueueStep, ClearDeps, AddDep, QuarantineDone, UpdateFeedState,
        RemoveFromQuarantine, DrainQuarantine, TryRelease, DrainReturns,
        UpdateProfile, Return, Clean, Wiping, WipePhases
  <2> SUFFICES ASSUME Clean, Clean', NEW m \in quarantine', Ready(m)'
               PROVE  InFrames(m)' \/ ToBeDrained(m)'
    BY <2>0 DEF DrainInv
  <2>1. ASSUME UNCHANGED <<messages, feedState, quarantine, frames>>, ~Inserted
        PROVE  InFrames(m)'
    <3>1. Ready(m) /\ m \in quarantine
      BY <2>1 DEF Ready, ExpectedSeq, MaxSequence, MaxKey, MissingDependencies
    <3> QED BY <2>1, <3>1 DEF DrainInv, ToBeDrained, InFrames
  <2>2. CASE ClearDeps \/ AddDep
    BY <2>1, <2>2 DEF ClearDeps, AddDep, Inserted
  <2>3. CASE QuarantineDone \/ UpdateProfile
    <3>1. frames = <<>> /\ frames' = <<>>
      BY <2>3 DEF QuarantineDone, UpdateProfile, Return, RowsInv, FramesEmpty,
          CommitPhases
    <3> QED BY <2>1, <2>3, <3>1 DEF QuarantineDone, UpdateProfile, tables, Inserted
  <2>4. CASE UpdateFeedState
    <3>1. /\ pc = "upsert" /\ pc' \in {"drain", "unquarantine"}
          /\ feedState' = [feedState EXCEPT ![Author[cur]] =
                              [seq |-> Sequence[cur], key |-> cur]]
          /\ UNCHANGED <<messages, quarantine, quarantineDeps, cur, frames>>
      BY <2>4 DEF UpdateFeedState
    <3>2. CASE Author[m] = Author[cur]
      BY <3>1, <3>2 DEF ToBeDrained, Inserted
    <3>3. CASE Author[m] # Author[cur]
      <4>1. feedState'[Author[m]] = feedState[Author[m]] /\ m \in quarantine
        BY <3>1, <3>3, MessagesAssumption DEF TypeInv, TypeOK
      <4>2. Ready(m)
        BY <3>1, <4>1 DEF Ready, ExpectedSeq, MaxSequence, MaxKey, MissingDependencies
      <4> QED BY <3>1, <4>1, <4>2 DEF DrainInv, ToBeDrained, Inserted, InFrames
    <3> QED BY <3>2, <3>3
  <2>5. CASE RemoveFromQuarantine
    <3>1. /\ pc = "unquarantine" /\ pc' = "drain" /\ m \in quarantine
          /\ UNCHANGED <<messages, feedState, quarantineDeps, cur, frames>>
      BY <2>5 DEF RemoveFromQuarantine
    <3>2. Ready(m)
      BY <3>1 DEF Ready, ExpectedSeq, MaxSequence, MaxKey, MissingDependencies
    <3> QED BY <3>1, <3>2 DEF DrainInv, ToBeDrained, Inserted, InFrames
  <2>6. CASE DrainQuarantine
    <3>1. /\ frames' = <<DrainCandidates(cur)>> \o frames
          /\ pc = "drain" /\ UNCHANGED <<messages, feedState, quarantine>>
      BY <2>6 DEF DrainQuarantine
    <3>2. Ready(m) /\ m \in quarantine /\ m \in Messages
      BY <3>1 DEF Ready, ExpectedSeq, MaxSequence, MaxKey, MissingDependencies,
          TypeInv, TypeOK
    <3>3. ToBeDrained(m) => m \in DrainCandidates(cur)
      BY <3>2 DEF ToBeDrained, DrainCandidates, BlockedBy, NextInLine, Ready
    <3>4. DrainCandidates(cur) \in SUBSET Messages
      BY DEF DrainCandidates, BlockedBy, NextInLine, TypeInv, TypeOK
    <3>5. InFrames(m) \/ m \in DrainCandidates(cur)
      BY <3>2, <3>3 DEF DrainInv
    <3> QED BY <1>0, <3>1, <3>4, <3>5, FramesKept DEF InFrames
  <2>7. ASSUME NEW n \in Messages, TryRelease(n)
        PROVE  InFrames(m)' \/ ToBeDrained(m)'
    <3>1. /\ pc = "release" /\ frames # <<>>
          /\ frames' = <<Head(frames) \ {n}>> \o Tail(frames)
          /\ UNCHANGED <<feedState, quarantine, quarantineDeps, torn>>
      BY <2>7 DEF TryRelease
    <3>2. CASE Releasable(n) /\ InsertAccepted(messages, n)
      <4>1. messages' = messages \cup {n} /\ pc' = "upsert" /\ cur' = n
        BY <2>7, <3>2 DEF TryRelease
      <4>2. CASE m = n
        BY <4>1, <4>2 DEF ToBeDrained, Inserted
      <4>3. CASE m # n
        <5>1. ToBeDrained(m)' \/ InFrames(m)
          BY <3>1, <4>1, InsertReadies
        <5> QED BY <1>0, <3>1, <4>3, <5>1, FrameLosesOne DEF InFrames
      <4> QED BY <4>2, <4>3
    <3>3. CASE ~(Releasable(n) /\ InsertAccepted(messages, n))
      <4>1. UNCHANGED <<messages, pc, cur>>
        BY <2>7, <3>3 DEF TryRelease
      <4>2. Ready(m) /\ m \in quarantine /\ m \in Messages
        BY <3>1, <4>1 DEF Ready, ExpectedSeq, MaxSequence, MaxKey,
            MissingDependencies, TypeInv, TypeOK
      <4>3. InFrames(m)
        BY <3>1, <4>2 DEF DrainInv, ToBeDrained, Inserted
      <4>4. m # n
        <5>1. \A row \in quarantineDeps : row[1] # m
          BY <3>1, <4>2 DEF RowsInv, RowsOwed, Inserted, Ready, MissingDependencies
        <5>2. Releasable(m)
          BY <4>2, <5>1 DEF Releasable, Ready
        <5>3. \A k \in messages : Sequence[k] <= MaxSequence(Author[k])
          BY <3>1 DEF CommitInv, StateCovers, Clean
        <5>4. MaxSequence(Author[m]) \in Int
          BY <4>2, MessagesAssumption DEF TypeInv, TypeOK, MaxSequence
        <5>5. \A k \in messages : ~SameSlot(k, m)
          BY <4>2, <5>3, <5>4 DEF Ready, ExpectedSeq, SameSlot
        <5>6. InsertAccepted(messages, m)
          BY <5>5 DEF InsertAccepted, SameSlot
        <5> QED BY <3>3, <5>2, <5>6
      <4> QED BY <1>0, <3>1, <4>3, <4>4, FrameLosesOne DEF InFrames
    <3> QED BY <3>2, <3>3
  <2>8. CASE DrainReturns
    <3>1. /\ pc = "release" /\ frames # <<>> /\ Head(frames) = {}
          /\ frames' = Tail(frames)
          /\ UNCHANGED <<messages, feedState, quarantine>>
      BY <2>8 DEF DrainReturns, tables
    <3>2. Ready(m) /\ m \in quarantine
      BY <3>1 DEF Ready, ExpectedSeq, MaxSequence, MaxKey, MissingDependencies
    <3>3. InFrames(m)
      BY <3>1, <3>2 DEF DrainInv, ToBeDrained, Inserted
    <3> QED BY <1>0, <3>1, <3>3, FramesKept DEF InFrames
  <2> QED BY <1>4, <2>2, <2>3, <2>4, <2>5, <2>6, <2>7, <2>8 DEF QueueStep
<1>5. CASE UNCHANGED vars
  BY <1>5 DEF vars, tables, volatile, DrainInv, Clean, Wiping, Ready, ExpectedSeq,
      MaxSequence, MaxKey, MissingDependencies, InFrames, ToBeDrained, Inserted
<1> QED BY <1>1, <1>2, <1>3, <1>4, <1>5 DEF Next, QueueStep, WipeStep

(* The inductive invariant of the drain: what could be released is a        *)
(* candidate of a drain that runs, or will be one of the next.              *)
THEOREM DrainInvariant == Spec => []DrainInv
<1>1. Init => DrainInv
  BY DEF Init, DrainInv
<1> QED BY <1>1, DrainStep, TypeInvariant, CommitInvariant, CausalInvariant,
      RowsInvariant, PTL DEF Spec

(* When appendMessage: has returned nothing is left in quarantine that      *)
(* _tryRelease would release, as long as no crash cut an operation short.   *)
THEOREM DrainIsComplete == Spec => []NothingReleasable
<1>1. RowsInv /\ DrainInv => NothingReleasable
  BY DEF RowsInv, FramesEmpty, CommitPhases, DrainInv, NothingReleasable, Idle,
      Clean, Wiping, WipePhases, Ready, InFrames, ToBeDrained, Inserted
<1> QED BY <1>1, RowsInvariant, DrainInvariant, PTL

-----------------------------------------------------------------------------
(* No stale row stays in quarantine. *)

(* Of a linked feed, the message appended directly was not in quarantine:   *)
(* it would have been ready.                                                *)
LEMMA DirectNotQuarantined ==
    ASSUME TypeInv, CommitInv, RowsInv, DrainInv, Clean, NEW m \in Messages,
           AppendDirect(m), m \in quarantine
    PROVE  ~WellLinked(m)
<1> SUFFICES ASSUME WellLinked(m) PROVE FALSE
  OBVIOUS
<1> DEFINE a == Author[m]
<1>1. /\ pc = "idle" /\ Sequence[m] = MaxSequence(a) + 1
      /\ MissingDependencies(m) = {} /\ a \in Authors
  BY MessagesAssumption DEF AppendDirect, MustQuarantine, ExpectedSeq
<1>2. FeedIntact(a) /\ MaxSequence(a) \in Int /\ Sequence[m] \in Int
  BY <1>1, MessagesAssumption DEF CommitInv, FeedsIntact, Clean, MaxSequence, TypeInv,
      TypeOK
<1>3. ASSUME Sequence[m] > 1 PROVE Previous[m] = MaxKey(a)
  <2>1. /\ Previous[m] \in messages /\ Author[Previous[m]] = a
        /\ Sequence[Previous[m]] = MaxSequence(a)
    <3>1. /\ Previous[m] # Nil /\ Author[Previous[m]] = a
          /\ Sequence[Previous[m]] = Sequence[m] - 1
      BY <1>3 DEF WellLinked
    <3>2. Previous[m] \in messages
      BY <1>1, <3>1 DEF MissingDependencies, Dependencies
    <3> QED BY <1>1, <1>2, <3>1, <3>2
  <2>2. feedState[a] # NoRow
    BY <1>1, <1>2, <1>3 DEF NoRow, MaxSequence
  <2>3. /\ MaxKey(a) \in messages /\ Author[MaxKey(a)] = a
        /\ Sequence[MaxKey(a)] = MaxSequence(a)
    BY <1>2, <2>2 DEF FeedIntact, StoredBy
  <2> QED BY <2>1, <2>3 DEF CommitInv, SlotsUnique, SameSlot
<1>4. Ready(m)
  BY <1>1, <1>3 DEF Ready, ExpectedSeq
<1> QED BY <1>1, <1>4 DEF DrainInv, RowsInv, FramesEmpty, CommitPhases, InFrames,
      ToBeDrained, Inserted

(* No step leaves a stored message of a linked feed in quarantine. *)
LEMMA StaleStep ==
    TypeInv /\ CommitInv /\ CausalInv /\ RowsInv /\ DrainInv /\ StaleInv /\ [Next]_vars
        => StaleInv'
<1> SUFFICES ASSUME TypeInv, CommitInv, CausalInv, RowsInv, DrainInv, StaleInv,
                    [Next]_vars
             PROVE  StaleInv'
  OBVIOUS
<1>1. ASSUME NEW n \in Messages, AppendMessage(n) PROVE StaleInv'
  <2>0. pc = "idle" /\ (Clean' => Clean)
    BY <1>1 DEF AppendMessage, AppendInvalid, AppendPast, AppendQuarantine,
        AppendDirect, Clean, Wiping, WipePhases
  <2>1. Clean => \A m \in quarantine \cap messages : ~WellLinked(m)
    BY <2>0 DEF StaleInv
  <2>2. CASE UNCHANGED <<messages, quarantine>>
    BY <2>0, <2>1, <2>2 DEF StaleInv, WellLinked
  <2>3. CASE AppendQuarantine(n)
    <3>1. Clean => n \notin messages
      <4> SUFFICES ASSUME Clean, n \in messages PROVE FALSE
        OBVIOUS
      <4>1. Sequence[n] <= MaxSequence(Author[n])
        BY <2>0 DEF CommitInv, StateCovers, Clean
      <4>2. Sequence[n] >= MaxSequence(Author[n]) + 1
        BY <2>3 DEF AppendQuarantine, ExpectedSeq
      <4>3. MaxSequence(Author[n]) \in Int /\ Sequence[n] \in Int
        BY MessagesAssumption DEF TypeInv, TypeOK, MaxSequence
      <4> QED BY <4>1, <4>2, <4>3
    <3>2. messages' = messages /\ quarantine' \subseteq quarantine \cup {n}
      BY <2>3 DEF AppendQuarantine
    <3> QED BY <2>0, <2>1, <3>1, <3>2 DEF StaleInv, WellLinked
  <2>4. CASE AppendDirect(n)
    <3>1. quarantine' = quarantine /\ messages' \subseteq messages \cup {n}
      BY <2>4 DEF AppendDirect
    <3>2. Clean /\ n \in quarantine => ~WellLinked(n)
      BY <2>4, DirectNotQuarantined
    <3> QED BY <2>0, <2>1, <3>1, <3>2 DEF StaleInv, WellLinked
  <2> QED BY <1>1, <2>2, <2>3, <2>4 DEF AppendMessage, AppendInvalid, AppendPast, tables
<1>2. CASE WipeMessages \/ WipeFeedState \/ WipeProfiles \/ WipeQuarantine \/ Crash
  BY <1>2, NotClean DEF StaleInv
<1>3. CASE WipeDeps
  BY <1>3 DEF WipeDeps, StaleInv, CausalInv, WipedQuarantine
<1>4. CASE QueueStep /\ ~WipeStep
  <2>0. UNCHANGED torn /\ ~Wiping /\ (Clean' <=> Clean)
    BY <1>4 DEF QueueStep, ClearDeps, AddDep, QuarantineDone, UpdateFeedState,
        RemoveFromQuarantine, DrainQuarantine, TryRelease, DrainReturns,
        UpdateProfile, Return, Clean, Wiping, WipePhases
  <2>1. CASE UpdateFeedState
    <3>1. /\ pc = "upsert" /\ (cur # arg => pc' = "unquarantine")
          /\ UNCHANGED <<messages, quarantine, cur, arg>>
      BY <2>1 DEF UpdateFeedState
    <3> QED BY <2>0, <3>1 DEF StaleInv, WellLinked
  <2>2. CASE RemoveFromQuarantine
    <3>1. /\ pc = "unquarantine" /\ UNCHANGED messages
          /\ quarantine' = {m \in quarantine : ~SameSlot(m, cur)}
      BY <2>2 DEF RemoveFromQuarantine
    <3> QED BY <2>0, <3>1 DEF StaleInv, WellLinked, SameSlot
  <2>3. ASSUME NEW n \in Messages, TryRelease(n) PROVE StaleInv'
    <3>1. pc = "release" /\ UNCHANGED <<quarantine, arg>>
      BY <2>3 DEF TryRelease
    <3>2. CASE Releasable(n) /\ InsertAccepted(messages, n)
      <4>1. messages' = messages \cup {n} /\ pc' = "upsert" /\ cur' = n
        BY <2>3, <3>2 DEF TryRelease
      <4>2. n # arg
        BY <3>1, <3>2 DEF RowsInv, ArgStored, Committing, CommitPhases, InsertAccepted
      <4> QED BY <2>0, <3>1, <4>1, <4>2 DEF StaleInv, WellLinked
    <3>3. CASE ~(Releasable(n) /\ InsertAccepted(messages, n))
      BY <2>0, <2>3, <3>1, <3>3 DEF TryRelease, StaleInv, WellLinked
    <3> QED BY <3>2, <3>3
  <2>4. CASE ~UpdateFeedState /\ ~RemoveFromQuarantine
             /\ ~(\E n \in Messages : TryRelease(n))
    <3>1. UNCHANGED <<messages, quarantine>> /\ pc \notin {"upsert", "unquarantine"}
      BY <1>4, <2>4 DEF QueueStep, ClearDeps, AddDep, QuarantineDone,
          DrainQuarantine, DrainReturns, UpdateProfile, tables
    <3> QED BY <2>0, <3>1 DEF StaleInv, WellLinked
  <2> QED BY <2>1, <2>2, <2>3, <2>4
<1>5. CASE UNCHANGED vars
  BY <1>5 DEF vars, tables, volatile, StaleInv, Clean, Wiping, WellLinked
<1> QED BY <1>1, <1>2, <1>3, <1>4, <1>5 DEF Next, QueueStep, WipeStep

(* A stored message of a properly linked feed holds no slot in quarantine,  *)
(* as long as no crash cut an operation short.                              *)
THEOREM QuarantineIsFresh == Spec => []NoStaleQuarantine
<1>1. Init => StaleInv
  BY DEF Init, StaleInv
<1>2. StaleInv => NoStaleQuarantine
  BY DEF StaleInv, NoStaleQuarantine, Idle, Clean, Wiping, WipePhases
<1> QED BY <1>1, <1>2, StaleStep, TypeInvariant, CommitInvariant, CausalInvariant,
      RowsInvariant, DrainInvariant, PTL DEF Spec

-----------------------------------------------------------------------------
(* Every name comes from a stored message. *)

(* No step stores a name of another origin, or drops the message it is from. *)
LEMMA ProfileStep ==
    TypeInv /\ CommitInv /\ RowsInv /\ ProfileInv /\ [Next]_vars => ProfileInv'
<1> SUFFICES ASSUME TypeInv, CommitInv, RowsInv, ProfileInv, [Next]_vars
             PROVE  ProfileInv'
  OBVIOUS
<1> USE DEF Wiping, WipePhases
<1>1. ASSUME UNCHANGED profiles, messages \subseteq messages', torn \subseteq torn',
             ~Wiping, ~Wiping'
      PROVE  ProfileInv'
  BY <1>1 DEF ProfileInv, ProfilesStored, StoredBy
<1>2. ASSUME NEW m \in Messages, AppendMessage(m) PROVE ProfileInv'
  BY <1>1, <1>2 DEF AppendMessage, AppendInvalid, AppendPast, AppendQuarantine,
      AppendDirect, Return, tables
<1>3. CASE WipeMessages
  BY <1>3 DEF WipeMessages, ProfileInv, ProfilesStored
<1>4. CASE WipeStep
  <2>1. CASE WipeDeps
    <3>1. profiles' = NoProfiles /\ pc' = "idle"
      BY <2>1 DEF WipeDeps, ProfileInv
    <3> QED BY <3>1 DEF ProfileInv, ProfilesStored, NoProfiles
  <2>2. CASE ~WipeDeps
    BY <1>4, <2>2 DEF WipeStep, WipeFeedState, WipeProfiles, WipeQuarantine, ProfileInv,
        ProfilesStored
  <2> QED BY <2>1, <2>2
<1>5. CASE UpdateProfile
  <2>1. /\ pc = "profile" /\ pc' = "idle" /\ arg \in messages /\ UNCHANGED <<messages, torn>>
        /\ profiles' = IF AboutName[arg] = Nil THEN profiles
                       ELSE [profiles EXCEPT ![Author[arg]] = AboutName[arg]]
    BY <1>5 DEF UpdateProfile, Return, RowsInv, ArgStored, Committing
  <2>2. ASSUME "wipe" \notin torn, NEW a \in Authors, profiles'[a] # Nil
        PROVE  \E m \in StoredBy(a)' : AboutName[m] = profiles'[a]
    <3>1. CASE profiles'[a] = profiles[a]
      BY <2>1, <2>2, <3>1 DEF ProfileInv, ProfilesStored, StoredBy
    <3>2. CASE profiles'[a] # profiles[a]
      BY <2>1, <2>2, <3>2 DEF StoredBy, TypeInv, TypeOK
    <3> QED BY <3>1, <3>2
  <2> QED BY <2>1, <2>2 DEF ProfileInv, ProfilesStored
<1>6. CASE QueueStep /\ ~WipeStep /\ ~UpdateProfile
  BY <1>1, <1>6 DEF QueueStep, ClearDeps, AddDep, QuarantineDone, UpdateFeedState,
      RemoveFromQuarantine, DrainQuarantine, TryRelease, DrainReturns, Return, tables
<1>7. CASE Crash
  <2>1. CASE Wiping
    BY <1>7, <2>1 DEF Crash, CutShort, QuarantinePhases, CommitPhases, ProfileInv,
        ProfilesStored
  <2>2. CASE ~Wiping
    BY <1>1, <1>7, <2>2 DEF Crash, tables
  <2> QED BY <2>1, <2>2
<1>8. CASE UNCHANGED vars
  BY <1>8 DEF vars, tables, volatile, ProfileInv, ProfilesStored, StoredBy
<1> QED BY <1>2, <1>3, <1>4, <1>5, <1>6, <1>7, <1>8 DEF Next

(* The name shown for an author is one a stored message of that author      *)
(* gives, through every crash but one inside a wipe.                        *)
THEOREM NamesAreGiven == Spec => []ProfilesStored
<1>1. Init => ProfileInv
  BY DEF Init, ProfileInv, ProfilesStored, NoProfiles
<1>2. ProfileInv => ProfilesStored
  BY DEF ProfileInv
<1> QED BY <1>1, <1>2, ProfileStep, TypeInvariant, CommitInvariant, RowsInvariant, PTL
      DEF Spec

=============================================================================
