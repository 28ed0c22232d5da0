------------------------------ MODULE FeedStore ------------------------------
(***************************************************************************)
(* SSBFeedStore: the SQLite store of one client.                           *)
(*                                                                         *)
(* appendMessage: runs on a serial dispatch queue, but it is not a single  *)
(* transaction: every SQL statement commits by itself.  The model takes    *)
(* one step per writing statement, so that a crash can fall between any    *)
(* two of them.  Rows on disk survive a crash (messages, feedState,        *)
(* profiles, quarantine, quarantineDeps); the position inside the running  *)
(* operation (pc, arg, cur, missing, frames) does not.                     *)
(*                                                                         *)
(* The recursion _drainQuarantineForKey: -> _tryRelease... -> _drain... is *)
(* the stack "frames": one set of candidate keys per active drain call.    *)
(*                                                                         *)
(* A message is identified with its key (the hash of its signed bytes).    *)
(***************************************************************************)
EXTENDS Integers, Sequences

CONSTANTS
    Messages,    \* every message that may be handed to appendMessage:
    Authors,
    Names,       \* display names
    Nil,         \* the nil pointer / SQL NULL
    Verified,    \* messages whose codec exists and accepts the signature
    Author, Sequence, Previous,   \* the fields of a message
    TangleDeps,  \* the keys under content.tangles.*.previous
    AboutName    \* the name a self-"about" message sets, Nil for any other

ASSUME MessagesAssumption ==
    /\ Nil \notin Messages
    /\ Nil \notin Names
    /\ Verified \subseteq Messages
    /\ Author \in [Messages -> Authors]
    /\ Sequence \in [Messages -> Int]
    /\ Previous \in [Messages -> Messages \cup {Nil}]
    /\ TangleDeps \in [Messages -> SUBSET Messages]
    /\ AboutName \in [Messages -> Names \cup {Nil}]

VARIABLES
    messages,        \* rows of table messages
    feedState,       \* table feed_state: author -> [seq, key], NoRow if none
    profiles,        \* table profiles: author -> display name, or Nil
    quarantine,      \* rows of table quarantine
    quarantineDeps,  \* rows <<message_key, dependency_key>>
    pc,              \* the statement dbQueue executes next
    arg,             \* the message appendMessage: was called with
    cur,             \* the message being committed or quarantined
    missing,         \* missingDeps not yet inserted
    frames,          \* candidates left to try, one set per nested drain
    reply,           \* [msg, code]: what the last append returned
    torn             \* which operations a crash has cut short so far

tables == <<messages, feedState, profiles, quarantine, quarantineDeps>>
volatile == <<pc, arg, cur, missing, frames>>
vars == <<tables, volatile, reply, torn>>

QuarantinePhases == {"clearDeps", "addDeps"}
CommitPhases == {"upsert", "unquarantine", "drain", "release"}
WipePhases == {"wipeState", "wipeProfiles", "wipeQuarantine", "wipeDeps"}
Phases == {"idle", "profile"} \cup QuarantinePhases \cup CommitPhases
            \cup WipePhases

NoReply == [msg |-> Nil, code |-> "none"]
NoRow == [seq |-> 0, key |-> Nil]

-----------------------------------------------------------------------------
(* Queries. *)

MaxSequence(a) == feedState[a].seq
MaxKey(a) == feedState[a].key
ExpectedSeq(a) == MaxSequence(a) + 1

SameSlot(m, n) == Author[m] = Author[n] /\ Sequence[m] = Sequence[n]

(* Mutant: INSERT OR REPLACE. *)
InsertReplaces(table, m) == TRUE

(* PRIMARY KEY (author, sequence) and UNIQUE key, of both tables. *)
InsertAccepted(table, m) == m \notin table /\ \A n \in table : ~SameSlot(m, n)

Dependencies(m) ==
    TangleDeps[m] \cup (IF Previous[m] = Nil THEN {} ELSE {Previous[m]})

(* Mutant: tangles are not looked at. *)
MissingPreviousOnly(m) == {d \in {Previous[m]} \ {Nil} : d \notin messages}

MissingDependencies(m) == {d \in Dependencies(m) : d \notin messages}

(* The guards of _tryReleaseQuarantinedMessageWithKey:. *)
Releasable(m) ==
    /\ \A row \in quarantineDeps : row[1] # m
    /\ m \in quarantine
    /\ Sequence[m] = ExpectedSeq(Author[m])
    /\ Sequence[m] > 1 => Previous[m] = MaxKey(Author[m])

(* What _drainQuarantineForKey: collects after key k of author a committed. *)
BlockedBy(k) == {m \in Messages : <<m, k>> \in quarantineDeps}
NextInLine(a) ==
    {m \in quarantine : Author[m] = a /\ Sequence[m] = ExpectedSeq(a)}

(* Mutant: only the author's own feed is drained. *)
DrainOwnFeedOnly(k) == NextInLine(Author[k])

DrainCandidates(k) == BlockedBy(k) \cup NextInLine(Author[k])

-----------------------------------------------------------------------------
TypeOK ==
    /\ messages \subseteq Messages
    /\ feedState \in [Authors -> [seq : Int, key : Messages \cup {Nil}]]
    /\ profiles \in [Authors -> Names \cup {Nil}]
    /\ quarantine \subseteq Messages
    /\ quarantineDeps \subseteq Messages \X Messages
    /\ pc \in Phases
    /\ arg \in Messages \cup {Nil}
    /\ cur \in Messages \cup {Nil}
    /\ missing \subseteq Messages
    /\ frames \in Seq(SUBSET Messages)
    /\ reply \in [msg : Messages \cup {Nil},
                  code : {"none", "yes", "invalid", "past", "insertFailed"}]
    /\ torn \subseteq {"quarantine", "commit", "profile", "wipe"}

EmptyFeedState == [a \in Authors |-> NoRow]
NoProfiles == [a \in Authors |-> Nil]

Init ==
    /\ messages = {} /\ quarantine = {} /\ quarantineDeps = {}
    /\ feedState = EmptyFeedState
    /\ profiles = NoProfiles
    /\ pc = "idle" /\ arg = Nil /\ cur = Nil
    /\ missing = {} /\ frames = <<>>
    /\ reply = NoReply /\ torn = {}

(* The operation is over: the queue is free and the caller has its answer. *)
Return(m, code) ==
    /\ pc' = "idle" /\ arg' = Nil /\ cur' = Nil
    /\ missing' = {} /\ frames' = <<>>
    /\ reply' = [msg |-> m, code |-> code]

-----------------------------------------------------------------------------
(* appendMessage:, up to its first writing statement. *)

(* No codec for the format, or the codec refuses the signed bytes. *)
AppendInvalid(m) ==
    /\ pc = "idle"
    /\ m \notin Verified
    /\ Return(m, "invalid")
    /\ UNCHANGED <<tables, torn>>

AppendPast(m) ==
    /\ pc = "idle"
    /\ m \in Verified
    /\ Sequence[m] < ExpectedSeq(Author[m])
    /\ Return(m, "past")
    /\ UNCHANGED <<tables, torn>>

(* Mutant: an occupied quarantine slot sends the message there too. *)
MustQuarantineIfSlotTaken(m) ==
    \/ Sequence[m] > ExpectedSeq(Author[m])
    \/ MissingDependencies(m) # {}
    \/ \E q \in quarantine : SameSlot(q, m)

(* Out of order, or something it refers to is not stored. *)
MustQuarantine(m) ==
    Sequence[m] > ExpectedSeq(Author[m]) \/ MissingDependencies(m) # {}

AppendQuarantine(m) ==
    /\ pc = "idle"
    /\ m \in Verified
    /\ Sequence[m] >= ExpectedSeq(Author[m])
    /\ MustQuarantine(m)
    /\ \/ /\ InsertAccepted(quarantine, m)
          /\ quarantine' = quarantine \cup {m}
          /\ pc' = "clearDeps" /\ arg' = m /\ cur' = m
          /\ missing' = MissingDependencies(m)
          /\ reply' = NoReply
          /\ UNCHANGED frames
       \/ /\ ~InsertAccepted(quarantine, m)
          /\ Return(m, "insertFailed")
          /\ UNCHANGED quarantine
    /\ UNCHANGED <<messages, feedState, profiles, quarantineDeps, torn>>

AppendDirect(m) ==
    /\ pc = "idle"
    /\ m \in Verified
    /\ Sequence[m] = ExpectedSeq(Author[m])
    /\ ~MustQuarantine(m)
    /\ \/ /\ InsertAccepted(messages, m)
          /\ messages' = messages \cup {m}
          /\ pc' = "upsert" /\ arg' = m /\ cur' = m
          /\ reply' = NoReply
          /\ UNCHANGED <<missing, frames>>
       \/ /\ ~InsertAccepted(messages, m)
          /\ Return(m, "insertFailed")
          /\ UNCHANGED messages
    /\ UNCHANGED <<feedState, profiles, quarantine, quarantineDeps, torn>>

AppendMessage(m) ==
    AppendInvalid(m) \/ AppendPast(m) \/ AppendQuarantine(m) \/ AppendDirect(m)

-----------------------------------------------------------------------------
(* _updateQuarantineDependenciesForMessage:missingDeps: *)

ClearDeps ==
    /\ pc = "clearDeps"
    /\ quarantineDeps' = {row \in quarantineDeps : row[1] # cur}
    /\ pc' = "addDeps"
    /\ UNCHANGED <<messages, feedState, profiles, quarantine,
                   arg, cur, missing, frames, reply, torn>>

AddDep ==
    /\ pc = "addDeps"
    /\ \E d \in missing :
          /\ quarantineDeps' = quarantineDeps \cup {<<cur, d>>}
          /\ missing' = missing \ {d}
    /\ UNCHANGED <<messages, feedState, profiles, quarantine,
                   pc, arg, cur, frames, reply, torn>>

QuarantineDone ==
    /\ pc = "addDeps" /\ missing = {}
    /\ Return(arg, "yes")
    /\ UNCHANGED <<tables, torn>>

-----------------------------------------------------------------------------
(* The statements that follow an INSERT INTO messages. *)

(* Mutant: ON CONFLICT DO NOTHING. *)
InsertFeedStateOnce ==
    /\ pc = "upsert"
    /\ feedState' = IF feedState[Author[cur]] # NoRow THEN feedState
                    ELSE [feedState EXCEPT ![Author[cur]] =
                             [seq |-> Sequence[cur], key |-> cur]]
    /\ pc' = IF cur = arg THEN "drain" ELSE "unquarantine"
    /\ UNCHANGED <<messages, profiles, quarantine, quarantineDeps,
                   arg, cur, missing, frames, reply, torn>>

(* Mutant: the row written is that of the appended message, also when a     *)
(* message released from quarantine is committed.                           *)
UpdateFeedStateFromArg ==
    /\ pc = "upsert"
    /\ feedState' = [feedState EXCEPT ![Author[cur]] =
                        [seq |-> Sequence[arg], key |-> arg]]
    /\ pc' = IF cur = arg THEN "drain" ELSE "unquarantine"
    /\ UNCHANGED <<messages, profiles, quarantine, quarantineDeps,
                   arg, cur, missing, frames, reply, torn>>

UpdateFeedState ==
    /\ pc = "upsert"
    /\ feedState' = [feedState EXCEPT ![Author[cur]] =
                        [seq |-> Sequence[cur], key |-> cur]]
    /\ pc' = IF cur = arg THEN "drain" ELSE "unquarantine"
    /\ UNCHANGED <<messages, profiles, quarantine, quarantineDeps,
                   arg, cur, missing, frames, reply, torn>>

(* Mutant: deletes the slot of the appended message. *)
RemoveArgFromQuarantine ==
    /\ pc = "unquarantine"
    /\ quarantine' = {m \in quarantine : ~SameSlot(m, arg)}
    /\ pc' = "drain"
    /\ UNCHANGED <<messages, feedState, profiles, quarantineDeps,
                   arg, cur, missing, frames, reply, torn>>

RemoveFromQuarantine ==
    /\ pc = "unquarantine"
    /\ quarantine' = {m \in quarantine : ~SameSlot(m, cur)}
    /\ pc' = "drain"
    /\ UNCHANGED <<messages, feedState, profiles, quarantineDeps,
                   arg, cur, missing, frames, reply, torn>>

(* Mutant: the satisfied dependency rows are not deleted. *)
DrainKeepsRows ==
    /\ pc = "drain"
    /\ frames' = <<DrainCandidates(cur)>> \o frames
    /\ pc' = "release" /\ cur' = Nil
    /\ UNCHANGED <<tables, arg, missing, reply, torn>>

DrainQuarantine ==
    /\ pc = "drain"
    /\ frames' = <<DrainCandidates(cur)>> \o frames
    /\ quarantineDeps' = {row \in quarantineDeps : row[2] # cur}
    /\ pc' = "release" /\ cur' = Nil
    /\ UNCHANGED <<messages, feedState, profiles, quarantine,
                   arg, missing, reply, torn>>

(* Mutant: a candidate that cannot be released yet is tried again. *)
TryReleaseAgain(m) ==
    /\ pc = "release" /\ frames # <<>> /\ m \in Head(frames)
    /\ \/ /\ Releasable(m) /\ InsertAccepted(messages, m)
          /\ messages' = messages \cup {m}
          /\ pc' = "upsert" /\ cur' = m
          /\ frames' = <<Head(frames) \ {m}>> \o Tail(frames)
       \/ /\ ~(Releasable(m) /\ InsertAccepted(messages, m))
          /\ UNCHANGED <<messages, pc, cur, frames>>
    /\ UNCHANGED <<feedState, profiles, quarantine, quarantineDeps,
                   arg, missing, reply, torn>>

(* The loop over the candidates of the innermost drain: any order, because *)
(* they sit in an NSMutableSet.                                            *)
TryRelease(m) ==
    /\ pc = "release" /\ frames # <<>> /\ m \in Head(frames)
    /\ frames' = <<Head(frames) \ {m}>> \o Tail(frames)
    /\ \/ /\ Releasable(m) /\ InsertAccepted(messages, m)
          /\ messages' = messages \cup {m}
          /\ pc' = "upsert" /\ cur' = m
       \/ /\ ~(Releasable(m) /\ InsertAccepted(messages, m))
          /\ UNCHANGED <<messages, pc, cur>>
    /\ UNCHANGED <<feedState, profiles, quarantine, quarantineDeps,
                   arg, missing, reply, torn>>

(* A drain call returns to the drain that contains it, or to the append. *)
DrainReturns ==
    /\ pc = "release" /\ frames # <<>> /\ Head(frames) = {}
    /\ frames' = Tail(frames)
    /\ pc' = IF Tail(frames) = <<>> THEN "profile" ELSE "release"
    /\ UNCHANGED <<tables, arg, cur, missing, reply, torn>>

(* COALESCE keeps the old name when the message carries none. *)
UpdateProfile ==
    /\ pc = "profile"
    /\ profiles' = IF AboutName[arg] = Nil THEN profiles
                   ELSE [profiles EXCEPT ![Author[arg]] = AboutName[arg]]
    /\ Return(arg, "yes")
    /\ UNCHANGED <<messages, feedState, quarantine, quarantineDeps, torn>>

-----------------------------------------------------------------------------
(* wipeDatabase: one DROP per table, then createSchema. *)

WipeMessages ==
    /\ pc = "idle"
    /\ messages' = {}
    /\ pc' = "wipeState" /\ reply' = NoReply
    /\ UNCHANGED <<feedState, profiles, quarantine, quarantineDeps,
                   arg, cur, missing, frames, torn>>

WipeFeedState ==
    /\ pc = "wipeState"
    /\ feedState' = EmptyFeedState
    /\ pc' = "wipeProfiles"
    /\ UNCHANGED <<messages, profiles, quarantine, quarantineDeps,
                   arg, cur, missing, frames, reply, torn>>

(* Mutant: profiles is not among the dropped tables. *)
WipeProfilesNot ==
    /\ pc = "wipeProfiles"
    /\ pc' = "wipeQuarantine"
    /\ UNCHANGED <<messages, feedState, profiles, quarantine, quarantineDeps,
                   arg, cur, missing, frames, reply, torn>>

WipeProfiles ==
    /\ pc = "wipeProfiles"
    /\ profiles' = NoProfiles
    /\ pc' = "wipeQuarantine"
    /\ UNCHANGED <<messages, feedState, quarantine, quarantineDeps,
                   arg, cur, missing, frames, reply, torn>>

WipeQuarantine ==
    /\ pc = "wipeQuarantine"
    /\ quarantine' = {}
    /\ pc' = "wipeDeps"
    /\ UNCHANGED <<messages, feedState, profiles, quarantineDeps,
                   arg, cur, missing, frames, reply, torn>>

(* The database is as good as new: nothing an earlier crash did remains. *)
WipeDeps ==
    /\ pc = "wipeDeps"
    /\ quarantineDeps' = {}
    /\ torn' = {}
    /\ pc' = "idle"
    /\ UNCHANGED <<messages, feedState, profiles, quarantine,
                   arg, cur, missing, frames, reply>>

WipeStep == WipeFeedState \/ WipeProfiles \/ WipeQuarantine \/ WipeDeps

-----------------------------------------------------------------------------
(* The process dies inside an operation and initWithPath: reopens the file. *)
(* createSchema finds every table in place, or recreates the dropped ones.  *)
CutShort(phase) ==
    CASE phase \in QuarantinePhases -> "quarantine"
      [] phase \in CommitPhases     -> "commit"
      [] phase \in WipePhases       -> "wipe"
      [] OTHER                      -> "profile"

Crash ==
    /\ pc # "idle"
    /\ torn' = torn \cup {CutShort(pc)}
    /\ pc' = "idle" /\ arg' = Nil /\ cur' = Nil
    /\ missing' = {} /\ frames' = <<>> /\ reply' = NoReply
    /\ UNCHANGED tables

-----------------------------------------------------------------------------
(* The thread that runs the block on dbQueue. *)
QueueStep ==
    \/ ClearDeps \/ AddDep \/ QuarantineDone
    \/ UpdateFeedState \/ RemoveFromQuarantine
    \/ DrainQuarantine \/ (\E m \in Messages : TryRelease(m)) \/ DrainReturns
    \/ UpdateProfile
    \/ WipeStep

Next ==
    \/ \E m \in Messages : AppendMessage(m)
    \/ WipeMessages
    \/ QueueStep
    \/ Crash

Spec == Init /\ [][Next]_vars

(* Without crashes and wipes; the queue keeps running, and peers offer each *)
(* message again and again (every clock exchange re-requests what is above  *)
(* max_sequence).                                                           *)
SteadyNext == (\E m \in Messages : AppendMessage(m)) \/ QueueStep

FairSpec ==
    /\ Init /\ [][SteadyNext]_vars
    /\ WF_vars(QueueStep)
    /\ \A m \in Messages : SF_vars(AppendMessage(m))

-----------------------------------------------------------------------------
(* Properties. *)

Idle == pc = "idle"
Wiping == pc \in WipePhases
StoredBy(a) == {m \in messages : Author[m] = a}

(* m continues its author's feed: the previous message is the one before it. *)
WellLinked(m) ==
    IF Sequence[m] = 1 THEN Previous[m] = Nil
    ELSE /\ Previous[m] # Nil
         /\ Author[Previous[m]] = Author[m]
         /\ Sequence[Previous[m]] = Sequence[m] - 1

(* Whatever crash cuts an append short, the rows of an author are gapless: *)
(* every sequence up to max_sequence has its row, max_key is the row at    *)
(* max_sequence, and at most one committed row is ahead of feed_state.     *)
(* Only a crash inside wipeDatabase (messages dropped, feed_state kept)    *)
(* breaks this.                                                            *)
FeedIntact(a) ==
    /\ \A i \in 1 .. MaxSequence(a) : \E m \in StoredBy(a) : Sequence[m] = i
    /\ \A m \in StoredBy(a) : Sequence[m] \in 1 .. ExpectedSeq(a)
    /\ feedState[a] # NoRow => /\ MaxKey(a) \in StoredBy(a)
                               /\ Sequence[MaxKey(a)] = MaxSequence(a)
FeedsIntact == Wiping \/ "wipe" \in torn \/ \A a \in Authors : FeedIntact(a)

(* As long as no crash fell between INSERT INTO messages and the update of *)
(* feed_state, readers of feed_state (the EBT clock, the next publish) see *)
(* every stored message.                                                   *)
StateCoversMessages ==
    Idle /\ torn \cap {"commit", "wipe"} = {} =>
        \A m \in messages : Sequence[m] <= MaxSequence(Author[m])

(* A message is visible only when its predecessor and all its tangle        *)
(* predecessors are, whichever way it came: appended directly or released   *)
(* from quarantine.  A crash between the quarantine row and its dependency  *)
(* rows breaks it.                                                          *)
CausallyClosed ==
    Wiping \/ torn \cap {"quarantine", "wipe"} # {} \/
        \A m \in messages : Dependencies(m) \subseteq messages

(* The dependency rows are exactly what each quarantined message waits for. *)
DependencyRowsExact ==
    Idle /\ torn = {} =>
        quarantineDeps =
            UNION {{m} \X MissingDependencies(m) : m \in quarantine}

(* When an append has returned, the recursive drain left nothing behind:    *)
(* no quarantined message is the next of its feed with all it refers to.    *)
NothingReleasable ==
    Idle /\ torn = {} =>
        \A m \in quarantine :
            ~ /\ Sequence[m] = ExpectedSeq(Author[m])
              /\ MissingDependencies(m) = {}
              /\ Sequence[m] > 1 => Previous[m] = MaxKey(Author[m])

(* A message of a properly linked feed is never stored and quarantined at   *)
(* once: its stale row would occupy the (author, sequence) slot for good.   *)
NoStaleQuarantine ==
    Idle /\ torn = {} =>
        \A m \in quarantine \cap messages : ~WellLinked(m)

(* max_sequence only moves one message at a time, and back only in a wipe. *)
AdvancesByOne ==
    [][pc # "wipeState" =>
          \A a \in Authors : MaxSequence(a)' - MaxSequence(a) \in {0, 1}]_vars

(* Unless a crash tore a commit, appendMessage never answers "insert failed" *)
(* (error 5) for a sequence that is already stored: that answer is error 6,  *)
(* on which callers skip the message.                                        *)
StoredMeansPast ==
    [][/\ reply'.code = "insertFailed" /\ reply' # reply
       /\ torn \cap {"commit", "wipe"} = {}
       => \A n \in messages : ~SameSlot(n, reply'.msg)]_vars

(* The price of a torn commit: the row is there, feed_state is not, every   *)
(* later insert hits the primary key, and the feed stays where it is until  *)
(* a wipe.                                                                  *)
Wedged(a) ==
    \E m \in StoredBy(a) :
        Sequence[m] = ExpectedSeq(a) /\ ~(pc = "upsert" /\ cur = m)
WedgedStaysWedged ==
    [][~Wiping /\ ~Wiping' => \A a \in Authors : Wedged(a) => Wedged(a)']_vars

(* A drain always ends: appendMessage: returns to its caller, although it   *)
(* recurses through every feed it unblocks.                                 *)
AppendReturns == ~Idle ~> Idle

(* A feed whose next message is on offer, with everything it refers to      *)
(* stored, advances: no leftover in quarantine can block it.                *)
Offered(m) ==
    /\ m \in Verified
    /\ Sequence[m] = ExpectedSeq(Author[m])
    /\ MissingDependencies(m) = {}
OfferedFeedAdvances ==
    \A m \in Messages :
        Offered(m) ~> MaxSequence(Author[m]) >= Sequence[m]

(* The messages table implements FeedLog, through every crash but those in  *)
(* the middle of a quarantine insert or of a wipe.                          *)
Log == INSTANCE FeedLog WITH log <- messages
SoundSpec == Init /\ [][Next /\ torn' \cap {"quarantine", "wipe"} = {}]_vars
ImplementsFeedLog == Log!Spec

(* SSBFeedStore.h:17, "Validates sequence/previous chain": every stored     *)
(* message follows the stored message before it.                            *)
ChainValidated ==
    \A m, p \in messages :
        Author[p] = Author[m] /\ Sequence[m] = Sequence[p] + 1 =>
            Previous[m] = p

(* The name shown for an author is one the author gave in a stored message, *)
(* unless a wipe was torn.  (It may not be the last one: a message that is  *)
(* released from quarantine leaves the profile alone.)                      *)
ProfilesStored ==
    ~Wiping /\ "wipe" \notin torn =>
        \A a \in Authors :
            profiles[a] # Nil => \E m \in StoredBy(a) : AboutName[m] = profiles[a]

=============================================================================
