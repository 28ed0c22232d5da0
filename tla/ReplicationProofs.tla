-------------------------- MODULE ReplicationProofs --------------------------
(***************************************************************************)
(* Theorems about Replication, for any feeds, any number of threads that   *)
(* start a session and of broken tunnels.                                  *)
(*                                                                         *)
(* A frame waits in the channel, in the buffer or in what is left of a     *)
(* replay, and steps only move it along these or handle it; so the         *)
(* invariants speak of the set and of the number of frames under way.      *)
(***************************************************************************)
EXTENDS Replication, SequenceTheorems, FiniteSetTheorems, WellFoundedInduction, TLAPS

USE ReplicationAssumption

-----------------------------------------------------------------------------
(* Sequences: their members, and how many of them are no messages.          *)

Members(s) == {s[i] : i \in DOMAIN s}
NoMessages(s) == {i \in DOMAIN s : s[i].kind # "msg"}
Count(s) == Cardinality(NoMessages(s))

(* The members of the empty sequence, of two in a row and of the rest.      *)
LEMMA MembersOf ==
    ASSUME NEW S
    PROVE  /\ Members(<<>>) = {}
           /\ \A s \in Seq(S) : Members(s) \subseteq S
           /\ \A s, t \in Seq(S) : Members(s \o t) = Members(s) \cup Members(t)
           /\ \A s \in Seq(S), e \in S : Members(Append(s, e)) = Members(s) \cup {e}
           /\ \A s \in Seq(S) : s # <<>> =>
                Members(s) = {Head(s)} \cup Members(Tail(s))
<1>1. Members(<<>>) = {}
  BY DEF Members
<1>2. ASSUME NEW s \in Seq(S) PROVE Members(s) \subseteq S
  BY <1>2, LenProperties, ElementOfSeq DEF Members
<1>3. ASSUME NEW s \in Seq(S), NEW t \in Seq(S)
      PROVE  Members(s \o t) = Members(s) \cup Members(t)
  <2> DEFINE u == s \o t
  <2>1. /\ DOMAIN s = 1 .. Len(s) /\ DOMAIN t = 1 .. Len(t)
        /\ Len(s) \in Nat /\ Len(t) \in Nat
        /\ DOMAIN u = 1 .. Len(s) + Len(t)
        /\ \A i \in 1 .. Len(s) : u[i] = s[i]
        /\ \A i \in 1 .. Len(t) : u[Len(s) + i] = t[i]
    BY ConcatProperties, LenProperties
  <2> HIDE DEF u
  <2>2. Members(s) \cup Members(t) \subseteq Members(u)
    <3>1. \A i \in 1 .. Len(t) : Len(s) + i \in DOMAIN u
      BY <2>1
    <3>2. \A i \in 1 .. Len(s) : i \in DOMAIN u
      BY <2>1
    <3> QED BY <2>1, <3>1, <3>2 DEF Members
  <2>3. Members(u) \subseteq Members(s) \cup Members(t)
    <3>1. \A i \in DOMAIN u : i \in 1 .. Len(s)
            \/ (i - Len(s) \in 1 .. Len(t) /\ i = Len(s) + (i - Len(s)))
      BY <2>1
    <3> QED BY <2>1, <3>1 DEF Members
  <2> QED BY <2>2, <2>3 DEF u
<1>4. ASSUME NEW s \in Seq(S), NEW e \in S
      PROVE  Members(Append(s, e)) = Members(s) \cup {e}
  <2>1. <<e>> \in Seq(S) /\ Members(<<e>>) = {e}
    BY DEF Members
  <2>2. Append(s, e) = s \o <<e>>
    BY AppendIsConcat
  <2> QED BY <1>3, <2>1, <2>2
<1>5. ASSUME NEW s \in Seq(S), s # <<>>
      PROVE  Members(s) = {Head(s)} \cup Members(Tail(s))
  <2>1. /\ Head(s) \in S /\ Tail(s) \in Seq(S) /\ s = <<Head(s)>> \o Tail(s)
        /\ <<Head(s)>> \in Seq(S)
    BY <1>5
  <2>2. Members(<<Head(s)>>) = {Head(s)}
    BY DEF Members
  <2> HIDE <1>5
  <2> QED BY <1>3, <2>1, <2>2
<1> QED BY <1>1, <1>2, <1>3, <1>4, <1>5

(* The positions of a sequence are finitely many.                           *)
LEMMA CountType ==
    ASSUME NEW S, NEW s \in Seq(S)
    PROVE  IsFiniteSet(NoMessages(s)) /\ Count(s) \in Nat
<1>1. IsFiniteSet(1 .. Len(s)) /\ NoMessages(s) \in SUBSET (1 .. Len(s))
  <2>1. Len(s) \in Nat /\ DOMAIN s = 1 .. Len(s)
    BY LenProperties
  <2>2. IsFiniteSet(1 .. Len(s))
    BY <2>1, FS_Interval
  <2> QED BY <2>1, <2>2 DEF NoMessages
<1> QED BY <1>1, FS_Subset, FS_CardinalityType DEF Count

(* The numbers of two sequences in a row add up.                            *)
LEMMA CountConcat ==
    ASSUME NEW S, NEW s \in Seq(S), NEW t \in Seq(S)
    PROVE  Count(s \o t) = Count(s) + Count(t)
<1> DEFINE u == s \o t
           n == Len(s)
           A == NoMessages(s)
           B == NoMessages(t)
           C == {j \in NoMessages(u) : j > n}
           shift == [i \in B |-> n + i]
<1>1. /\ DOMAIN s = 1 .. n /\ DOMAIN t = 1 .. Len(t)
      /\ n \in Nat /\ Len(t) \in Nat
      /\ DOMAIN u = 1 .. n + Len(t)
      /\ \A i \in 1 .. n : u[i] = s[i]
      /\ \A i \in 1 .. Len(t) : u[n + i] = t[i]
  BY ConcatProperties, LenProperties
<1>2. /\ IsFiniteSet(A) /\ IsFiniteSet(B)
      /\ Count(s) = Cardinality(A) /\ Count(t) = Cardinality(B)
      /\ Count(s) \in Nat /\ Count(t) \in Nat
  BY CountType DEF Count
<1> HIDE DEF u, n
<1>3. NoMessages(u) = A \cup C
  BY <1>1 DEF NoMessages
<1>4. A \cap C = {}
  BY <1>1 DEF NoMessages
<1>5. \A j \in C : j - n \in B /\ j = n + (j - n)
  <2> SUFFICES ASSUME NEW j \in C PROVE j - n \in B /\ j = n + (j - n)
    OBVIOUS
  <2>1. j \in 1 .. n + Len(t) /\ j > n /\ u[j].kind # "msg"
    BY <1>1 DEF NoMessages
  <2>2. j - n \in 1 .. Len(t) /\ j = n + (j - n)
    BY <1>1, <2>1
  <2>3. u[j] = t[j - n]
    BY <1>1, <2>2
  <2> QED BY <1>1, <2>1, <2>2, <2>3 DEF NoMessages
<1>6. \A i \in B : n + i \in C
  <2> SUFFICES ASSUME NEW i \in B PROVE n + i \in C
    OBVIOUS
  <2>1. i \in 1 .. Len(t) /\ t[i].kind # "msg"
    BY <1>1 DEF NoMessages
  <2>2. n + i \in 1 .. n + Len(t) /\ n + i > n
    BY <1>1, <2>1
  <2>3. u[n + i] = t[i]
    BY <1>1, <2>1
  <2> QED BY <1>1, <2>1, <2>2, <2>3 DEF NoMessages
<1>7. shift \in Bijection(B, C)
  <2>1. shift \in [B -> C]
    BY <1>6
  <2>2. \A a, b \in B : shift[a] = shift[b] => a = b
    <3>1. B \subseteq Nat
      BY <1>1 DEF NoMessages
    <3> QED BY <1>1, <3>1
  <2>3. \A c \in C : \E b \in B : shift[b] = c
    BY <1>5
  <2> HIDE DEF shift, B, C
  <2> QED BY <2>1, <2>2, <2>3 DEF Bijection, Injection, Surjection, IsInjective
<1>8. IsFiniteSet(C) /\ Cardinality(C) = Cardinality(B)
  <2>1. ExistsBijection(B, C)
    BY <1>7 DEF ExistsBijection
  <2> QED BY <1>2, <2>1, FS_Bijection
<1>9. Cardinality(A \cup C) = Cardinality(A) + Cardinality(C) - Cardinality(A \cap C)
  BY <1>2, <1>8, FS_Union
<1>10. Cardinality(A \cap C) = 0
  BY <1>4, FS_EmptySet
<1> QED
  <2> HIDE DEF A, B, C
  <2> QED BY <1>2, <1>3, <1>8, <1>9, <1>10 DEF Count, u

(* The count of the empty sequence, of one more frame and of one less.      *)
LEMMA CountOf ==
    ASSUME NEW S
    PROVE  /\ Count(<<>>) = 0
           /\ \A e \in S : Count(<<e>>) = IF e.kind = "msg" THEN 0 ELSE 1
           /\ \A s \in Seq(S), e \in S :
                Count(Append(s, e)) = Count(s) + IF e.kind = "msg" THEN 0 ELSE 1
           /\ \A s \in Seq(S) : s # <<>> =>
                Count(s) = Count(Tail(s)) + IF Head(s).kind = "msg" THEN 0 ELSE 1
<1>1. Count(<<>>) = 0
  <2>1. NoMessages(<<>>) = {}
    BY DEF NoMessages
  <2> QED BY <2>1, FS_EmptySet DEF Count
<1>2. ASSUME NEW e \in S
      PROVE  Count(<<e>>) = IF e.kind = "msg" THEN 0 ELSE 1
  <2>1. NoMessages(<<e>>) = IF e.kind = "msg" THEN {} ELSE {1}
    BY DEF NoMessages
  <2> QED BY <2>1, FS_EmptySet, FS_Singleton DEF Count
<1>3. ASSUME NEW s \in Seq(S), NEW e \in S
      PROVE  Count(Append(s, e)) = Count(s) + IF e.kind = "msg" THEN 0 ELSE 1
  <2>1. <<e>> \in Seq(S)
    OBVIOUS
  <2>2. Append(s, e) = s \o <<e>>
    BY AppendIsConcat
  <2>3. Count(s \o <<e>>) = Count(s) + Count(<<e>>)
    BY <2>1, CountConcat
  <2> QED BY <1>2, <2>2, <2>3
<1>4. ASSUME NEW s \in Seq(S), s # <<>>
      PROVE  Count(s) = Count(Tail(s)) + IF Head(s).kind = "msg" THEN 0 ELSE 1
  <2>1. /\ Head(s) \in S /\ Tail(s) \in Seq(S) /\ s = <<Head(s)>> \o Tail(s)
        /\ <<Head(s)>> \in Seq(S)
    BY <1>4
  <2>2. Count(<<Head(s)>>) \in Nat /\ Count(Tail(s)) \in Nat
    BY <2>1, CountType
  <2>3. Count(s) = Count(<<Head(s)>>) + Count(Tail(s))
    BY <2>1, CountConcat
  <2>4. Count(<<Head(s)>>) = IF Head(s).kind = "msg" THEN 0 ELSE 1
    BY <1>2, <2>1
  <2> QED BY <2>2, <2>3, <2>4
<1> QED BY <1>1, <1>2, <1>3, <1>4

(* A bounded set of numbers has a maximum.                                  *)
LEMMA MaxOf ==
    ASSUME NEW B \in Nat, NEW S \in SUBSET (0 .. B), S # {}
    PROVE  Max(S) \in S /\ \A n \in S : n <= Max(S)
<1> DEFINE T == {n .. B : n \in S}
<1>1. T \subseteq FiniteSubsetsOf(Nat)
  BY FS_Interval DEF FiniteSubsetsOf
<1>2. PICK x \in T : \A y \in T : ~ (<<y, x>> \in StrictSubsetOrdering(Nat))
  <2>1. T # {}
    OBVIOUS
  <2> HIDE DEF T
  <2> QED BY <1>1, <2>1, WFMin, FS_StrictSubsetOrderingWellFounded
<1>3. PICK n \in S : x = n .. B
  OBVIOUS
<1>4. ASSUME NEW m \in S, m > n PROVE FALSE
  <2>1. m .. B \in T /\ m .. B \subseteq n .. B /\ n \in n .. B /\ n \notin m .. B
    BY <1>4
  <2>2. m .. B \in SUBSET Nat /\ n .. B \in SUBSET Nat
    OBVIOUS
  <2> QED BY <1>2, <1>3, <2>1, <2>2 DEF StrictSubsetOrdering
<1>5. n \in S /\ \A m \in S : n >= m
  BY <1>4
<1>6. Max(S) \in S /\ \A m \in S : Max(S) >= m
  <2> HIDE DEF T
  <2> QED BY <1>5 DEF Max
<1> QED BY <1>6

-----------------------------------------------------------------------------
(* The inductive invariants.                                                *)

Halves == {"own", "answer"}
Clocks == UNION {[X -> Nat] : X \in SUBSET Peers}
Requests == [kind : {"request"}, half : {"own"}, id : Nat]
ClockFrames == [kind : {"clock"}, half : Halves, id : Nat, clock : Clocks]
Messages ==
    [kind : {"msg"}, half : Halves, id : Nat, author : Peers, seq : Nat]
Frames == Requests \cup ClockFrames \cup Messages

Starts == [id : Nat \ {0}, clock : Clocks]
Sessions ==
    [recorded : Nat, asked : Nat, starting : SUBSET Starts, seen : SUBSET Nat,
     installed : BOOLEAN, buffer : Seq(Frames), replays : Nat,
     replaying : Seq(Frames)]

(* The handler is there, and frames are replayed, once a request has been   *)
(* recorded.                                                                *)
SessionOK(p) ==
    /\ IsFiniteSet(sess[p].starting)
    /\ sess[p].installed <=> sess[p].recorded # 0
    /\ sess[p].replays > 0 \/ sess[p].replaying # <<>> => sess[p].installed
    /\ \A start \in sess[p].starting : Other(p) \in DOMAIN start.clock

TypeInv ==
    /\ have \in [Peers -> [Peers -> Nat]]
    /\ held \in [Peers -> [Peers -> SUBSET Nat]]
    /\ up \in BOOLEAN /\ faults \in Nat
    /\ chan \in [Peers -> Seq(Frames)]
    /\ sess \in [Peers -> Sessions]
    /\ bilateral \in [Peers -> Nat]
    /\ \A p \in Peers : SessionOK(p)

-----------------------------------------------------------------------------
(* No peer has or is sent more of a feed than its author has published, and *)
(* no clock claims more than its sender has.                                *)
FeedsBounded ==
    \A p, x \in Peers :
        /\ have[p][x] <= have[x][x]
        /\ held[p][x] \cup OnTheWay(p, x) \subseteq 1 .. have[x][x]

ClocksBounded ==
    \A p \in Peers :
        /\ \A start \in sess[p].starting : \A x \in DOMAIN start.clock :
              start.clock[x] <= have[p][x]
        /\ \A f \in Coming(p) : f.kind = "clock" =>
              \A x \in DOMAIN f.clock : f.clock[x] <= have[Other(p)][x]

StoreInv == FeedsBounded /\ ClocksBounded

(* The clock that asks for the feed of x goes to and fro between the peers  *)
(* that will answer it: the other one, which has started, and x, which      *)
(* keeps the frames of the other's request until it has started too.        *)
Asks(f, x) == f.kind = "clock" /\ x \in DOMAIN f.clock

PollInv ==
    \A p \in Peers : sess[p].recorded # 0 =>
        \/ \E f \in Coming(p) : Asks(f, Other(p))
        \/ \E f \in Coming(Other(p)) :
              /\ Asks(f, Other(p))
              /\ f.half = "own" \/ sess[Other(p)].recorded # 0

(* A start still owes a clock. *)
StormInv ==
    Cardinality(Exchanges(alice)) + Cardinality(Exchanges(bob))
      + Cardinality(sess[alice].starting) + Cardinality(sess[bob].starting)
      <= 2 * (sess[alice].asked + sess[bob].asked)

-----------------------------------------------------------------------------
(* There are two peers.                                                     *)
LEMMA TwoPeers ==
    ASSUME NEW p \in Peers
    PROVE  /\ Other(p) \in Peers /\ Other(p) # p /\ Other(Other(p)) = p
           /\ \A q \in Peers : q = p \/ q = Other(p)
BY DEF Peers, Other

(* What a frame holds follows from its kind.                                *)
LEMMA FrameShapes ==
    ASSUME NEW f \in Frames
    PROVE  /\ f.kind \in {"request", "clock", "msg"}
           /\ f.half \in Halves /\ f.id \in Nat
           /\ f.kind = "request" => f \in Requests
           /\ f.kind = "clock" => f \in ClockFrames /\ f.clock \in Clocks
           /\ f.kind = "msg" =>
                f \in Messages /\ f.author \in Peers /\ f.seq \in Nat
<1>1. CASE f \in Requests
  BY <1>1 DEF Requests, Halves
<1>2. CASE f \in ClockFrames
  BY <1>2 DEF ClockFrames
<1>3. CASE f \in Messages
  BY <1>3 DEF Messages
<1> QED BY <1>1, <1>2, <1>3 DEF Frames

(* A clock maps some peers to numbers.                                      *)
LEMMA ClockShapes ==
    /\ \A c \in Clocks : DOMAIN c \subseteq Peers /\ \A x \in DOMAIN c : c[x] \in Nat
    /\ \A X \in SUBSET Peers : \A c \in [X -> Nat] : c \in Clocks
BY DEF Clocks

LEMMA FramesMade ==
    /\ \A i \in Nat : Request(i) \in Frames
    /\ \A half \in Halves, i \in Nat, c \in Clocks : Clock(half, i, c) \in Frames
<1>1. ASSUME NEW i \in Nat PROVE Request(i) \in Frames
  BY DEF Request, Frames, Requests
<1>2. ASSUME NEW half \in Halves, NEW i \in Nat, NEW c \in Clocks
      PROVE  Clock(half, i, c) \in Frames
  <2>1. Clock(half, i, c) \in ClockFrames
    BY DEF Clock, ClockFrames
  <2> QED BY <2>1 DEF Frames
<1> QED BY <1>1, <1>2

(* The clock that is sent first: it names the other peer, and claims what   *)
(* is stored.                                                               *)
LEMMA LocalClockIs ==
    ASSUME have \in [Peers -> [Peers -> Nat]], NEW p \in Peers
    PROVE  /\ LocalClock(p) \in Clocks
           /\ Other(p) \in DOMAIN LocalClock(p)
           /\ \A x \in DOMAIN LocalClock(p) : LocalClock(p)[x] = have[p][x]
<1> DEFINE X == {x \in Peers : have[p][x] > 0} \cup {Other(p)}
<1>1. X \in SUBSET Peers /\ Other(p) \in X
  BY TwoPeers
<1>2. LocalClock(p) = [x \in X |-> have[p][x]]
  BY DEF LocalClock
<1> HIDE DEF X
<1>3. LocalClock(p) \in [X -> Nat]
  BY <1>1, <1>2
<1> QED BY <1>1, <1>2, <1>3, ClockShapes

(* The messages between two sequence numbers.                               *)
Run(s, x, from, to) ==
    /\ s \in Seq(Frames) /\ Count(s) = 0
    /\ \A g \in Members(s) :
          g.kind = "msg" /\ g.author = x /\ g.seq \in from + 1 .. to
    /\ \A n \in from + 1 .. to : \E g \in Members(s) : g.seq = n

LEMMA MessagesAre ==
    ASSUME NEW x \in Peers, NEW from \in Nat, NEW to \in Nat,
           NEW on, on[1] \in Halves, on[2] \in Nat
    PROVE  Run(MessagesOf(x, from, to, on), x, from, to)
<1> DEFINE message(n) == [kind |-> "msg", half |-> on[1], id |-> on[2],
                          author |-> x, seq |-> n]
           s == MessagesOf(x, from, to, on)
           k == IF to > from THEN to - from ELSE 0
<1>1. k \in Nat /\ 1 .. to - from = 1 .. k
  OBVIOUS
<1>2. s = [i \in 1 .. k |-> message(from + i)]
  BY <1>1 DEF MessagesOf
<1>3. ASSUME NEW n \in Nat PROVE message(n) \in Frames
  <2>1. message(n) \in Messages
    BY DEF Messages
  <2> QED BY <2>1 DEF Frames
<1>4. \A i \in 1 .. k : from + i \in from + 1 .. to
  OBVIOUS
<1>5. \A n \in from + 1 .. to : n - from \in 1 .. k /\ from + (n - from) = n
  OBVIOUS
<1>6. /\ \A n : message(n).kind = "msg" /\ message(n).author = x /\ message(n).seq = n
  OBVIOUS
<1> HIDE DEF message, k, s
<1>7. s \in [1 .. k -> Frames]
  <2>1. \A i \in 1 .. k : from + i \in Nat
    BY <1>1
  <2> QED BY <1>2, <1>3, <2>1
<1>8. s \in Seq(Frames) /\ DOMAIN s = 1 .. k
  BY <1>1, <1>7, SeqDef
<1>9. Count(s) = 0
  <2>1. NoMessages(s) = {}
    BY <1>2, <1>6, <1>8 DEF NoMessages
  <2> QED BY <2>1, FS_EmptySet DEF Count
<1>10. \A g \in Members(s) :
          g.kind = "msg" /\ g.author = x /\ g.seq \in from + 1 .. to
  BY <1>2, <1>4, <1>6, <1>8 DEF Members
<1>11. \A n \in from + 1 .. to : \E g \in Members(s) : g.seq = n
  BY <1>2, <1>5, <1>6, <1>8 DEF Members
<1> QED BY <1>8, <1>9, <1>10, <1>11 DEF s, Run

(* What is released from quarantine reaches at least the message itself.    *)
LEMMA ReachesOf ==
    ASSUME NEW B \in Nat, NEW known \in SUBSET (0 .. B), NEW n \in 0 .. B
    PROVE  /\ Reaches(known, n) \in n .. B
           /\ \A m \in n + 1 .. Reaches(known, n) : m \in known
<1> DEFINE S == {n} \cup {m \in known : \A k \in n .. m : k = n \/ k \in known}
<1>1. S \in SUBSET (0 .. B) /\ n \in S /\ Reaches(known, n) = Max(S)
  BY DEF Reaches
<1>2. Max(S) \in S /\ n <= Max(S)
  <2> HIDE DEF S
  <2>1. S # {}
    BY <1>1
  <2> QED BY <1>1, <2>1, MaxOf
<1>3. Max(S) \in n .. B
  <2> HIDE DEF S
  <2>1. Max(S) \in 0 .. B
    BY <1>1, <1>2
  <2> QED BY <1>2, <2>1
<1>4. \A m \in n + 1 .. Max(S) : m \in known
  <2> SUFFICES ASSUME NEW m \in n + 1 .. Max(S) PROVE m \in known
    OBVIOUS
  <2>1. m # n /\ m \in n .. Max(S) /\ Max(S) # n
    BY <1>3
  <2>2. \A k \in n .. Max(S) : k = n \/ k \in known
    BY <1>2, <2>1
  <2> QED BY <2>1, <2>2
<1> QED BY <1>1, <1>3, <1>4

-----------------------------------------------------------------------------
(* What is under way to a peer, part by part.                               *)

Total(p) == Cardinality(Exchanges(p))

LEMMA Parts ==
    ASSUME NEW c \in Seq(Frames), NEW b \in Seq(Frames), NEW r \in Seq(Frames)
    PROVE  /\ Members(c \o b \o r) = Members(c) \cup Members(b) \cup Members(r)
           /\ Members(c \o b \o r) \subseteq Frames
           /\ Count(c \o b \o r) = Count(c) + Count(b) + Count(r)
           /\ Count(c) \in Nat /\ Count(b) \in Nat /\ Count(r) \in Nat
<1>1. c \o b \in Seq(Frames)
  OBVIOUS
<1>2. (c \o b) \o r \in Seq(Frames)
  BY <1>1
<1>3. /\ Members(c \o b) = Members(c) \cup Members(b)
      /\ Members((c \o b) \o r) = Members(c \o b) \cup Members(r)
      /\ Members((c \o b) \o r) \subseteq Frames
  <2>1. \A s, u \in Seq(Frames) : Members(s \o u) = Members(s) \cup Members(u)
    BY MembersOf
  <2>2. \A s \in Seq(Frames) : Members(s) \subseteq Frames
    BY MembersOf
  <2> QED BY <1>1, <1>2, <2>1, <2>2
<1>4. /\ Count(c \o b) = Count(c) + Count(b)
      /\ Count((c \o b) \o r) = Count(c \o b) + Count(r)
  BY <1>1, CountConcat
<1>5. Count(c) \in Nat /\ Count(b) \in Nat /\ Count(r) \in Nat
  BY CountType
<1> QED BY <1>3, <1>4, <1>5

LEMMA ComingIs ==
    ASSUME TypeInv, NEW p \in Peers
    PROVE  /\ chan[p] \in Seq(Frames) /\ sess[p] \in Sessions
           /\ sess[p].buffer \in Seq(Frames) /\ sess[p].replaying \in Seq(Frames)
           /\ Coming(p) = Members(chan[p]) \cup Members(sess[p].buffer)
                            \cup Members(sess[p].replaying)
           /\ Coming(p) \subseteq Frames
           /\ Total(p) = Count(chan[p]) + Count(sess[p].buffer)
                            + Count(sess[p].replaying)
           /\ Total(p) \in Nat
<1>1. /\ chan[p] \in Seq(Frames) /\ sess[p] \in Sessions
      /\ sess[p].buffer \in Seq(Frames) /\ sess[p].replaying \in Seq(Frames)
  BY DEF TypeInv, Sessions
<1>2. Coming(p) = Members(InFlight(p)) /\ Total(p) = Count(InFlight(p))
  BY DEF Coming, Members, Total, Exchanges, Count, NoMessages
<1> DEFINE c == chan[p]
           b == sess[p].buffer
           r == sess[p].replaying
<1>3. InFlight(p) = c \o b \o r /\ c \in Seq(Frames) /\ b \in Seq(Frames)
        /\ r \in Seq(Frames)
  BY <1>1 DEF InFlight
<1> HIDE DEF c, b, r
<1>4. /\ Members(c \o b \o r) = Members(c) \cup Members(b) \cup Members(r)
      /\ Members(c \o b \o r) \subseteq Frames
      /\ Count(c \o b \o r) = Count(c) + Count(b) + Count(r)
      /\ Count(c) \in Nat /\ Count(b) \in Nat /\ Count(r) \in Nat
  BY <1>3, Parts
<1>5. Count(c) + Count(b) + Count(r) \in Nat
  BY <1>4
<1> QED BY <1>1, <1>2, <1>3, <1>4, <1>5 DEF c, b, r

LEMMA ComingNext ==
    ASSUME chan' \in [Peers -> Seq(Frames)], sess' \in [Peers -> Sessions],
           NEW p \in Peers
    PROVE  /\ Coming(p)' = Members(chan'[p]) \cup Members(sess'[p].buffer)
                            \cup Members(sess'[p].replaying)
           /\ Total(p)' = Count(chan'[p]) + Count(sess'[p].buffer)
                            + Count(sess'[p].replaying)
<1>1. /\ chan'[p] \in Seq(Frames) /\ sess'[p] \in Sessions
      /\ sess'[p].buffer \in Seq(Frames) /\ sess'[p].replaying \in Seq(Frames)
  BY DEF Sessions
<1>2. Coming(p)' = Members(InFlight(p)') /\ Total(p)' = Count(InFlight(p)')
  BY DEF Coming, Members, Total, Exchanges, Count, NoMessages
<1> DEFINE c == chan'[p]
           b == sess'[p].buffer
           r == sess'[p].replaying
<1>3. InFlight(p)' = c \o b \o r /\ c \in Seq(Frames) /\ b \in Seq(Frames)
        /\ r \in Seq(Frames)
  BY <1>1 DEF InFlight
<1> HIDE DEF c, b, r
<1>4. /\ Members(c \o b \o r) = Members(c) \cup Members(b) \cup Members(r)
      /\ Members(c \o b \o r) \subseteq Frames
      /\ Count(c \o b \o r) = Count(c) + Count(b) + Count(r)
      /\ Count(c) \in Nat /\ Count(b) \in Nat /\ Count(r) \in Nat
  BY <1>3, Parts
<1>5. Count(c) + Count(b) + Count(r) \in Nat
  BY <1>4
<1> QED BY <1>1, <1>2, <1>3, <1>4, <1>5 DEF c, b, r

-----------------------------------------------------------------------------
(* Handling a frame.                                                        *)

(* The answer to f, sent when the rest of the session is as given: at most  *)
(* one clock for a request or a clock, always one when a clock is handled   *)
(* in a session of one's own; all of a feed after the number in the clock.  *)
Answers(p, f, rest, sent) ==
    /\ Count(sent) <= IF f.kind = "msg" THEN 0 ELSE 1
    /\ \A g \in Members(sent) : g.kind = "clock" =>
          \A x \in DOMAIN g.clock : g.clock[x] = have[p][x]
    /\ \A g \in Members(sent) : g.kind = "msg" =>
          /\ f.kind = "clock" /\ g.author \in DOMAIN f.clock
          /\ g.seq \in f.clock[g.author] + 1 .. have[p][g.author]
          /\ \A n \in f.clock[g.author] + 1 .. g.seq : \E h \in Members(sent) :
                h.kind = "msg" /\ h.author = g.author /\ h.seq = n
    /\ f.kind = "clock" /\ DOMAIN f.clock # {} /\ rest.recorded # 0 =>
          \E g \in Members(sent) :
             g.kind = "clock" /\ g.half = "own" /\ DOMAIN g.clock = DOMAIN f.clock

(* What f changes of the store: nothing unless it is a message, and of no   *)
(* other feed; nothing is lost.                                             *)
Stores(p, f) ==
    /\ have' \in [Peers -> [Peers -> Nat]]
    /\ held' \in [Peers -> [Peers -> SUBSET Nat]]
    /\ \A q, x \in Peers : f.kind # "msg" \/ q # p \/ x # f.author =>
          have'[q][x] = have[q][x] /\ held'[q][x] = held[q][x]
    /\ f.kind = "msg" =>
          /\ have'[p][f.author] \in have[p][f.author] .. have[f.author][f.author]
          /\ held'[p][f.author] \subseteq held[p][f.author] \cup {f.seq}
          /\ held[p][f.author] \cup {f.seq}
               \subseteq held'[p][f.author] \cup 1 .. have'[p][f.author]

Handled(p, f, rest, queues) ==
    /\ \E sent \in Seq(Frames) :
          /\ chan' = [queues EXCEPT ![Other(p)] = @ \o sent]
          /\ Answers(p, f, rest, sent)
    /\ sess' = [sess EXCEPT ![p] = rest] /\ UNCHANGED <<up, faults>>
    /\ bilateral' \in [Peers -> Nat] /\ Stores(p, f)

LEMMA RequestHandled ==
    ASSUME TypeInv, NEW p \in Peers, NEW f \in Frames, f.kind = "request",
           NEW rest \in Sessions, NEW queues \in [Peers -> Seq(Frames)],
           HandleRequest(p, f, rest, queues)
    PROVE  Handled(p, f, rest, queues)
<1> DEFINE g == Clock("answer", f.id, LocalClock(p))
           sent == <<g>>
<1>1. f.id \in Nat
  BY FrameShapes
<1>2. /\ LocalClock(p) \in Clocks
      /\ \A x \in DOMAIN LocalClock(p) : LocalClock(p)[x] = have[p][x]
  BY LocalClockIs DEF TypeInv
<1>3. g \in Frames
  BY <1>1, <1>2, FramesMade DEF Halves
<1>4. g.kind = "clock" /\ g.clock = LocalClock(p)
  BY DEF Clock
<1>5. chan' = [queues EXCEPT ![Other(p)] = Append(@, g)]
  BY DEF HandleRequest
<1> HIDE DEF g
<1>6. sent \in Seq(Frames) /\ Members(sent) = {g} /\ Count(sent) = 1
  <2>1. sent \in Seq(Frames) /\ Members(sent) = {g}
    BY <1>3 DEF Members
  <2> QED BY <2>1, <1>3, <1>4, CountOf
<1>7. chan' = [queues EXCEPT ![Other(p)] = @ \o sent]
  <2>1. Append(queues[Other(p)], g) = queues[Other(p)] \o <<g>>
    BY <1>3, TwoPeers, AppendIsConcat
  <2> QED BY <1>5, <2>1, TwoPeers
<1> HIDE DEF sent
<1>8. Answers(p, f, rest, sent)
  BY <1>2, <1>4, <1>6 DEF Answers
<1>9. Stores(p, f)
  BY DEF Stores, HandleRequest, TypeInv, store
<1> QED BY <1>1, <1>6, <1>7, <1>8, <1>9 DEF Handled, HandleRequest, TypeInv

(* Messages that answer the clock c: each with all before it that c does    *)
(* not cover.                                                               *)
Batch(s, p, c) ==
    /\ s \in Seq(Frames) /\ Count(s) = 0
    /\ \A g \in Members(s) :
          /\ g.kind = "msg" /\ g.author \in DOMAIN c
          /\ g.seq \in c[g.author] + 1 .. have[p][g.author]
          /\ \A n \in c[g.author] + 1 .. g.seq : \E h \in Members(s) :
                h.kind = "msg" /\ h.author = g.author /\ h.seq = n

LEMMA BatchOfNone ==
    ASSUME NEW p, NEW c
    PROVE  Batch(<<>>, p, c)
BY MembersOf, CountOf DEF Batch

LEMMA BatchOfTwo ==
    ASSUME NEW p, NEW c, NEW a, NEW b, Batch(a, p, c), Batch(b, p, c)
    PROVE  Batch(a \o b, p, c)
<1>1. a \in Seq(Frames) /\ b \in Seq(Frames)
  BY DEF Batch
<1>2. a \o b \in Seq(Frames)
  BY <1>1
<1>3. Members(a \o b) = Members(a) \cup Members(b)
  <2>1. \A s, u \in Seq(Frames) : Members(s \o u) = Members(s) \cup Members(u)
    BY MembersOf
  <2> QED BY <1>1, <2>1
<1>4. Count(a \o b) = 0
  <2>1. Count(a \o b) = Count(a) + Count(b)
    BY <1>1, CountConcat
  <2> QED BY <2>1 DEF Batch
<1> QED BY <1>2, <1>3, <1>4 DEF Batch

LEMMA LackingIs ==
    ASSUME TypeInv, NEW p \in Peers, NEW x \in Peers, NEW c \in Clocks,
           NEW on, on[1] \in Halves, on[2] \in Nat
    PROVE  Batch(Lacking(p, x, c, on), p, c)
<1>1. CASE x \in DOMAIN c
  <2> DEFINE from == c[x]
             to == have[p][x]
             s == MessagesOf(x, from, to, on)
  <2>1. from \in Nat /\ to \in Nat
    BY <1>1, ClockShapes DEF TypeInv
  <2>2. Lacking(p, x, c, on) = s
    BY <1>1 DEF Lacking
  <2> HIDE DEF from, to
  <2>3. Run(s, x, from, to)
    BY <2>1, MessagesAre
  <2> HIDE DEF s
  <2>4. ASSUME NEW g \in Members(s), NEW n \in from + 1 .. g.seq
        PROVE  \E h \in Members(s) : h.kind = "msg" /\ h.author = x /\ h.seq = n
    <3>1. n \in from + 1 .. to
      BY <2>1, <2>3 DEF Run
    <3> QED BY <2>3, <3>1 DEF Run
  <2>5. /\ s \in Seq(Frames) /\ Count(s) = 0
        /\ \A g \in Members(s) :
              g.kind = "msg" /\ g.author = x /\ g.seq \in from + 1 .. to
    BY <2>3 DEF Run
  <2>6. Batch(s, p, c)
    <3> SUFFICES ASSUME NEW g \in Members(s)
                 PROVE  /\ g.kind = "msg" /\ g.author \in DOMAIN c
                        /\ g.seq \in c[g.author] + 1 .. have[p][g.author]
                        /\ \A n \in c[g.author] + 1 .. g.seq :
                              \E h \in Members(s) :
                                 h.kind = "msg" /\ h.author = g.author /\ h.seq = n
      BY <2>5 DEF Batch
    <3>1. g.kind = "msg" /\ g.author = x /\ g.seq \in from + 1 .. to
      BY <2>5
    <3>2. \A n \in from + 1 .. g.seq :
             \E h \in Members(s) : h.kind = "msg" /\ h.author = x /\ h.seq = n
      BY <2>4
    <3> QED BY <1>1, <3>1, <3>2 DEF from, to
  <2> QED BY <2>2, <2>6
<1>2. CASE x \notin DOMAIN c
  BY <1>2, BatchOfNone DEF Lacking
<1> QED BY <1>1, <1>2

LEMMA ClockHandled ==
    ASSUME TypeInv, NEW p \in Peers, NEW f \in Frames, f.kind = "clock",
           NEW rest \in Sessions, NEW queues \in [Peers -> Seq(Frames)],
           HandleClock(p, f, rest, queues)
    PROVE  Handled(p, f, rest, queues)
<1> DEFINE c == f.clock
           sends == SendsOn(p, rest)
           replies == RepliesOn(p, rest)
           msgs(x) == IF sends[2] = 0 THEN <<>> ELSE Pending(p, x, c, sends)
           answer == Clock(replies[1], replies[2], [x \in DOMAIN c |-> have[p][x]])
           reply == IF replies[2] = 0 \/ ~AnswersClock(p, c) THEN <<>>
                    ELSE <<answer>>
<1>1. PICK first \in Peers :
         chan' = [queues EXCEPT ![Other(p)] = @ \o (msgs(first) \o reply)]
  BY DEF HandleClock
<1>2. /\ c \in Clocks /\ rest.recorded \in Nat /\ bilateral[p] \in Nat
      /\ \A x \in Peers : have[p][x] \in Nat
  <2>1. c \in Clocks
    BY FrameShapes
  <2>2. rest.recorded \in Nat
    BY DEF Sessions
  <2> QED BY <2>1, <2>2 DEF TypeInv
<1>3. /\ sends[1] \in Halves /\ sends[2] \in Nat
      /\ replies[1] \in Halves /\ replies[2] \in Nat
      /\ rest.recorded # 0 => replies[1] = "own" /\ replies[2] # 0
  BY <1>2 DEF SendsOn, RepliesOn, Halves
<1>4. [x \in DOMAIN c |-> have[p][x]] \in Clocks
  <2>1. DOMAIN c \in SUBSET Peers
    BY <1>2, ClockShapes
  <2>2. [x \in DOMAIN c |-> have[p][x]] \in [DOMAIN c -> Nat]
    BY <1>2, <2>1
  <2> QED BY <2>1, <2>2, ClockShapes
<1>5. answer \in Frames
  BY <1>3, <1>4, FramesMade
<1>6. /\ answer.kind = "clock" /\ answer.half = replies[1]
      /\ answer.clock = [x \in DOMAIN c |-> have[p][x]]
  BY DEF Clock
<1>7. /\ reply \in Seq(Frames) /\ Count(reply) \in {0, 1}
      /\ Members(reply) \subseteq {answer}
      /\ DOMAIN c # {} /\ rest.recorded # 0 => Members(reply) = {answer}
  <2> HIDE DEF answer, c, replies
  <2>1. /\ Members(<<>>) = {} /\ Count(<<>>) = 0 /\ <<>> \in Seq(Frames)
    BY MembersOf, CountOf
  <2>2. /\ Members(<<answer>>) = {answer} /\ Count(<<answer>>) = 1
        /\ <<answer>> \in Seq(Frames)
    <3>1. <<answer>> \in Seq(Frames) /\ Members(<<answer>>) = {answer}
      BY <1>5 DEF Members
    <3> QED BY <1>5, <1>6, <3>1, CountOf
  <2> QED BY <1>3, <2>1, <2>2 DEF AnswersClock
<1> DEFINE a == Lacking(p, first, c, sends)
           b == Lacking(p, Other(first), c, sends)
           batch == msgs(first)
           sent == batch \o reply
<1>8. Batch(batch, p, c)
  <2>1. CASE sends[2] = 0
    BY <2>1, BatchOfNone
  <2>2. CASE sends[2] # 0
    <3>1. batch = a \o b
      BY <2>2 DEF Pending
    <3>2. Other(first) \in Peers
      BY TwoPeers
    <3> HIDE DEF batch, c, sends
    <3>3. Batch(a, p, c)
      BY <1>2, <1>3, LackingIs
    <3>4. Batch(b, p, c)
      BY <1>2, <1>3, <3>2, LackingIs
    <3> QED BY <3>1, <3>3, <3>4, BatchOfTwo
  <2> QED BY <2>1, <2>2
<1> HIDE DEF batch, reply, answer, replies, sends
<1>9. /\ sent \in Seq(Frames) /\ Members(sent) = Members(batch) \cup Members(reply)
      /\ Count(sent) \in {0, 1}
  <2>1. batch \in Seq(Frames) /\ Count(batch) = 0
    BY <1>8 DEF Batch
  <2>2. \A s, u \in Seq(Frames) : Members(s \o u) = Members(s) \cup Members(u)
    BY MembersOf
  <2>3. Count(sent) = Count(batch) + Count(reply)
    BY <1>7, <2>1, CountConcat
  <2> QED BY <1>7, <2>1, <2>2, <2>3
<1>10. chan' = [queues EXCEPT ![Other(p)] = @ \o sent]
  BY <1>1 DEF batch, reply, answer, replies, sends
<1> HIDE DEF sent, c
<1>11. Answers(p, f, rest, sent)
  <2>1. Count(sent) <= 1
    BY <1>9
  <2>2. ASSUME NEW g \in Members(sent), g.kind = "clock"
        PROVE  g = answer
    BY <1>7, <1>8, <1>9, <2>2 DEF Batch
  <2>3. ASSUME NEW g \in Members(sent), g.kind = "msg"
        PROVE  g \in Members(batch)
    BY <1>6, <1>7, <1>9, <2>3
  <2>4. Members(batch) \subseteq Members(sent)
    BY <1>9
  <2>5. \A g \in Members(sent) : g.kind = "clock" =>
          \A x \in DOMAIN g.clock : g.clock[x] = have[p][x]
    BY <1>6, <2>2
  <2>6. \A g \in Members(sent) : g.kind = "msg" =>
          /\ f.kind = "clock" /\ g.author \in DOMAIN f.clock
          /\ g.seq \in f.clock[g.author] + 1 .. have[p][g.author]
          /\ \A n \in f.clock[g.author] + 1 .. g.seq : \E h \in Members(sent) :
                h.kind = "msg" /\ h.author = g.author /\ h.seq = n
    BY <1>8, <2>3, <2>4 DEF c, Batch
  <2>7. DOMAIN f.clock # {} /\ rest.recorded # 0 =>
          \E g \in Members(sent) :
             g.kind = "clock" /\ g.half = "own" /\ DOMAIN g.clock = DOMAIN f.clock
    BY <1>3, <1>6, <1>7, <1>9 DEF c
  <2> QED BY <2>1, <2>5, <2>6, <2>7 DEF Answers
<1>12. Stores(p, f)
  BY DEF Stores, HandleClock, TypeInv, store
<1> QED BY <1>9, <1>10, <1>11, <1>12 DEF Handled, HandleClock, TypeInv

LEMMA MessageHandled ==
    ASSUME TypeInv, StoreInv, NEW p \in Peers, NEW f \in Coming(p),
           f \in Frames, f.kind = "msg",
           NEW rest \in Sessions, NEW queues \in [Peers -> Seq(Frames)],
           HandleMessage(p, f, rest, queues)
    PROVE  Handled(p, f, rest, queues)
<1> DEFINE x == f.author
           n == f.seq
           B == have[x][x]
           known == held[p][x]
           r == Reaches(known, n)
<1>1. /\ x \in Peers /\ n \in OnTheWay(p, x)
      /\ have[p][x] \in Nat /\ B \in Nat /\ have[p][x] <= B
      /\ known \in SUBSET (1 .. B) /\ n \in 1 .. B
  <2>1. x \in Peers
    BY FrameShapes
  <2>2. n \in OnTheWay(p, x)
    BY DEF OnTheWay
  <2> QED BY <2>1, <2>2 DEF StoreInv, FeedsBounded, TypeInv
<1>2. /\ <<>> \in Seq(Frames) /\ Members(<<>>) = {} /\ Count(<<>>) = 0
  BY MembersOf, CountOf
<1>3. chan' = [queues EXCEPT ![Other(p)] = @ \o <<>>]
  <2>1. queues[Other(p)] \o <<>> = queues[Other(p)]
    BY TwoPeers, ConcatEmptySeq
  <2>2. queues = [queues EXCEPT ![Other(p)] = queues[Other(p)]]
    BY TwoPeers
  <2> QED BY <2>1, <2>2 DEF HandleMessage
<1>4. Answers(p, f, rest, <<>>)
  BY <1>2 DEF Answers
<1>5. have \in [Peers -> [Peers -> Nat]] /\ held \in [Peers -> [Peers -> SUBSET Nat]]
  BY DEF TypeInv
<1>6. Stores(p, f)
  <2>1. CASE n = have[p][x] + 1
    <3>1. /\ have' = [have EXCEPT ![p][x] = r]
          /\ held' = [held EXCEPT ![p][x] = @ \ (1 .. r)]
      BY <2>1 DEF HandleMessage
    <3> HIDE DEF r, n, known, B, x
    <3>2. known \in SUBSET (0 .. B) /\ n \in 0 .. B
      BY <1>1
    <3>3. r \in n .. B
      BY <1>1, <3>2, ReachesOf DEF r
    <3>4. /\ have' \in [Peers -> [Peers -> Nat]]
          /\ held' \in [Peers -> [Peers -> SUBSET Nat]]
          /\ have'[p][x] = r /\ held'[p][x] = known \ (1 .. r)
          /\ \A q, y \in Peers : q # p \/ y # x =>
                have'[q][y] = have[q][y] /\ held'[q][y] = held[q][y]
      <4>1. /\ x \in Peers /\ r \in Nat /\ known \ (1 .. r) \in SUBSET Nat
            /\ held' = [held EXCEPT ![p][x] = known \ (1 .. r)]
        BY <1>1, <3>1, <3>3 DEF known
      <4>2. /\ have'[p][x] = r /\ have' \in [Peers -> [Peers -> Nat]]
            /\ \A q, y \in Peers : q # p \/ y # x => have'[q][y] = have[q][y]
        BY <1>5, <3>1, <4>1
      <4>3. /\ held'[p][x] = known \ (1 .. r)
            /\ held' \in [Peers -> [Peers -> SUBSET Nat]]
            /\ \A q, y \in Peers : q # p \/ y # x => held'[q][y] = held[q][y]
        <5> DEFINE new == known \ (1 .. r)
        <5> HIDE DEF new
        <5>1. new \in SUBSET Nat /\ held' = [held EXCEPT ![p][x] = new]
          BY <4>1 DEF new
        <5>2. /\ held'[p][x] = new /\ held' \in [Peers -> [Peers -> SUBSET Nat]]
              /\ \A q, y \in Peers : q # p \/ y # x => held'[q][y] = held[q][y]
          BY <1>5, <4>1, <5>1
        <5> QED BY <5>2 DEF new
      <4> QED BY <4>2, <4>3
    <3>5. r \in have[p][x] .. have[x][x]
      BY <1>1, <2>1, <3>3 DEF B
    <3>6. n \in 1 .. r
      BY <1>1, <3>3
    <3> QED BY <3>4, <3>5, <3>6 DEF Stores, x, n, known
  <2>2. CASE n # have[p][x] + 1
    <3>1. /\ have' = have
          /\ held' = IF Quarantines(p, x, n)
                     THEN [held EXCEPT ![p][x] = @ \cup {n}] ELSE held
      BY <2>2 DEF HandleMessage
    <3> HIDE DEF r, n, known, B, x
    <3>2. ~Quarantines(p, x, n) => n \in 1 .. have[p][x]
      <4>1. n \in Nat /\ n >= 1 /\ have[p][x] \in Nat /\ n # have[p][x] + 1
        BY <1>1, <2>2 DEF x, n
      <4> HIDE DEF x
      <4>2. \A a, b \in Nat : a # b + 1 /\ ~(a > b + 1) => a <= b
        OBVIOUS
      <4>3. ~Quarantines(p, x, n) => n <= have[p][x]
        BY <4>1, <4>2 DEF Quarantines
      <4> QED BY <4>1, <4>3
    <3>3. /\ have' \in [Peers -> [Peers -> Nat]]
          /\ held' \in [Peers -> [Peers -> SUBSET Nat]]
          /\ have'[p][x] = have[p][x]
          /\ held'[p][x] = IF Quarantines(p, x, n) THEN known \cup {n} ELSE known
          /\ \A q, y \in Peers : q # p \/ y # x =>
                have'[q][y] = have[q][y] /\ held'[q][y] = held[q][y]
      <4>1. x \in Peers /\ known \cup {n} \in SUBSET Nat /\ held[p][x] = known
        BY <1>1 DEF known
      <4>2. held' = IF Quarantines(p, x, n)
                    THEN [held EXCEPT ![p][x] = known \cup {n}] ELSE held
        BY <3>1 DEF known
      <4> QED BY <1>5, <3>1, <4>1, <4>2
    <3>4. have[p][x] \in have[p][x] .. have[x][x]
      BY <1>1 DEF B
    <3> QED BY <3>2, <3>3, <3>4 DEF Stores, x, n, known
  <2> QED BY <2>1, <2>2
<1> QED BY <1>2, <1>3, <1>4, <1>6 DEF Handled, HandleMessage, TypeInv

LEMMA HandleIs ==
    ASSUME TypeInv, StoreInv, NEW p \in Peers, NEW f \in Coming(p), f \in Frames,
           NEW rest \in Sessions, NEW queues \in [Peers -> Seq(Frames)],
           Handle(p, f, rest, queues)
    PROVE  Handled(p, f, rest, queues)
<1>1. CASE f.kind = "request" /\ HandleRequest(p, f, rest, queues)
  BY <1>1, RequestHandled
<1>2. CASE f.kind = "clock" /\ HandleClock(p, f, rest, queues)
  BY <1>2, ClockHandled
<1>3. CASE f.kind = "msg" /\ HandleMessage(p, f, rest, queues)
  BY <1>3, MessageHandled
<1> QED BY <1>1, <1>2, <1>3 DEF Handle

-----------------------------------------------------------------------------
(* What the steps do to what is under way.                                  *)

Same(s, t) ==
    /\ s.recorded = t.recorded /\ s.asked = t.asked
    /\ s.starting = t.starting /\ s.installed = t.installed

(* Nothing, but frames move from one place to the next.                     *)
Moved ==
    /\ UNCHANGED store
    /\ \A p \in Peers :
          Coming(p)' = Coming(p) /\ Total(p)' = Total(p) /\ Same(sess'[p], sess[p])

(* The frame f is handled at q.                                             *)
Delivered(q, f, sent) ==
    /\ f \in Coming(q) /\ f \in Frames /\ sent \in Seq(Frames)
    /\ Coming(q) = Coming(q)' \cup {f}
    /\ Coming(Other(q))' = Coming(Other(q)) \cup Members(sent)
    /\ Total(q) = Total(q)' + IF f.kind = "msg" THEN 0 ELSE 1
    /\ Total(Other(q))' = Total(Other(q)) + Count(sent)
    /\ \A p \in Peers : Same(sess'[p], sess[p])
    /\ sess[q].recorded # 0 \/ f.half = "answer"
    /\ Answers(q, f, sess[q], sent) /\ Stores(q, f)

(* A thread of p sends g, and changes nothing at the other.                 *)
Sends(p, g) ==
    /\ UNCHANGED store
    /\ Coming(p)' = Coming(p) /\ Total(p)' = Total(p)
    /\ Coming(Other(p))' = Coming(Other(p)) \cup {g}
    /\ Total(Other(p))' = Total(Other(p)) + 1
    /\ sess'[Other(p)] = sess[Other(p)]

(* What remains at q and what is sent to the other, when f is handled.      *)
LEMMA DeliveredIf ==
    ASSUME TypeInv, NEW q \in Peers, NEW f \in Coming(q),
           NEW rest \in Sessions, NEW queues \in [Peers -> Seq(Frames)],
           Handled(q, f, rest, queues), queues[Other(q)] = chan[Other(q)],
           Same(rest, sess[q]),
           rest.replays > 0 \/ rest.replaying # <<>> => rest.installed,
           sess[q].recorded # 0 \/ f.half = "answer",
           Coming(q) = Members(queues[q]) \cup Members(rest.buffer)
                         \cup Members(rest.replaying) \cup {f},
           Total(q) = Count(queues[q]) + Count(rest.buffer)
                        + Count(rest.replaying) + IF f.kind = "msg" THEN 0 ELSE 1
    PROVE  TypeInv' /\ \E sent \in Seq(Frames) : Delivered(q, f, sent)
<1> DEFINE o == Other(q)
<1>1. o \in Peers /\ o # q /\ \A p \in Peers : p = q \/ p = o
  BY TwoPeers
<1> HIDE DEF o
<1>2. PICK sent \in Seq(Frames) :
         /\ chan' = [queues EXCEPT ![Other(q)] = @ \o sent]
         /\ Answers(q, f, rest, sent)
  BY DEF Handled
<1>3. /\ chan' \in [Peers -> Seq(Frames)] /\ chan'[q] = queues[q]
      /\ chan'[o] = chan[o] \o sent
  <2>1. queues[o] \o sent \in Seq(Frames) /\ queues[o] = chan[o]
    BY <1>1 DEF o
  <2> QED BY <1>1, <1>2, <2>1 DEF o
<1>4. /\ sess' \in [Peers -> Sessions] /\ sess'[q] = rest /\ sess'[o] = sess[o]
      /\ \A p \in Peers : Same(sess'[p], sess[p])
  BY <1>1 DEF Handled, TypeInv, Same
<1>5. TypeInv'
  <2>1. SessionOK(q)'
    <3>1. SessionOK(q)
      BY DEF TypeInv
    <3> QED BY <1>4, <3>1 DEF SessionOK, Same
  <2>2. SessionOK(o)'
    <3>1. SessionOK(o)
      BY <1>1 DEF TypeInv
    <3> QED BY <1>4, <3>1 DEF SessionOK
  <2>3. \A p \in Peers : SessionOK(p)'
    BY <1>1, <2>1, <2>2
  <2> QED BY <1>3, <1>4, <2>3 DEF TypeInv, Handled, Stores
<1>6. /\ Coming(q)' = Members(queues[q]) \cup Members(rest.buffer)
                         \cup Members(rest.replaying)
      /\ Total(q)' = Count(queues[q]) + Count(rest.buffer) + Count(rest.replaying)
  BY <1>3, <1>4, ComingNext
<1>7. Coming(o)' = Coming(o) \cup Members(sent) /\ Total(o)' = Total(o) + Count(sent)
  <2>1. /\ chan[o] \in Seq(Frames)
        /\ sess[o].buffer \in Seq(Frames) /\ sess[o].replaying \in Seq(Frames)
        /\ Coming(o) = Members(chan[o]) \cup Members(sess[o].buffer)
                         \cup Members(sess[o].replaying)
        /\ Total(o) = Count(chan[o]) + Count(sess[o].buffer)
                        + Count(sess[o].replaying)
    BY <1>1, ComingIs
  <2>2. /\ Coming(o)' = Members(chan[o] \o sent) \cup Members(sess[o].buffer)
                          \cup Members(sess[o].replaying)
        /\ Total(o)' = Count(chan[o] \o sent) + Count(sess[o].buffer)
                         + Count(sess[o].replaying)
    BY <1>1, <1>3, <1>4, ComingNext
  <2>3. Members(chan[o] \o sent) = Members(chan[o]) \cup Members(sent)
    <3>1. \A s, u \in Seq(Frames) : Members(s \o u) = Members(s) \cup Members(u)
      BY MembersOf
    <3> QED BY <2>1, <3>1
  <2>4. Count(chan[o] \o sent) = Count(chan[o]) + Count(sent)
    BY <2>1, CountConcat
  <2>5. /\ Count(chan[o]) \in Nat /\ Count(sent) \in Nat
        /\ Count(sess[o].buffer) \in Nat /\ Count(sess[o].replaying) \in Nat
    BY <2>1, CountType
  <2> QED BY <2>1, <2>2, <2>3, <2>4, <2>5
<1>8. Answers(q, f, sess[q], sent)
  BY <1>2 DEF Answers, Same
<1>9. f \in Frames
  BY ComingIs
<1>10. Delivered(q, f, sent)
  BY <1>4, <1>6, <1>7, <1>8, <1>9 DEF Delivered, o, Handled
<1> QED BY <1>5, <1>10

(* A step that only moves frames at q.                                      *)
LEMMA MovedIf ==
    ASSUME TypeInv, NEW q \in Peers, NEW next \in Sessions,
           chan' \in [Peers -> Seq(Frames)], chan'[Other(q)] = chan[Other(q)],
           sess' = [sess EXCEPT ![q] = next], Same(next, sess[q]),
           next.replays > 0 \/ next.replaying # <<>> => next.installed,
           UNCHANGED <<store, up, faults, bilateral>>,
           Coming(q) = Members(chan'[q]) \cup Members(next.buffer)
                         \cup Members(next.replaying),
           Total(q) = Count(chan'[q]) + Count(next.buffer) + Count(next.replaying)
    PROVE  TypeInv' /\ Moved
<1> DEFINE o == Other(q)
<1>1. o \in Peers /\ o # q /\ \A p \in Peers : p = q \/ p = o
  BY TwoPeers
<1> HIDE DEF o
<1>2. /\ sess' \in [Peers -> Sessions] /\ sess'[q] = next /\ sess'[o] = sess[o]
      /\ \A p \in Peers : Same(sess'[p], sess[p])
  BY <1>1 DEF TypeInv, Same
<1>3. TypeInv'
  <2>1. SessionOK(q)'
    <3>1. SessionOK(q)
      BY DEF TypeInv
    <3> QED BY <1>2, <3>1 DEF SessionOK, Same
  <2>2. SessionOK(o)'
    <3>1. SessionOK(o)
      BY <1>1 DEF TypeInv
    <3> QED BY <1>2, <3>1 DEF SessionOK
  <2>3. \A p \in Peers : SessionOK(p)'
    BY <1>1, <2>1, <2>2
  <2> QED BY <1>2, <2>3 DEF TypeInv, store
<1>4. Coming(q)' = Coming(q) /\ Total(q)' = Total(q)
  BY <1>2, ComingNext
<1>5. Coming(o)' = Coming(o) /\ Total(o)' = Total(o)
  <2>1. /\ Coming(o)' = Members(chan'[o]) \cup Members(sess'[o].buffer)
                          \cup Members(sess'[o].replaying)
        /\ Total(o)' = Count(chan'[o]) + Count(sess'[o].buffer)
                         + Count(sess'[o].replaying)
    BY <1>1, <1>2, ComingNext
  <2>2. chan'[o] = chan[o]
    BY DEF o
  <2> QED BY <1>1, <1>2, <2>1, <2>2, ComingIs
<1> QED BY <1>1, <1>2, <1>3, <1>4, <1>5 DEF Moved

(* The parts of a session are changed one at a time.                        *)
LEMMA SessionsMade ==
    ASSUME NEW s \in Sessions
    PROVE  /\ \A i \in Nat : [s EXCEPT !.seen = @ \cup {i}] \in Sessions
           /\ \A f \in Frames : [s EXCEPT !.buffer = Append(@, f)] \in Sessions
           /\ s.replaying # <<>> =>
                [s EXCEPT !.replaying = Tail(@)] \in Sessions
           /\ s.replays > 0 =>
                [s EXCEPT !.replays = @ - 1, !.replaying = s.buffer,
                          !.buffer = <<>>] \in Sessions
<1>1. ASSUME NEW i \in Nat PROVE [s EXCEPT !.seen = @ \cup {i}] \in Sessions
  BY DEF Sessions
<1>2. ASSUME NEW f \in Frames
      PROVE  [s EXCEPT !.buffer = Append(@, f)] \in Sessions
  <2>1. Append(s.buffer, f) \in Seq(Frames)
    BY AppendProperties DEF Sessions
  <2> QED BY <2>1 DEF Sessions
<1>3. ASSUME s.replaying # <<>>
      PROVE  [s EXCEPT !.replaying = Tail(@)] \in Sessions
  <2>1. Tail(s.replaying) \in Seq(Frames)
    BY <1>3, HeadTailProperties DEF Sessions
  <2> QED BY <2>1 DEF Sessions
<1>4. ASSUME s.replays > 0
      PROVE  [s EXCEPT !.replays = @ - 1, !.replaying = s.buffer,
                       !.buffer = <<>>] \in Sessions
  <2>1. s.replays - 1 \in Nat /\ <<>> \in Seq(Frames)
    BY <1>4 DEF Sessions
  <2> QED BY <2>1 DEF Sessions
<1> QED BY <1>1, <1>2, <1>3, <1>4

(* The first frame of a sequence, and the rest.                             *)
LEMMA FirstFrame ==
    ASSUME NEW s \in Seq(Frames), s # <<>>
    PROVE  /\ Head(s) \in Frames /\ Tail(s) \in Seq(Frames)
           /\ Members(s) = {Head(s)} \cup Members(Tail(s))
           /\ Count(s) = Count(Tail(s)) + IF Head(s).kind = "msg" THEN 0 ELSE 1
           /\ Count(s) \in Nat /\ Count(Tail(s)) \in Nat
<1>1. Head(s) \in Frames /\ Tail(s) \in Seq(Frames)
  BY HeadTailProperties
<1>2. Members(s) = {Head(s)} \cup Members(Tail(s))
  BY MembersOf
<1>3. Count(s) = Count(Tail(s)) + IF Head(s).kind = "msg" THEN 0 ELSE 1
  BY CountOf
<1> QED BY <1>1, <1>2, <1>3, CountType

LEMMA Received ==
    ASSUME TypeInv, StoreInv, NEW p \in Peers, Receive(p)
    PROVE  /\ TypeInv'
           /\ Moved \/ \E f \in Frames, sent \in Seq(Frames) : Delivered(p, f, sent)
<1> DEFINE f == Head(chan[p])
           queues == [chan EXCEPT ![p] = Tail(@)]
           s == IF f.kind = "request"
                THEN [sess[p] EXCEPT !.seen = @ \cup {f.id}] ELSE sess[p]
<1>1. /\ chan \in [Peers -> Seq(Frames)] /\ sess \in [Peers -> Sessions]
      /\ chan[p] \in Seq(Frames) /\ chan[p] # <<>> /\ sess[p] \in Sessions
      /\ sess[p].buffer \in Seq(Frames) /\ sess[p].replaying \in Seq(Frames)
  BY ComingIs DEF TypeInv, Receive
<1>2. /\ f \in Frames /\ Tail(chan[p]) \in Seq(Frames)
      /\ Members(chan[p]) = {f} \cup Members(Tail(chan[p]))
      /\ Count(chan[p]) = Count(Tail(chan[p])) + IF f.kind = "msg" THEN 0 ELSE 1
      /\ Count(chan[p]) \in Nat /\ Count(Tail(chan[p])) \in Nat
  BY <1>1, FirstFrame
<1>3. /\ queues \in [Peers -> Seq(Frames)] /\ queues[p] = Tail(chan[p])
      /\ queues[Other(p)] = chan[Other(p)]
  BY <1>1, <1>2, TwoPeers
<1>4. /\ s \in Sessions /\ Same(s, sess[p])
      /\ s.buffer = sess[p].buffer /\ s.replaying = sess[p].replaying
      /\ s.replays = sess[p].replays
  <2>1. f.id \in Nat
    BY <1>2, FrameShapes
  <2>2. s \in Sessions
    BY <1>1, <2>1, SessionsMade
  <2> QED BY <1>1, <2>2 DEF Same, Sessions
<1>5. /\ f \in Coming(p)
      /\ Coming(p) = Members(queues[p]) \cup Members(s.buffer)
                       \cup Members(s.replaying) \cup {f}
      /\ Total(p) = Count(queues[p]) + Count(s.buffer) + Count(s.replaying)
                      + IF f.kind = "msg" THEN 0 ELSE 1
      /\ Count(s.buffer) \in Nat /\ Count(s.replaying) \in Nat
  <2>1. Count(s.buffer) \in Nat /\ Count(s.replaying) \in Nat
    BY <1>1, <1>4, CountType
  <2>2. /\ Coming(p) = Members(chan[p]) \cup Members(sess[p].buffer)
                         \cup Members(sess[p].replaying)
        /\ Total(p) = Count(chan[p]) + Count(sess[p].buffer)
                        + Count(sess[p].replaying)
    BY ComingIs
  <2> HIDE DEF f, queues, s
  <2>3. Coming(p) = Members(queues[p]) \cup Members(s.buffer)
                      \cup Members(s.replaying) \cup {f}
    BY <1>2, <1>3, <1>4, <2>2
  <2>4. Total(p) = Count(queues[p]) + Count(s.buffer) + Count(s.replaying)
                     + IF f.kind = "msg" THEN 0 ELSE 1
    <3>1. Total(p) = Count(chan[p]) + Count(s.buffer) + Count(s.replaying)
      BY <1>4, <2>2
    <3>2. /\ Count(chan[p]) = Count(queues[p]) + IF f.kind = "msg" THEN 0 ELSE 1
          /\ Count(queues[p]) \in Nat
      BY <1>2, <1>3
    <3> QED BY <2>1, <3>1, <3>2
  <2> QED BY <2>1, <2>3, <2>4
<1>6. /\ SessionOK(p)
      /\ s.replays > 0 \/ s.replaying # <<>> => s.installed
      /\ s.installed <=> sess[p].recorded # 0
  <2>1. SessionOK(p)
    BY DEF TypeInv
  <2> QED BY <1>4, <2>1 DEF SessionOK, Same
<1>7. CASE Direct(p, f) \/ s.installed
  <2>1. Handle(p, f, s, queues)
    BY <1>7 DEF Receive
  <2>2. sess[p].recorded # 0 \/ f.half = "answer"
    BY <1>6, <1>7 DEF Direct
  <2> HIDE DEF f, queues, s
  <2>3. Handled(p, f, s, queues)
    BY <1>2, <1>3, <1>4, <1>5, <2>1, HandleIs
  <2>4. TypeInv' /\ \E sent \in Seq(Frames) : Delivered(p, f, sent)
    BY <1>3, <1>4, <1>5, <1>6, <2>2, <2>3, DeliveredIf
  <2> QED BY <1>2, <2>4
<1>8. CASE ~(Direct(p, f) \/ s.installed)
  <2> DEFINE next == [s EXCEPT !.buffer = Append(@, f)]
  <2>1. /\ sess' = [sess EXCEPT ![p] = next] /\ chan' = queues
        /\ UNCHANGED <<store, up, faults, bilateral>>
    BY <1>8 DEF Receive
  <2> HIDE DEF f, queues, s
  <2>2. next \in Sessions
    BY <1>2, <1>4, SessionsMade
  <2>3. /\ Same(next, sess[p]) /\ next.replays = s.replays
        /\ next.installed = s.installed
        /\ next.replaying = s.replaying /\ next.buffer = Append(s.buffer, f)
    BY <1>4 DEF Same, Sessions
  <2> HIDE DEF next
  <2>4. s.buffer \in Seq(Frames)
    BY <1>1, <1>4
  <2>5. Members(next.buffer) = Members(s.buffer) \cup {f}
    <3>1. \A u \in Seq(Frames), e \in Frames : Members(Append(u, e)) = Members(u) \cup {e}
      BY MembersOf
    <3> QED BY <1>2, <2>3, <2>4, <3>1
  <2>6. Count(next.buffer) = Count(s.buffer) + IF f.kind = "msg" THEN 0 ELSE 1
    <3>1. \A u \in Seq(Frames), e \in Frames :
             Count(Append(u, e)) = Count(u) + IF e.kind = "msg" THEN 0 ELSE 1
      BY CountOf
    <3> QED BY <1>2, <2>3, <2>4, <3>1
  <2>7. /\ Coming(p) = Members(chan'[p]) \cup Members(next.buffer)
                         \cup Members(next.replaying)
        /\ Total(p) = Count(chan'[p]) + Count(next.buffer) + Count(next.replaying)
    <3>1. Count(queues[p]) \in Nat
      BY <1>2, <1>3
    <3> QED BY <1>5, <2>1, <2>3, <2>5, <2>6, <3>1
  <2>8. TypeInv' /\ Moved
    BY <1>3, <1>6, <2>1, <2>2, <2>3, <2>7, MovedIf
  <2> QED BY <2>8
<1> QED BY <1>7, <1>8

LEMMA ReplayStarted ==
    ASSUME TypeInv, NEW p \in Peers, ReplayStarts(p)
    PROVE  TypeInv' /\ Moved
<1> DEFINE next == [sess[p] EXCEPT !.replays = @ - 1, !.replaying = sess[p].buffer,
                                   !.buffer = <<>>]
<1>1. /\ sess[p] \in Sessions /\ sess[p].replays > 0 /\ sess[p].replaying = <<>>
      /\ UNCHANGED <<store, up, faults, chan, bilateral>>
      /\ sess \in [Peers -> Sessions]
  BY DEF ReplayStarts, TypeInv
<1>2. sess' = [sess EXCEPT ![p] = next]
  BY <1>1 DEF ReplayStarts
<1>3. next \in Sessions
  BY <1>1, SessionsMade
<1>4. /\ Same(next, sess[p]) /\ next.installed = sess[p].installed
      /\ next.replaying = sess[p].buffer /\ next.buffer = <<>>
  BY <1>1 DEF Same, Sessions
<1> HIDE DEF next
<1>5. SessionOK(p)
  BY DEF TypeInv
<1>6. Members(<<>>) = {} /\ Count(<<>>) = 0
  BY MembersOf, CountOf
<1>7. /\ Coming(p) = Members(chan[p]) \cup Members(sess[p].buffer)
                       \cup Members(sess[p].replaying)
      /\ Total(p) = Count(chan[p]) + Count(sess[p].buffer) + Count(sess[p].replaying)
      /\ Count(chan[p]) \in Nat /\ Count(sess[p].buffer) \in Nat
  <2>1. chan[p] \in Seq(Frames) /\ sess[p].buffer \in Seq(Frames)
    BY ComingIs
  <2> QED BY <2>1, ComingIs, CountType
<1>8. /\ Coming(p) = Members(chan'[p]) \cup Members(next.buffer)
                       \cup Members(next.replaying)
      /\ Total(p) = Count(chan'[p]) + Count(next.buffer) + Count(next.replaying)
  BY <1>1, <1>4, <1>6, <1>7
<1>9. chan' \in [Peers -> Seq(Frames)] /\ chan'[Other(p)] = chan[Other(p)]
  BY <1>1 DEF TypeInv
<1>10. next.installed
  BY <1>1, <1>4, <1>5 DEF SessionOK
<1> QED BY <1>1, <1>2, <1>3, <1>4, <1>8, <1>9, <1>10, MovedIf

LEMMA Replayed ==
    ASSUME TypeInv, StoreInv, NEW p \in Peers, ReplayNext(p)
    PROVE  /\ TypeInv'
           /\ \E f \in Frames, sent \in Seq(Frames) : Delivered(p, f, sent)
<1> DEFINE f == Head(sess[p].replaying)
           s == [sess[p] EXCEPT !.replaying = Tail(@)]
<1>1. /\ chan[p] \in Seq(Frames) /\ sess[p] \in Sessions
      /\ sess[p].buffer \in Seq(Frames) /\ sess[p].replaying \in Seq(Frames)
      /\ sess[p].replaying # <<>> /\ Handle(p, f, s, chan)
      /\ chan \in [Peers -> Seq(Frames)]
  BY ComingIs DEF TypeInv, ReplayNext
<1>2. /\ f \in Frames /\ Tail(sess[p].replaying) \in Seq(Frames)
      /\ Members(sess[p].replaying) = {f} \cup Members(Tail(sess[p].replaying))
      /\ Count(sess[p].replaying)
           = Count(Tail(sess[p].replaying)) + IF f.kind = "msg" THEN 0 ELSE 1
      /\ Count(Tail(sess[p].replaying)) \in Nat
  BY <1>1, FirstFrame
<1>3. s \in Sessions
  BY <1>1, SessionsMade
<1>4. /\ Same(s, sess[p]) /\ s.installed = sess[p].installed
      /\ s.buffer = sess[p].buffer /\ s.replaying = Tail(sess[p].replaying)
  BY <1>1 DEF Same, Sessions
<1>5. sess[p].recorded # 0 /\ s.installed
  <2>1. SessionOK(p)
    BY DEF TypeInv
  <2> QED BY <1>1, <1>4, <2>1 DEF SessionOK
<1> HIDE DEF f, s
<1>6. /\ f \in Coming(p)
      /\ Coming(p) = Members(chan[p]) \cup Members(s.buffer)
                       \cup Members(s.replaying) \cup {f}
      /\ Total(p) = Count(chan[p]) + Count(s.buffer) + Count(s.replaying)
                      + IF f.kind = "msg" THEN 0 ELSE 1
  <2>1. Count(chan[p]) \in Nat /\ Count(s.buffer) \in Nat
    BY <1>1, <1>4, CountType
  <2>2. /\ Coming(p) = Members(chan[p]) \cup Members(sess[p].buffer)
                         \cup Members(sess[p].replaying)
        /\ Total(p) = Count(chan[p]) + Count(sess[p].buffer)
                        + Count(sess[p].replaying)
    BY ComingIs
  <2> QED BY <1>2, <1>4, <2>1, <2>2
<1>7. Handled(p, f, s, chan)
  BY <1>1, <1>2, <1>3, <1>6, HandleIs
<1>8. TypeInv' /\ \E sent \in Seq(Frames) : Delivered(p, f, sent)
  BY <1>1, <1>3, <1>4, <1>5, <1>6, <1>7, DeliveredIf
<1> QED BY <1>2, <1>8

(* One more frame, which is no message.                                     *)
LEMMA OneMore ==
    ASSUME NEW s \in Seq(Frames), NEW g \in Frames, g.kind # "msg"
    PROVE  /\ s \o <<g>> \in Seq(Frames)
           /\ Members(s \o <<g>>) = Members(s) \cup {g}
           /\ Count(s \o <<g>>) = Count(s) + 1
<1>1. s \o <<g>> = Append(s, g)
  BY AppendIsConcat
<1>2. Members(Append(s, g)) = Members(s) \cup {g}
  BY MembersOf
<1>3. Count(Append(s, g)) = Count(s) + 1
  BY CountOf
<1>4. Append(s, g) \in Seq(Frames)
  BY AppendProperties
<1> QED BY <1>1, <1>2, <1>3, <1>4

(* A step that sends a request or a clock from p.                           *)
LEMMA SendsIf ==
    ASSUME TypeInv, NEW p \in Peers, NEW g \in Frames, g.kind # "msg",
           NEW next \in Sessions, sess' = [sess EXCEPT ![p] = next],
           next.buffer = sess[p].buffer, next.replaying = sess[p].replaying,
           SendAll(p, <<g>>), UNCHANGED <<store>>
    PROVE  /\ chan' \in [Peers -> Seq(Frames)]
           /\ sess' \in [Peers -> Sessions] /\ sess'[p] = next
           /\ Sends(p, g)
<1> DEFINE o == Other(p)
<1>1. o \in Peers /\ o # p /\ \A q \in Peers : q = p \/ q = o
  BY TwoPeers
<1> HIDE DEF o
<1>2. /\ chan[o] \in Seq(Frames) /\ sess[o].buffer \in Seq(Frames)
      /\ sess[o].replaying \in Seq(Frames)
      /\ chan \in [Peers -> Seq(Frames)] /\ sess \in [Peers -> Sessions]
  BY <1>1, ComingIs DEF TypeInv
<1> DEFINE longer == chan[o] \o <<g>>
<1>3. /\ longer \in Seq(Frames) /\ Members(longer) = Members(chan[o]) \cup {g}
      /\ Count(longer) = Count(chan[o]) + 1
  BY <1>2, OneMore
<1>4. chan' = [chan EXCEPT ![o] = longer]
  BY DEF SendAll, o
<1> HIDE DEF longer
<1>5. /\ chan' \in [Peers -> Seq(Frames)] /\ chan'[p] = chan[p]
      /\ chan'[o] = longer
  BY <1>1, <1>2, <1>3, <1>4
<1>6. sess' \in [Peers -> Sessions] /\ sess'[p] = next /\ sess'[o] = sess[o]
  BY <1>1, <1>2
<1>7. Coming(p)' = Coming(p) /\ Total(p)' = Total(p)
  BY <1>5, <1>6, ComingIs, ComingNext
<1>8. Coming(o)' = Coming(o) \cup {g} /\ Total(o)' = Total(o) + 1
  <2>1. /\ Coming(o) = Members(chan[o]) \cup Members(sess[o].buffer)
                         \cup Members(sess[o].replaying)
        /\ Total(o) = Count(chan[o]) + Count(sess[o].buffer)
                        + Count(sess[o].replaying)
    BY <1>1, ComingIs
  <2>2. /\ Coming(o)' = Members(longer) \cup Members(sess[o].buffer)
                          \cup Members(sess[o].replaying)
        /\ Total(o)' = Count(longer) + Count(sess[o].buffer)
                         + Count(sess[o].replaying)
    BY <1>1, <1>5, <1>6, ComingNext
  <2>3. /\ Count(chan[o]) \in Nat
        /\ Count(sess[o].buffer) \in Nat /\ Count(sess[o].replaying) \in Nat
    BY <1>2, CountType
  <2> QED BY <1>3, <2>1, <2>2, <2>3
<1> QED BY <1>5, <1>6, <1>7, <1>8 DEF Sends, o

(* The effects of the two halves of a start, and of a publication.          *)
AskedBy(p) ==
    /\ \E i \in Nat : Sends(p, Request(i))
    /\ sess'[p].recorded = sess[p].recorded
    /\ sess'[p].asked = sess[p].asked + 1
    /\ \E i : sess'[p].starting
                 = sess[p].starting \cup {[id |-> i, clock |-> LocalClock(p)]}

StartedBy(p, start) ==
    /\ start \in Starts /\ Other(p) \in DOMAIN start.clock
    /\ Sends(p, Clock("own", start.id, start.clock))
    /\ sess'[p].recorded = start.id
    /\ sess'[p].asked = sess[p].asked
    /\ sess'[p].starting = sess[p].starting \ {start}

PublishedBy(p) ==
    /\ UNCHANGED <<held, chan, sess>>
    /\ have'[p][p] = have[p][p] + 1
    /\ \A q, x \in Peers : q # p \/ x # p => have'[q][x] = have[q][x]

LEMMA Requested ==
    ASSUME TypeInv, NEW p \in Peers, StartRequests(p)
    PROVE  TypeInv' /\ AskedBy(p)
<1> DEFINE i == sess[p].asked + 1
           start == [id |-> i, clock |-> LocalClock(p)]
           next == [sess[p] EXCEPT !.asked = i, !.starting = @ \cup {start}]
<1>1. /\ sess \in [Peers -> Sessions] /\ sess[p] \in Sessions
      /\ sess[p].asked \in Nat /\ i \in Nat \ {0} /\ faults \in Nat
  <2>1. sess[p].asked \in Nat
    BY DEF TypeInv, Sessions
  <2> QED BY <2>1 DEF TypeInv
<1>2. /\ sess' = [sess EXCEPT ![p] = next]
      /\ SendAll(p, <<Request(i)>>) /\ UNCHANGED <<store, up, bilateral>>
      /\ faults' \in Nat
  <2>1. sess' = [sess EXCEPT ![p].asked = i, ![p].starting = @ \cup {start}]
    BY DEF StartRequests
  <2>2. sess' = [sess EXCEPT ![p] = next]
    BY <1>1, <2>1
  <2>3. faults' = faults \/ faults' = faults + 1
    BY DEF StartRequests
  <2>4. SendAll(p, <<Request(i)>>)
    BY DEF StartRequests
  <2>5. UNCHANGED <<store, up, bilateral>>
    BY DEF StartRequests
  <2> QED BY <1>1, <2>2, <2>3, <2>4, <2>5
<1>3. start \in Starts /\ Other(p) \in DOMAIN start.clock
  <2>1. LocalClock(p) \in Clocks /\ Other(p) \in DOMAIN LocalClock(p)
    BY LocalClockIs DEF TypeInv
  <2> QED BY <1>1, <2>1 DEF Starts
<1>4. /\ next \in Sessions /\ next.recorded = sess[p].recorded /\ next.asked = i
      /\ next.starting = sess[p].starting \cup {start}
      /\ next.installed = sess[p].installed /\ next.replays = sess[p].replays
      /\ next.buffer = sess[p].buffer /\ next.replaying = sess[p].replaying
  <2> HIDE DEF i, start
  <2> QED BY <1>1, <1>3 DEF Sessions
<1>5. Request(i) \in Frames /\ Request(i).kind # "msg"
  BY <1>1, FramesMade DEF Request
<1> HIDE DEF next, i
<1>6. /\ chan' \in [Peers -> Seq(Frames)]
      /\ sess' \in [Peers -> Sessions] /\ sess'[p] = next
      /\ Sends(p, Request(i))
  BY <1>2, <1>4, <1>5, SendsIf DEF store
<1>7. TypeInv'
  <2>1. SessionOK(p) /\ SessionOK(Other(p))
    BY TwoPeers DEF TypeInv
  <2>2. SessionOK(p)'
    <3>1. IsFiniteSet(next.starting)
      <4>1. IsFiniteSet(sess[p].starting)
        BY <2>1 DEF SessionOK
      <4> HIDE DEF start
      <4>2. IsFiniteSet(sess[p].starting \cup {start})
        BY <4>1, FS_AddElement
      <4> QED BY <1>4, <4>2
    <3> QED BY <1>3, <1>4, <1>6, <2>1, <3>1 DEF SessionOK
  <2>3. SessionOK(Other(p))'
    BY <1>6, <2>1 DEF SessionOK, Sends
  <2>4. \A q \in Peers : SessionOK(q)'
    BY <2>2, <2>3, TwoPeers
  <2> QED BY <1>2, <1>6, <2>4 DEF TypeInv, store
<1>8. i \in Nat /\ i = sess[p].asked + 1
  BY <1>1 DEF i
<1>9. \E k \in Nat : Sends(p, Request(k))
  BY <1>6, <1>8
<1> QED BY <1>4, <1>6, <1>7, <1>8, <1>9 DEF start, AskedBy

LEMMA Installed ==
    ASSUME TypeInv, NEW p \in Peers, StartInstalls(p)
    PROVE  TypeInv' /\ \E start \in sess[p].starting : StartedBy(p, start)
<1>1. PICK start \in sess[p].starting :
         /\ sess' = [sess EXCEPT ![p].recorded = start.id,
                ![p].installed = TRUE, ![p].replays = @ + 1,
                ![p].starting = @ \ {start}]
         /\ SendAll(p, <<Clock("own", start.id, start.clock)>>)
  BY DEF StartInstalls
<1> DEFINE g == Clock("own", start.id, start.clock)
           s == sess[p]
           next == [s EXCEPT !.recorded = start.id, !.installed = TRUE,
                       !.replays = @ + 1, !.starting = @ \ {start}]
<1>2. UNCHANGED <<store, up, faults, bilateral>>
  BY DEF StartInstalls
<1>3. /\ sess \in [Peers -> Sessions] /\ sess[p] \in Sessions
      /\ sess[p].starting \in SUBSET Starts /\ sess[p].replays \in Nat
      /\ SessionOK(p) /\ SessionOK(Other(p))
  BY TwoPeers DEF TypeInv, Sessions
<1>4. /\ start \in Starts /\ start.id \in Nat \ {0} /\ start.clock \in Clocks
      /\ Other(p) \in DOMAIN start.clock
  BY <1>3 DEF Starts, SessionOK
<1>5. /\ next \in Sessions /\ next.recorded = start.id /\ next.installed
      /\ next.asked = sess[p].asked /\ next.starting = sess[p].starting \ {start}
      /\ next.buffer = sess[p].buffer /\ next.replaying = sess[p].replaying
  <2>1. /\ s \in Sessions /\ start.id \in Nat /\ s.replays + 1 \in Nat
        /\ s.starting \ {start} \in SUBSET Starts
    BY <1>3, <1>4
  <2> HIDE DEF s
  <2>2. next \in Sessions
    BY <2>1 DEF Sessions
  <2>3. /\ next.recorded = start.id /\ next.installed
        /\ next.asked = s.asked /\ next.starting = s.starting \ {start}
        /\ next.buffer = s.buffer /\ next.replaying = s.replaying
    BY <2>1 DEF Sessions
  <2> QED BY <2>2, <2>3 DEF s
<1>6. sess' = [sess EXCEPT ![p] = next]
  BY <1>1, <1>3
<1>7. g \in Frames /\ g.kind # "msg"
  BY <1>4, FramesMade DEF Halves, Clock
<1> HIDE DEF next
<1>8. /\ chan' \in [Peers -> Seq(Frames)]
      /\ sess' \in [Peers -> Sessions] /\ sess'[p] = next
      /\ Sends(p, g)
  <2>1. SendAll(p, <<g>>) /\ UNCHANGED <<store>>
    BY <1>1, <1>2
  <2> HIDE DEF g
  <2> QED BY <1>5, <1>6, <1>7, <2>1, SendsIf
<1>9. TypeInv'
  <2>1. SessionOK(p)'
    <3>1. IsFiniteSet(next.starting)
      <4>1. IsFiniteSet(sess[p].starting)
        BY <1>3 DEF SessionOK
      <4> QED BY <1>5, <4>1, FS_RemoveElement
    <3> QED BY <1>3, <1>4, <1>5, <1>8, <3>1 DEF SessionOK
  <2>2. SessionOK(Other(p))'
    BY <1>3, <1>8 DEF SessionOK, Sends
  <2>3. \A q \in Peers : SessionOK(q)'
    BY <2>1, <2>2, TwoPeers
  <2> QED BY <1>2, <1>8, <2>3 DEF TypeInv, store
<1> QED BY <1>4, <1>5, <1>8, <1>9 DEF StartedBy

(* Nothing is under way, and no session has begun.                          *)
Fresh ==
    \A p \in Peers :
        /\ Coming(p) = {} /\ Total(p) = 0
        /\ sess[p].recorded = 0 /\ sess[p].asked = 0 /\ sess[p].starting = {}

Cleared == chan = [p \in Peers |-> <<>>] /\ sess = [p \in Peers |-> NewSession]

SessionsOK ==
    /\ chan \in [Peers -> Seq(Frames)] /\ sess \in [Peers -> Sessions]
    /\ \A p \in Peers : SessionOK(p)

LEMMA FreshSessions == Cleared => SessionsOK /\ Fresh
<1> SUFFICES ASSUME chan = [p \in Peers |-> <<>>],
                    sess = [p \in Peers |-> NewSession]
             PROVE  SessionsOK /\ Fresh
  BY DEF Cleared
<1>1. <<>> \in Seq(Frames) /\ <<>> \o <<>> = <<>>
  BY ConcatEmptySeq
<1>2. NewSession \in Sessions
  BY <1>1 DEF NewSession, Sessions
<1>3. chan \in [Peers -> Seq(Frames)] /\ sess \in [Peers -> Sessions]
  BY <1>1, <1>2
<1>4. ASSUME NEW p \in Peers PROVE SessionOK(p)
  <2>1. /\ sess[p].starting = {} /\ ~sess[p].installed /\ sess[p].recorded = 0
        /\ sess[p].replays = 0 /\ sess[p].replaying = <<>>
    BY DEF NewSession
  <2>2. IsFiniteSet({})
    BY FS_EmptySet
  <2>3. /\ IsFiniteSet(sess[p].starting)
        /\ \A start \in sess[p].starting : Other(p) \in DOMAIN start.clock
    BY <2>1, <2>2
  <2>4. sess[p].installed <=> sess[p].recorded # 0
    BY <2>1
  <2>5. ~(sess[p].replays > 0 \/ sess[p].replaying # <<>>)
    BY <2>1
  <2> QED BY <2>3, <2>4, <2>5 DEF SessionOK
<1>5. ASSUME NEW p \in Peers
      PROVE  /\ Coming(p) = {} /\ Total(p) = 0
             /\ sess[p].recorded = 0 /\ sess[p].asked = 0 /\ sess[p].starting = {}
  <2>1. InFlight(p) = <<>>
    BY <1>1 DEF InFlight, NewSession
  <2>2. Coming(p) = {} /\ Exchanges(p) = {}
    BY <2>1 DEF Coming, Exchanges
  <2>3. /\ sess[p].recorded = 0 /\ sess[p].asked = 0 /\ sess[p].starting = {}
    BY DEF NewSession
  <2> QED BY <2>2, <2>3, FS_EmptySet DEF Total
<1> QED BY <1>3, <1>4, <1>5 DEF Fresh, SessionsOK

LEMMA WentDown ==
    ASSUME TypeInv, TunnelDown
    PROVE  TypeInv' /\ Fresh' /\ UNCHANGED store
<1>1. /\ chan' = [p \in Peers |-> <<>>] /\ sess' = [p \in Peers |-> NewSession]
      /\ up' \in BOOLEAN /\ faults' \in Nat /\ UNCHANGED <<store, bilateral>>
  <2>1. faults \in Nat /\ up' = FALSE /\ faults' = faults + 1
    BY DEF TypeInv, TunnelDown
  <2>2. faults' \in Nat
    BY <2>1
  <2>3. up' \in BOOLEAN
    BY <2>1
  <2> QED BY <2>2, <2>3 DEF TunnelDown
<1>2. Cleared'
  BY <1>1 DEF Cleared
<1>3. SessionsOK' /\ Fresh'
  BY <1>2, FreshSessions, PTL
<1> QED BY <1>1, <1>3 DEF TypeInv, SessionsOK, store

(* What leaves frames and sessions alone.                                   *)
LEMMA Untouched ==
    ASSUME UNCHANGED <<chan, sess>>
    PROVE  /\ \A p \in Peers :
                 Coming(p)' = Coming(p) /\ Total(p)' = Total(p)
           /\ \A p \in Peers : Same(sess'[p], sess[p])
           /\ (\A p \in Peers : SessionOK(p)) => \A p \in Peers : SessionOK(p)'
BY DEF Coming, Total, Exchanges, InFlight, Same, SessionOK

LEMMA Published ==
    ASSUME TypeInv, NEW p \in Peers, Publish(p)
    PROVE  TypeInv' /\ PublishedBy(p)
<1>1. /\ have' = [have EXCEPT ![p][p] = @ + 1]
      /\ UNCHANGED <<held, up, faults, chan, sess, bilateral>>
  BY DEF Publish
<1>2. have \in [Peers -> [Peers -> Nat]]
  BY DEF TypeInv
<1>3. /\ have' \in [Peers -> [Peers -> Nat]]
      /\ have'[p][p] = have[p][p] + 1
      /\ \A q, x \in Peers : q # p \/ x # p => have'[q][x] = have[q][x]
  BY <1>1, <1>2
<1>4. TypeInv'
  BY <1>1, <1>3, Untouched DEF TypeInv
<1> QED BY <1>1, <1>3, <1>4 DEF PublishedBy

(* Every step is one of these.                                              *)
Effect ==
    \/ Moved
    \/ Fresh' /\ UNCHANGED store
    \/ \E p \in Peers :
          \/ AskedBy(p) \/ PublishedBy(p)
          \/ \E start \in sess[p].starting : StartedBy(p, start)
          \/ \E f \in Frames, sent \in Seq(Frames) : Delivered(p, f, sent)

LEMMA StepIs ==
    ASSUME TypeInv, StoreInv, [Next]_vars
    PROVE  TypeInv' /\ Effect
<1>1. ASSUME UNCHANGED <<have, held, chan, sess, bilateral>>, up' \in BOOLEAN,
             faults' \in Nat
      PROVE  TypeInv' /\ Effect
  <2>1. Moved
    BY <1>1, Untouched DEF Moved, store
  <2>2. TypeInv'
    BY <1>1, Untouched DEF TypeInv
  <2> QED BY <2>1, <2>2 DEF Effect
<1>2. CASE UNCHANGED vars
  <2>1. up' \in BOOLEAN /\ faults' \in Nat
    BY <1>2 DEF vars, TypeInv
  <2> QED BY <1>1, <1>2, <2>1 DEF vars, store
<1>3. CASE TunnelUp
  <2>1. up' \in BOOLEAN
    BY <1>3 DEF TunnelUp
  <2>2. faults' \in Nat
    BY <1>3 DEF TunnelUp, TypeInv
  <2> QED BY <1>1, <1>3, <2>1, <2>2 DEF TunnelUp, store
<1>4. CASE TunnelDown
  BY <1>4, WentDown DEF Effect
<1>5. ASSUME NEW p \in Peers, Publish(p) \/ Start(p) \/ TunnelQueue(p)
      PROVE  TypeInv' /\ Effect
  <2>1. CASE Publish(p)
    BY <2>1, Published DEF Effect
  <2>2. CASE StartRequests(p)
    BY <2>2, Requested DEF Effect
  <2>3. CASE StartInstalls(p)
    BY <2>3, Installed DEF Effect
  <2>4. CASE Receive(p)
    BY <2>4, Received DEF Effect
  <2>5. CASE ReplayStarts(p)
    BY <2>5, ReplayStarted DEF Effect
  <2>6. CASE ReplayNext(p)
    BY <2>6, Replayed DEF Effect
  <2> QED BY <1>5, <2>1, <2>2, <2>3, <2>4, <2>5, <2>6 DEF Start, TunnelQueue
<1> QED BY <1>2, <1>3, <1>4, <1>5 DEF Next

-----------------------------------------------------------------------------
(* The feeds and the clocks stay within what is published and stored.       *)

(* A request or a clock adds no message to what is under way.               *)
LEMMA SendsNoMessage ==
    ASSUME NEW p \in Peers, NEW g, g.kind # "msg", Sends(p, g)
    PROVE  /\ UNCHANGED <<have, held>>
           /\ \A q, x \in Peers : OnTheWay(q, x)' = OnTheWay(q, x)
<1>1. \A x : OnTheWay(p, x)' = OnTheWay(p, x)
  BY DEF Sends, OnTheWay
<1>2. \A x : OnTheWay(Other(p), x)' = OnTheWay(Other(p), x)
  BY DEF Sends, OnTheWay
<1> QED BY <1>1, <1>2, TwoPeers DEF Sends, store

(* Nothing under way, nothing changed of the store, or nothing of either.   *)
LEMMA QuietSteps ==
    /\ Moved =>
          /\ UNCHANGED <<have, held>>
          /\ \A q, x \in Peers : OnTheWay(q, x)' = OnTheWay(q, x)
    /\ Fresh' /\ UNCHANGED store =>
          /\ UNCHANGED <<have, held>>
          /\ \A q, x \in Peers : OnTheWay(q, x)' = {}
    /\ \A p \in Peers : AskedBy(p) =>
          /\ UNCHANGED <<have, held>>
          /\ \A q, x \in Peers : OnTheWay(q, x)' = OnTheWay(q, x)
    /\ \A p \in Peers : \A start : StartedBy(p, start) =>
          /\ UNCHANGED <<have, held>>
          /\ \A q, x \in Peers : OnTheWay(q, x)' = OnTheWay(q, x)
    /\ \A p \in Peers : PublishedBy(p) =>
          \A q, x \in Peers : OnTheWay(q, x)' = OnTheWay(q, x)
<1>1. ASSUME Moved
      PROVE  /\ UNCHANGED <<have, held>>
             /\ \A q, x \in Peers : OnTheWay(q, x)' = OnTheWay(q, x)
  BY <1>1 DEF Moved, OnTheWay, store
<1>2. ASSUME Fresh', UNCHANGED store
      PROVE  /\ UNCHANGED <<have, held>>
             /\ \A q, x \in Peers : OnTheWay(q, x)' = {}
  BY <1>2 DEF Fresh, OnTheWay, store
<1>3. ASSUME NEW p \in Peers, AskedBy(p)
      PROVE  /\ UNCHANGED <<have, held>>
             /\ \A q, x \in Peers : OnTheWay(q, x)' = OnTheWay(q, x)
  <2>1. PICK i \in Nat : Sends(p, Request(i))
    BY <1>3 DEF AskedBy
  <2>2. Request(i).kind # "msg"
    BY DEF Request
  <2> QED BY <2>1, <2>2, SendsNoMessage
<1>4. ASSUME NEW p \in Peers, NEW start, StartedBy(p, start)
      PROVE  /\ UNCHANGED <<have, held>>
             /\ \A q, x \in Peers : OnTheWay(q, x)' = OnTheWay(q, x)
  <2>1. Sends(p, Clock("own", start.id, start.clock))
    BY <1>4 DEF StartedBy
  <2>2. Clock("own", start.id, start.clock).kind # "msg"
    BY DEF Clock
  <2> QED BY <2>1, <2>2, SendsNoMessage
<1>5. ASSUME NEW p \in Peers, PublishedBy(p)
      PROVE  \A q, x \in Peers : OnTheWay(q, x)' = OnTheWay(q, x)
  <2>1. UNCHANGED <<chan, sess>>
    BY <1>5 DEF PublishedBy
  <2> QED BY <2>1, Untouched DEF OnTheWay
<1> QED BY <1>1, <1>2, <1>3, <1>4, <1>5

(* What a delivery changes, peer by peer.                                   *)
LEMMA DeliveryIs ==
    ASSUME TypeInv, TypeInv', StoreInv, NEW q \in Peers, NEW f \in Frames,
           NEW sent \in Seq(Frames), Delivered(q, f, sent)
    PROVE  /\ \A p, x \in Peers :
                 have[p][x] <= have'[p][x] /\ have'[p][x] <= have[x][x]
           /\ \A x \in Peers : have'[x][x] = have[x][x]
           /\ \A x \in Peers :
                 /\ OnTheWay(q, x)' \subseteq OnTheWay(q, x)
                 /\ OnTheWay(q, x)
                      \subseteq OnTheWay(q, x)' \cup held'[q][x] \cup 1 .. have'[q][x]
                 /\ held[q][x] \subseteq held'[q][x] \cup 1 .. have'[q][x]
                 /\ held'[q][x] \subseteq held[q][x] \cup OnTheWay(q, x)
           /\ \A x \in Peers :
                 /\ have'[Other(q)][x] = have[Other(q)][x]
                 /\ held'[Other(q)][x] = held[Other(q)][x]
                 /\ OnTheWay(Other(q), x) \subseteq OnTheWay(Other(q), x)'
                 /\ \A n \in OnTheWay(Other(q), x)' \ OnTheWay(Other(q), x) :
                       n \in 1 .. have[q][x]
                         /\ have[Other(q)][x] + 1 .. n \subseteq OnTheWay(Other(q), x)'
<1> DEFINE o == Other(q)
<1>1. o \in Peers /\ o # q /\ \A p \in Peers : p = q \/ p = o
  BY TwoPeers
<1> HIDE DEF o
<1>2. /\ \A p, x \in Peers : have[p][x] \in Nat /\ have'[p][x] \in Nat
      /\ \A p, x \in Peers : have[p][x] <= have[x][x]
      /\ \A p, x \in Peers : held[p][x] \subseteq Nat /\ held'[p][x] \subseteq Nat
  BY DEF TypeInv, StoreInv, FeedsBounded
<1>3. /\ \A r, x \in Peers : f.kind # "msg" \/ r # q \/ x # f.author =>
            have'[r][x] = have[r][x] /\ held'[r][x] = held[r][x]
      /\ f.kind = "msg" =>
            /\ f.author \in Peers
            /\ have'[q][f.author] \in have[q][f.author] .. have[f.author][f.author]
            /\ held'[q][f.author] \subseteq held[q][f.author] \cup {f.seq}
            /\ held[q][f.author] \cup {f.seq}
                 \subseteq held'[q][f.author] \cup 1 .. have'[q][f.author]
  BY FrameShapes DEF Delivered, Stores
<1>4. \A p, x \in Peers : have[p][x] <= have'[p][x] /\ have'[p][x] <= have[x][x]
  <2> SUFFICES ASSUME NEW p \in Peers, NEW x \in Peers
               PROVE  have[p][x] <= have'[p][x] /\ have'[p][x] <= have[x][x]
    OBVIOUS
  <2>1. CASE f.kind = "msg" /\ p = q /\ x = f.author
    BY <1>2, <1>3, <2>1
  <2>2. CASE ~(f.kind = "msg" /\ p = q /\ x = f.author)
    BY <1>2, <1>3, <2>2
  <2> QED BY <2>1, <2>2
<1>5. \A x \in Peers : have'[x][x] = have[x][x]
  BY <1>2, <1>4
<1>6. ASSUME NEW x \in Peers
      PROVE  /\ OnTheWay(q, x)' \subseteq OnTheWay(q, x)
             /\ OnTheWay(q, x)
                  \subseteq OnTheWay(q, x)' \cup held'[q][x] \cup 1 .. have'[q][x]
             /\ held[q][x] \subseteq held'[q][x] \cup 1 .. have'[q][x]
             /\ held'[q][x] \subseteq held[q][x] \cup OnTheWay(q, x)
  <2>1. Coming(q) = Coming(q)' \cup {f} /\ f \in Coming(q)
    BY DEF Delivered
  <2>2. OnTheWay(q, x)' \subseteq OnTheWay(q, x)
    BY <2>1 DEF OnTheWay
  <2>3. CASE f.kind = "msg" /\ x = f.author
    <3>1. OnTheWay(q, x) \subseteq OnTheWay(q, x)' \cup {f.seq}
      BY <2>1 DEF OnTheWay
    <3>2. f.seq \in OnTheWay(q, x)
      BY <2>1, <2>3 DEF OnTheWay
    <3> QED BY <1>3, <2>2, <2>3, <3>1, <3>2
  <2>4. CASE ~(f.kind = "msg" /\ x = f.author)
    <3>1. OnTheWay(q, x) \subseteq OnTheWay(q, x)'
      BY <2>1, <2>4 DEF OnTheWay
    <3>2. held'[q][x] = held[q][x]
      BY <1>3, <2>4
    <3> QED BY <2>2, <3>1, <3>2
  <2> QED BY <2>3, <2>4
<1>7. ASSUME NEW x \in Peers
      PROVE  /\ have'[o][x] = have[o][x] /\ held'[o][x] = held[o][x]
             /\ OnTheWay(o, x) \subseteq OnTheWay(o, x)'
             /\ \A n \in OnTheWay(o, x)' \ OnTheWay(o, x) :
                   n \in 1 .. have[q][x]
                     /\ have[o][x] + 1 .. n \subseteq OnTheWay(o, x)'
  <2>1. have'[o][x] = have[o][x] /\ held'[o][x] = held[o][x]
    BY <1>1, <1>3
  <2>2. Coming(o)' = Coming(o) \cup Members(sent) /\ Answers(q, f, sess[q], sent)
    BY DEF Delivered, o
  <2>3. OnTheWay(o, x) \subseteq OnTheWay(o, x)'
    BY <2>2 DEF OnTheWay
  <2>4. ASSUME NEW n \in OnTheWay(o, x)' \ OnTheWay(o, x)
        PROVE  n \in 1 .. have[q][x] /\ have[o][x] + 1 .. n \subseteq OnTheWay(o, x)'
    <3>1. PICK g \in Members(sent) : g.kind = "msg" /\ g.author = x /\ g.seq = n
      BY <2>2, <2>4 DEF OnTheWay
    <3>2. /\ f.kind = "clock" /\ x \in DOMAIN f.clock
          /\ n \in f.clock[x] + 1 .. have[q][x]
          /\ \A k \in f.clock[x] + 1 .. n : \E h \in Members(sent) :
                h.kind = "msg" /\ h.author = x /\ h.seq = k
      <4>1. /\ f.kind = "clock" /\ g.author \in DOMAIN f.clock
            /\ g.seq \in f.clock[g.author] + 1 .. have[q][g.author]
            /\ \A k \in f.clock[g.author] + 1 .. g.seq : \E h \in Members(sent) :
                  h.kind = "msg" /\ h.author = g.author /\ h.seq = k
        BY <2>2, <3>1 DEF Answers
      <4> QED BY <3>1, <4>1
    <3>3. f.clock[x] \in Nat /\ f.clock[x] <= have[o][x]
      <4>1. f.clock \in Clocks
        BY <3>2, FrameShapes
      <4>2. f.clock[x] \in Nat
        BY <3>2, <4>1, ClockShapes
      <4>3. f \in Coming(q)
        BY DEF Delivered
      <4> QED BY <3>2, <4>2, <4>3 DEF StoreInv, ClocksBounded, o
    <3>4. n \in 1 .. have[q][x]
      BY <1>1, <1>2, <3>2, <3>3
    <3>5. ASSUME NEW k \in have[o][x] + 1 .. n PROVE k \in OnTheWay(o, x)'
      <4>1. k \in f.clock[x] + 1 .. n
        <5>1. /\ have[o][x] \in Nat /\ n \in Nat /\ f.clock[x] \in Nat
              /\ f.clock[x] <= have[o][x]
          BY <1>1, <1>2, <3>3, <3>4
        <5> QED BY <5>1
      <4>2. PICK h \in Members(sent) : h.kind = "msg" /\ h.author = x /\ h.seq = k
        BY <3>2, <4>1
      <4> QED BY <2>2, <4>2 DEF OnTheWay
    <3> QED BY <3>4, <3>5
  <2> QED BY <2>1, <2>3, <2>4
<1> QED BY <1>4, <1>5, <1>6, <1>7 DEF o

LEMMA FeedsStep ==
    ASSUME TypeInv, TypeInv', StoreInv, Effect
    PROVE  FeedsBounded'
<1>1. /\ \A p, x \in Peers : have[p][x] \in Nat /\ have'[p][x] \in Nat
      /\ \A p, x \in Peers :
            /\ have[p][x] <= have[x][x]
            /\ held[p][x] \cup OnTheWay(p, x) \subseteq 1 .. have[x][x]
  BY DEF TypeInv, StoreInv, FeedsBounded
<1>2. ASSUME UNCHANGED <<have, held>>,
             \A q, x \in Peers : OnTheWay(q, x)' \subseteq OnTheWay(q, x)
      PROVE  FeedsBounded'
  <2> SUFFICES ASSUME NEW p \in Peers, NEW x \in Peers
               PROVE  /\ have'[p][x] <= have'[x][x]
                      /\ held'[p][x] \cup OnTheWay(p, x)' \subseteq 1 .. have'[x][x]
    BY DEF FeedsBounded
  <2> QED BY <1>1, <1>2
<1>3. CASE Moved
  BY <1>2, <1>3, QuietSteps
<1>4. CASE Fresh' /\ UNCHANGED store
  BY <1>2, <1>4, QuietSteps
<1>5. ASSUME NEW p \in Peers, AskedBy(p) PROVE FeedsBounded'
  BY <1>2, <1>5, QuietSteps
<1>6. ASSUME NEW p \in Peers, NEW start, StartedBy(p, start) PROVE FeedsBounded'
  BY <1>2, <1>6, QuietSteps
<1>7. ASSUME NEW q \in Peers, PublishedBy(q) PROVE FeedsBounded'
  <2> SUFFICES ASSUME NEW p \in Peers, NEW x \in Peers
               PROVE  /\ have'[p][x] <= have'[x][x]
                      /\ held'[p][x] \cup OnTheWay(p, x)' \subseteq 1 .. have'[x][x]
    BY DEF FeedsBounded
  <2>1. OnTheWay(p, x)' = OnTheWay(p, x) /\ held' = held
    BY <1>7, QuietSteps DEF PublishedBy
  <2>2. /\ have'[q][q] = have[q][q] + 1
        /\ \A r, y \in Peers : r # q \/ y # q => have'[r][y] = have[r][y]
    BY <1>7 DEF PublishedBy
  <2>3. have[x][x] <= have'[x][x]
    BY <1>1, <2>2
  <2>4. have'[p][x] <= have'[x][x]
    BY <1>1, <2>2
  <2> QED BY <1>1, <2>1, <2>3, <2>4
<1>8. ASSUME NEW q \in Peers, NEW f \in Frames, NEW sent \in Seq(Frames),
             Delivered(q, f, sent)
      PROVE  FeedsBounded'
  <2> SUFFICES ASSUME NEW p \in Peers, NEW x \in Peers
               PROVE  /\ have'[p][x] <= have'[x][x]
                      /\ held'[p][x] \cup OnTheWay(p, x)' \subseteq 1 .. have'[x][x]
    BY DEF FeedsBounded
  <2>1. have'[x][x] = have[x][x] /\ have'[p][x] <= have[x][x]
    BY <1>8, DeliveryIs
  <2>2. CASE p = q
    <3>1. /\ OnTheWay(q, x)' \subseteq OnTheWay(q, x)
          /\ held'[q][x] \subseteq held[q][x] \cup OnTheWay(q, x)
      BY <1>8, DeliveryIs
    <3> QED BY <1>1, <2>1, <2>2, <3>1
  <2>3. CASE p = Other(q)
    <3>1. /\ held'[p][x] = held[p][x]
          /\ \A n \in OnTheWay(p, x)' \ OnTheWay(p, x) : n \in 1 .. have[q][x]
      BY <1>8, <2>3, DeliveryIs
    <3>2. 1 .. have[q][x] \subseteq 1 .. have[x][x]
      BY <1>1
    <3>3. OnTheWay(p, x)' \subseteq 1 .. have[x][x]
      BY <1>1, <3>1, <3>2
    <3> QED BY <1>1, <2>1, <3>1, <3>3
  <2> QED BY <2>2, <2>3, TwoPeers
<1> QED BY <1>3, <1>4, <1>5, <1>6, <1>7, <1>8 DEF Effect

(* Every message is stored, in quarantine or under way with what it needs.  *)
LEMMA GapsStep ==
    ASSUME TypeInv, TypeInv', StoreInv, NoGapInFlight, Effect
    PROVE  NoGapInFlight'
<1>1. \A p, x \in Peers : have[p][x] \in Nat /\ have'[p][x] \in Nat
  BY DEF TypeInv
<1>2. ASSUME UNCHANGED <<have, held>>,
             \A q, x \in Peers : OnTheWay(q, x)' = OnTheWay(q, x)
      PROVE  NoGapInFlight'
  BY <1>2 DEF NoGapInFlight
<1>3. CASE Moved
  BY <1>2, <1>3, QuietSteps
<1>4. CASE Fresh' /\ UNCHANGED store
  BY <1>4, QuietSteps DEF NoGapInFlight
<1>5. ASSUME NEW p \in Peers, AskedBy(p) PROVE NoGapInFlight'
  BY <1>2, <1>5, QuietSteps
<1>6. ASSUME NEW p \in Peers, NEW start, StartedBy(p, start) PROVE NoGapInFlight'
  BY <1>2, <1>6, QuietSteps
<1>7. ASSUME NEW q \in Peers, PublishedBy(q) PROVE NoGapInFlight'
  <2> SUFFICES ASSUME NEW p \in Peers, NEW x \in Peers, NEW n \in OnTheWay(p, x)'
               PROVE  have'[p][x] + 1 .. n \subseteq held'[p][x] \cup OnTheWay(p, x)'
    BY DEF NoGapInFlight
  <2>1. OnTheWay(p, x)' = OnTheWay(p, x) /\ held' = held
    BY <1>7, QuietSteps DEF PublishedBy
  <2>2. have[p][x] <= have'[p][x]
    BY <1>1, <1>7 DEF PublishedBy
  <2>3. have[p][x] + 1 .. n \subseteq held[p][x] \cup OnTheWay(p, x)
    BY <2>1 DEF NoGapInFlight
  <2>4. have'[p][x] + 1 .. n \subseteq have[p][x] + 1 .. n
    BY <1>1, <2>2
  <2> QED BY <2>1, <2>3, <2>4
<1>8. ASSUME NEW q \in Peers, NEW f \in Frames, NEW sent \in Seq(Frames),
             Delivered(q, f, sent)
      PROVE  NoGapInFlight'
  <2> SUFFICES ASSUME NEW p \in Peers, NEW x \in Peers, NEW n \in OnTheWay(p, x)',
                      NEW k \in have'[p][x] + 1 .. n
               PROVE  k \in held'[p][x] \cup OnTheWay(p, x)'
    BY DEF NoGapInFlight
  <2>1. CASE p = q
    <3>1. /\ OnTheWay(q, x)' \subseteq OnTheWay(q, x)
          /\ OnTheWay(q, x)
               \subseteq OnTheWay(q, x)' \cup held'[q][x] \cup 1 .. have'[q][x]
          /\ held[q][x] \subseteq held'[q][x] \cup 1 .. have'[q][x]
          /\ have[q][x] <= have'[q][x]
      BY <1>8, DeliveryIs
    <3>2. k \in have[q][x] + 1 .. n /\ k \notin 1 .. have'[q][x]
      BY <1>1, <2>1, <3>1
    <3>3. k \in held[q][x] \cup OnTheWay(q, x)
      BY <2>1, <3>1, <3>2 DEF NoGapInFlight
    <3> QED BY <2>1, <3>1, <3>2, <3>3
  <2>2. CASE p = Other(q)
    <3>1. /\ have'[p][x] = have[p][x] /\ held'[p][x] = held[p][x]
          /\ OnTheWay(p, x) \subseteq OnTheWay(p, x)'
          /\ \A m \in OnTheWay(p, x)' \ OnTheWay(p, x) :
                have[p][x] + 1 .. m \subseteq OnTheWay(p, x)'
      BY <1>8, <2>2, DeliveryIs
    <3>2. CASE n \in OnTheWay(p, x)
      BY <3>1, <3>2 DEF NoGapInFlight
    <3>3. CASE n \notin OnTheWay(p, x)
      BY <3>1, <3>3
    <3> QED BY <3>2, <3>3
  <2> QED BY <2>1, <2>2, TwoPeers
<1> QED BY <1>3, <1>4, <1>5, <1>6, <1>7, <1>8 DEF Effect

(* Clocks stay bounded when stores grow and new clocks are bounded.         *)
LEMMA ClocksGrow ==
    ASSUME TypeInv, TypeInv', ClocksBounded,
           \A p, x \in Peers : have[p][x] <= have'[p][x],
           \A p \in Peers : \A start \in sess'[p].starting :
              \/ start \in sess[p].starting
              \/ \A x \in DOMAIN start.clock : start.clock[x] <= have[p][x],
           \A p \in Peers : \A f \in Coming(p)' : f.kind = "clock" =>
              \/ f \in Coming(p)
              \/ f \in Frames
                   /\ \A x \in DOMAIN f.clock : f.clock[x] <= have[Other(p)][x]
    PROVE  ClocksBounded'
<1> SUFFICES ASSUME NEW p \in Peers
             PROVE  /\ \A start \in sess'[p].starting : \A x \in DOMAIN start.clock :
                          start.clock[x] <= have'[p][x]
                    /\ \A f \in Coming(p)' : f.kind = "clock" =>
                          \A x \in DOMAIN f.clock : f.clock[x] <= have'[Other(p)][x]
  BY DEF ClocksBounded
<1>1. \A q, x \in Peers : have[q][x] \in Nat /\ have'[q][x] \in Nat
  BY DEF TypeInv
<1>2. Other(p) \in Peers
  BY TwoPeers
<1>3. ASSUME NEW c \in Clocks, NEW q \in Peers,
             \A x \in DOMAIN c : c[x] <= have[q][x], NEW x \in DOMAIN c
      PROVE  c[x] <= have'[q][x]
  <2>1. x \in Peers /\ c[x] \in Nat
    BY ClockShapes
  <2>2. c[x] <= have[q][x] /\ have[q][x] <= have'[q][x]
    BY <1>3, <2>1
  <2> QED BY <1>1, <2>1, <2>2
<1>4. ASSUME NEW start \in sess'[p].starting
      PROVE  \A x \in DOMAIN start.clock : start.clock[x] <= have'[p][x]
  <2>1. start \in Starts /\ start.clock \in Clocks
    <3>1. sess'[p] \in Sessions
      BY DEF TypeInv
    <3>2. sess'[p].starting \subseteq Starts
      BY <3>1 DEF Sessions
    <3> QED BY <3>2 DEF Starts
  <2>2. \A x \in DOMAIN start.clock : start.clock[x] <= have[p][x]
    BY <1>4 DEF ClocksBounded
  <2> QED BY <1>3, <2>1, <2>2
<1>5. ASSUME NEW f \in Coming(p)', f.kind = "clock"
      PROVE  \A x \in DOMAIN f.clock : f.clock[x] <= have'[Other(p)][x]
  <2>1. f \in Frames
    BY <1>5, ComingIs
  <2>2. f.clock \in Clocks
    BY <1>5, <2>1, FrameShapes
  <2>3. \A x \in DOMAIN f.clock : f.clock[x] <= have[Other(p)][x]
    BY <1>5 DEF ClocksBounded
  <2> QED BY <1>2, <1>3, <2>2, <2>3
<1> QED BY <1>4, <1>5

LEMMA ClocksStep ==
    ASSUME TypeInv, TypeInv', StoreInv, Effect
    PROVE  ClocksBounded'
<1>1. /\ ClocksBounded
      /\ \A q, x \in Peers : have[q][x] \in Nat /\ have'[q][x] \in Nat
  BY DEF StoreInv, TypeInv
<1>2. CASE Moved
  <2>1. /\ have' = have
        /\ \A p \in Peers :
              Coming(p)' = Coming(p) /\ sess'[p].starting = sess[p].starting
    BY <1>2 DEF Moved, store, Same
  <2>2. \A p, x \in Peers : have[p][x] <= have'[p][x]
    BY <1>1, <2>1
  <2> QED BY <1>1, <2>1, <2>2, ClocksGrow
<1>3. CASE Fresh' /\ UNCHANGED store
  BY <1>3 DEF Fresh, ClocksBounded
<1>4. ASSUME NEW q \in Peers, AskedBy(q) PROVE ClocksBounded'
  <2>1. PICK i \in Nat : Sends(q, Request(i))
    BY <1>4 DEF AskedBy
  <2>2. PICK k : sess'[q].starting
                   = sess[q].starting \cup {[id |-> k, clock |-> LocalClock(q)]}
    BY <1>4 DEF AskedBy
  <2>3. /\ have' = have /\ sess'[Other(q)] = sess[Other(q)]
        /\ Coming(q)' = Coming(q)
        /\ Coming(Other(q))' = Coming(Other(q)) \cup {Request(i)}
    BY <2>1 DEF Sends, store
  <2>4. Request(i).kind # "clock"
    BY DEF Request
  <2>5. \A x \in DOMAIN LocalClock(q) : LocalClock(q)[x] <= have[q][x]
    <3>1. LocalClock(q) \in Clocks
            /\ \A x \in DOMAIN LocalClock(q) : LocalClock(q)[x] = have[q][x]
      BY LocalClockIs DEF TypeInv
    <3>2. \A x \in DOMAIN LocalClock(q) : LocalClock(q)[x] \in Nat
      BY <3>1, ClockShapes
    <3> QED BY <3>1, <3>2
  <2>6. \A p, x \in Peers : have[p][x] <= have'[p][x]
    BY <1>1, <2>3
  <2>7. ASSUME NEW p \in Peers, NEW start \in sess'[p].starting
        PROVE  \/ start \in sess[p].starting
               \/ \A x \in DOMAIN start.clock : start.clock[x] <= have[p][x]
    BY <2>2, <2>3, <2>5, <2>7, TwoPeers
  <2>8. ASSUME NEW p \in Peers, NEW f \in Coming(p)', f.kind = "clock"
        PROVE  f \in Coming(p)
    BY <2>3, <2>4, <2>8, TwoPeers
  <2> QED BY <1>1, <2>6, <2>7, <2>8, ClocksGrow
<1>5. ASSUME NEW q \in Peers, NEW start \in sess[q].starting, StartedBy(q, start)
      PROVE  ClocksBounded'
  <2> DEFINE g == Clock("own", start.id, start.clock)
  <2>1. /\ have' = have /\ sess'[Other(q)] = sess[Other(q)]
        /\ Coming(q)' = Coming(q)
        /\ Coming(Other(q))' = Coming(Other(q)) \cup {g}
        /\ sess'[q].starting \subseteq sess[q].starting
    BY <1>5 DEF StartedBy, Sends, store
  <2>2. g \in Frames /\ g.clock = start.clock
    <3>1. start.id \in Nat /\ start.clock \in Clocks
      BY <1>5 DEF StartedBy, Starts
    <3> QED BY <3>1, FramesMade DEF Halves, Clock
  <2>3. \A x \in DOMAIN start.clock : start.clock[x] <= have[q][x]
    BY <1>1 DEF ClocksBounded
  <2> HIDE DEF g
  <2>4. \A p, x \in Peers : have[p][x] <= have'[p][x]
    BY <1>1, <2>1
  <2>5. \A p \in Peers : sess'[p].starting \subseteq sess[p].starting
    BY <2>1, TwoPeers
  <2>6. ASSUME NEW p \in Peers, NEW f \in Coming(p)'
        PROVE  \/ f \in Coming(p)
               \/ f \in Frames
                    /\ \A x \in DOMAIN f.clock : f.clock[x] <= have[Other(p)][x]
    <3>1. CASE p = q
      BY <2>1, <3>1
    <3>2. CASE p = Other(q)
      <4>1. Other(p) = q
        BY <3>2, TwoPeers
      <4> QED BY <2>1, <2>2, <2>3, <3>2, <4>1
    <3> QED BY <3>1, <3>2, TwoPeers
  <2> QED BY <1>1, <2>4, <2>5, <2>6, ClocksGrow
<1>6. ASSUME NEW q \in Peers, PublishedBy(q) PROVE ClocksBounded'
  <2>1. \A p \in Peers : Coming(p)' = Coming(p) /\ sess'[p] = sess[p]
    BY <1>6, Untouched DEF PublishedBy
  <2>2. \A p, x \in Peers : have[p][x] <= have'[p][x]
    BY <1>1, <1>6 DEF PublishedBy
  <2> QED BY <1>1, <2>1, <2>2, ClocksGrow
<1>7. ASSUME NEW q \in Peers, NEW f \in Frames, NEW sent \in Seq(Frames),
             Delivered(q, f, sent)
      PROVE  ClocksBounded'
  <2>1. /\ Coming(q)' \subseteq Coming(q)
        /\ Coming(Other(q))' = Coming(Other(q)) \cup Members(sent)
        /\ \A p \in Peers : sess'[p].starting = sess[p].starting
        /\ Answers(q, f, sess[q], sent)
    BY <1>7 DEF Delivered, Same
  <2>2. \A p, x \in Peers : have[p][x] <= have'[p][x]
    BY <1>7, DeliveryIs
  <2>3. Members(sent) \subseteq Frames
    BY MembersOf
  <2>4. ASSUME NEW g \in Members(sent), g.kind = "clock"
        PROVE  \A x \in DOMAIN g.clock : g.clock[x] <= have[q][x]
    <3>1. \A x \in DOMAIN g.clock : g.clock[x] = have[q][x]
      BY <2>1, <2>4 DEF Answers
    <3>2. g.clock \in Clocks
      BY <2>3, <2>4, FrameShapes
    <3>3. \A x \in DOMAIN g.clock : g.clock[x] \in Nat
      BY <3>2, ClockShapes
    <3> QED BY <3>1, <3>3
  <2>5. ASSUME NEW p \in Peers, NEW g \in Coming(p)', g.kind = "clock"
        PROVE  \/ g \in Coming(p)
               \/ g \in Frames
                    /\ \A x \in DOMAIN g.clock : g.clock[x] <= have[Other(p)][x]
    <3>1. CASE p = q
      BY <2>1, <3>1
    <3>2. CASE p = Other(q)
      <4>1. Other(p) = q
        BY <3>2, TwoPeers
      <4> QED BY <2>1, <2>3, <2>4, <2>5, <3>2, <4>1
    <3> QED BY <3>1, <3>2, TwoPeers
  <2> QED BY <1>1, <2>1, <2>2, <2>5, ClocksGrow
<1> QED BY <1>2, <1>3, <1>4, <1>5, <1>6, <1>7 DEF Effect

-----------------------------------------------------------------------------
(* The clocks that ask for the feeds.                                       *)

(* What PollInv says of the peer p.                                         *)
Polled(p) ==
    sess[p].recorded # 0 =>
        \/ \E f \in Coming(p) : Asks(f, Other(p))
        \/ \E f \in Coming(Other(p)) :
              /\ Asks(f, Other(p))
              /\ f.half = "own" \/ sess[Other(p)].recorded # 0

(* Nothing is lost and no start is forgotten.                               *)
LEMMA PollGrows ==
    ASSUME NEW p \in Peers, Polled(p),
           sess[p].recorded # 0 \/ sess'[p].recorded = 0,
           \A q \in Peers : Coming(q) \subseteq Coming(q)',
           sess[Other(p)].recorded # 0 => sess'[Other(p)].recorded # 0
    PROVE  Polled(p)'
BY TwoPeers DEF Polled

LEMMA PollStep ==
    ASSUME TypeInv, PollInv, Effect
    PROVE  PollInv'
<1> SUFFICES ASSUME NEW p \in Peers PROVE Polled(p)'
  BY DEF PollInv, Polled
<1>1. Polled(p)
  BY DEF PollInv, Polled
<1>2. CASE Moved
  <2>1. \A q \in Peers : Coming(q)' = Coming(q) /\ sess'[q].recorded = sess[q].recorded
    BY <1>2 DEF Moved, Same
  <2> QED BY <1>1, <2>1, TwoPeers, PollGrows
<1>3. CASE Fresh' /\ UNCHANGED store
  BY <1>3 DEF Fresh, Polled
<1>4. ASSUME NEW q \in Peers, AskedBy(q) PROVE Polled(p)'
  <2>1. /\ \A r \in Peers : Coming(r) \subseteq Coming(r)'
        /\ \A r \in Peers : sess'[r].recorded = sess[r].recorded
    BY <1>4, TwoPeers DEF AskedBy, Sends
  <2> QED BY <1>1, <2>1, TwoPeers, PollGrows
<1>5. ASSUME NEW q \in Peers, NEW start, StartedBy(q, start) PROVE Polled(p)'
  <2> DEFINE g == Clock("own", start.id, start.clock)
  <2>1. /\ \A r \in Peers : Coming(r) \subseteq Coming(r)'
        /\ g \in Coming(Other(q))'
        /\ sess'[q].recorded # 0 /\ sess'[Other(q)] = sess[Other(q)]
    BY <1>5, TwoPeers DEF StartedBy, Sends, Starts
  <2>2. Asks(g, Other(q)) /\ g.half = "own"
    BY <1>5 DEF StartedBy, Asks, Clock
  <2> HIDE DEF g
  <2>3. CASE p = q
    BY <2>1, <2>2, <2>3 DEF Polled
  <2>4. CASE p = Other(q)
    BY <1>1, <2>1, <2>4, TwoPeers, PollGrows
  <2> QED BY <2>3, <2>4, TwoPeers
<1>6. ASSUME NEW q \in Peers, PublishedBy(q) PROVE Polled(p)'
  <2>1. \A r \in Peers : Coming(r)' = Coming(r) /\ sess'[r] = sess[r]
    BY <1>6, Untouched DEF PublishedBy
  <2> QED BY <1>1, <2>1, TwoPeers, PollGrows
<1>7. ASSUME NEW q \in Peers, NEW f \in Frames, NEW sent \in Seq(Frames),
             Delivered(q, f, sent)
      PROVE  Polled(p)'
  <2>1. /\ Coming(q) = Coming(q)' \cup {f}
        /\ Coming(Other(q))' = Coming(Other(q)) \cup Members(sent)
        /\ \A r \in Peers : sess'[r].recorded = sess[r].recorded
        /\ sess[q].recorded # 0 \/ f.half = "answer"
    BY <1>7 DEF Delivered, Same
  <2>2. ASSUME NEW x, Asks(f, x), sess[q].recorded # 0
        PROVE  \E g \in Coming(Other(q))' : Asks(g, x) /\ g.half = "own"
    <3>1. DOMAIN f.clock # {} /\ f.kind = "clock" /\ x \in DOMAIN f.clock
      BY <2>2 DEF Asks
    <3>2. PICK g \in Members(sent) :
             g.kind = "clock" /\ g.half = "own" /\ DOMAIN g.clock = DOMAIN f.clock
      BY <1>7, <2>2, <3>1 DEF Delivered, Answers
    <3> QED BY <2>1, <3>1, <3>2 DEF Asks
  <2> SUFFICES ASSUME sess[p].recorded # 0
               PROVE  \/ \E g \in Coming(p)' : Asks(g, Other(p))
                      \/ \E g \in Coming(Other(p))' :
                            /\ Asks(g, Other(p))
                            /\ g.half = "own" \/ sess[Other(p)].recorded # 0
    BY <2>1, TwoPeers DEF Polled
  <2>3. CASE \E g \in Coming(p) : Asks(g, Other(p))
    <3>1. PICK g \in Coming(p) : Asks(g, Other(p))
      BY <2>3
    <3>2. CASE p = q
      <4>1. CASE g = f
        BY <2>2, <3>1, <3>2, <4>1
      <4>2. CASE g # f
        BY <2>1, <3>1, <3>2, <4>2
      <4> QED BY <4>1, <4>2
    <3>3. CASE p = Other(q)
      BY <2>1, <3>1, <3>3
    <3> QED BY <3>2, <3>3, TwoPeers
  <2>4. CASE \E g \in Coming(Other(p)) :
               Asks(g, Other(p)) /\ (g.half = "own" \/ sess[Other(p)].recorded # 0)
    <3>1. PICK g \in Coming(Other(p)) :
             Asks(g, Other(p)) /\ (g.half = "own" \/ sess[Other(p)].recorded # 0)
      BY <2>4
    <3>2. CASE p = q
      BY <2>1, <3>1, <3>2
    <3>3. CASE p = Other(q)
      <4>1. Other(p) = q
        BY <3>3, TwoPeers
      <4>2. CASE g = f
        <5>1. sess[q].recorded # 0
          BY <2>1, <3>1, <4>1, <4>2
        <5> QED BY <2>2, <3>1, <3>3, <4>1, <4>2, <5>1
      <4>3. CASE g # f
        BY <2>1, <3>1, <4>1, <4>3
      <4> QED BY <4>2, <4>3
    <3> QED BY <3>2, <3>3, TwoPeers
  <2> QED BY <1>1, <2>3, <2>4 DEF Polled
<1> QED BY <1>2, <1>3, <1>4, <1>5, <1>6, <1>7 DEF Effect

-----------------------------------------------------------------------------
(* The number of clocks and requests under way.                             *)

Owed(p) == Total(p) + Cardinality(sess[p].starting)

LEMMA OwedIs ==
    ASSUME TypeInv, NEW p \in Peers
    PROVE  /\ Total(p) \in Nat /\ Cardinality(sess[p].starting) \in Nat
           /\ IsFiniteSet(sess[p].starting) /\ sess[p].asked \in Nat
<1>1. SessionOK(p) /\ sess[p] \in Sessions
  BY DEF TypeInv
<1>2. IsFiniteSet(sess[p].starting) /\ sess[p].asked \in Nat
  BY <1>1 DEF SessionOK, Sessions
<1> QED BY <1>2, ComingIs, FS_CardinalityType

(* The order of the peers does not matter.                                  *)
Storm ==
    \A p \in Peers :
        Owed(p) + Owed(Other(p)) <= 2 * (sess[p].asked + sess[Other(p)].asked)

LEMMA StormIs ==
    TypeInv => (StormInv <=> Storm)
<1> SUFFICES ASSUME TypeInv PROVE StormInv <=> Storm
  OBVIOUS
<1> DEFINE a == Total(alice)
           b == Total(bob)
           c == Cardinality(sess[alice].starting)
           d == Cardinality(sess[bob].starting)
           m == sess[alice].asked
           n == sess[bob].asked
<1>1. /\ a \in Nat /\ b \in Nat /\ c \in Nat /\ d \in Nat /\ m \in Nat /\ n \in Nat
  BY OwedIs DEF Peers
<1>2. StormInv <=> a + b + c + d <= 2 * (m + n)
  BY DEF StormInv, Total
<1>3. /\ Other(alice) = bob /\ Other(bob) = alice
  BY DEF Other
<1>4. Storm <=> /\ (a + c) + (b + d) <= 2 * (m + n)
                /\ (b + d) + (a + c) <= 2 * (n + m)
  BY <1>3 DEF Storm, Owed, Peers
<1> HIDE DEF a, b, c, d, m, n
<1> QED BY <1>1, <1>2, <1>4

LEMMA StormStep ==
    ASSUME TypeInv, TypeInv', Storm, Effect
    PROVE  Storm'
<1> SUFFICES ASSUME NEW p \in Peers
             PROVE  Owed(p)' + Owed(Other(p))'
                      <= 2 * (sess'[p].asked + sess'[Other(p)].asked)
  BY DEF Storm
<1> DEFINE o == Other(p)
<1>1. /\ o \in Peers /\ o # p /\ Other(o) = p /\ \A q \in Peers : q = p \/ q = o
      /\ Other(p) = o
  BY TwoPeers
<1> HIDE DEF o
<1>2. /\ Owed(p) + Owed(o) <= 2 * (sess[p].asked + sess[o].asked)
      /\ \A q \in Peers : Owed(q) \in Nat /\ sess[q].asked \in Nat
  <2>1. ASSUME NEW q \in Peers PROVE Owed(q) \in Nat /\ sess[q].asked \in Nat
    BY OwedIs DEF Owed
  <2> QED BY <1>1, <2>1 DEF Storm
<1>3. ASSUME NEW q \in Peers, NEW r \in Peers, r = Other(q),
             Owed(q)' + Owed(r)' <= Owed(q) + Owed(r)
                 + 2 * (sess'[q].asked - sess[q].asked),
             Owed(q)' \in Nat, Owed(r)' \in Nat, sess'[q].asked \in Nat,
             sess'[r].asked = sess[r].asked
      PROVE  Owed(p)' + Owed(o)' <= 2 * (sess'[p].asked + sess'[o].asked)
  <2>1. CASE q = p
    BY <1>1, <1>2, <1>3, <2>1
  <2>2. CASE q = o
    BY <1>1, <1>2, <1>3, <2>2
  <2> QED BY <1>1, <2>1, <2>2
<1>4. \A q \in Peers : /\ Total(q) \in Nat /\ Total(q)' \in Nat
                       /\ Cardinality(sess[q].starting) \in Nat
                       /\ IsFiniteSet(sess[q].starting)
                       /\ sess[q].asked \in Nat
  <2>1. ASSUME NEW q \in Peers PROVE Total(q)' \in Nat
    <3>1. /\ chan' \in [Peers -> Seq(Frames)] /\ sess' \in [Peers -> Sessions]
          /\ sess'[q] \in Sessions
      BY DEF TypeInv
    <3>2. /\ chan'[q] \in Seq(Frames)
          /\ sess'[q].buffer \in Seq(Frames) /\ sess'[q].replaying \in Seq(Frames)
      BY <3>1 DEF Sessions
    <3>3. /\ Count(chan'[q]) \in Nat
          /\ Count(sess'[q].buffer) \in Nat /\ Count(sess'[q].replaying) \in Nat
      BY <3>2, CountType
    <3> QED BY <3>1, <3>3, ComingNext
  <2> QED BY <2>1, OwedIs
<1>5. ASSUME \A q \in Peers : Total(q)' = Total(q)
                 /\ sess'[q].starting = sess[q].starting
                 /\ sess'[q].asked = sess[q].asked
      PROVE  Owed(p)' + Owed(o)' <= 2 * (sess'[p].asked + sess'[o].asked)
  BY <1>1, <1>2, <1>5 DEF Owed
<1>6. CASE Moved
  BY <1>1, <1>5, <1>6 DEF Moved, Same
<1>7. CASE Fresh' /\ UNCHANGED store
  <2>1. \A q \in Peers : Owed(q)' = 0 /\ sess'[q].asked = 0
    <3> TAKE q \in Peers
    <3>1. /\ Total(q)' = 0 /\ sess'[q].starting = {} /\ sess'[q].asked = 0
      BY <1>7 DEF Fresh
    <3>2. Cardinality(sess'[q].starting) = 0
      BY <3>1, FS_EmptySet
    <3> QED BY <3>1, <3>2 DEF Owed
  <2> QED BY <1>1, <2>1
<1>8. ASSUME NEW q \in Peers, AskedBy(q)
      PROVE  Owed(p)' + Owed(o)' <= 2 * (sess'[p].asked + sess'[o].asked)
  <2> DEFINE r == Other(q)
  <2>1. r \in Peers /\ r = Other(q)
    BY TwoPeers
  <2> HIDE DEF r
  <2>2. /\ Total(q)' = Total(q) /\ Total(r)' = Total(r) + 1
        /\ sess'[r] = sess[r] /\ sess'[q].asked = sess[q].asked + 1
    BY <1>8, <2>1 DEF AskedBy, Sends
  <2>3. PICK i : sess'[q].starting
                   = sess[q].starting \cup {[id |-> i, clock |-> LocalClock(q)]}
    BY <1>8 DEF AskedBy
  <2> DEFINE n == Cardinality(sess[q].starting)
             m == Cardinality(sess'[q].starting)
  <2>4. m \in {n, n + 1}
    BY <1>4, <2>3, FS_AddElement
  <2>5. /\ Owed(q)' = Total(q) + m /\ Owed(q) = Total(q) + n
        /\ Owed(r)' = Owed(r) + 1 /\ Owed(r) \in Nat /\ n \in Nat
    BY <1>2, <1>4, <2>1, <2>2 DEF Owed
  <2> HIDE DEF n, m
  <2>6. /\ Owed(q)' + Owed(r)' <= Owed(q) + Owed(r)
             + 2 * (sess'[q].asked - sess[q].asked)
        /\ Owed(q)' \in Nat /\ Owed(r)' \in Nat /\ sess'[q].asked \in Nat
    BY <1>4, <2>1, <2>2, <2>4, <2>5
  <2> QED BY <1>3, <2>1, <2>2, <2>6
<1>9. ASSUME NEW q \in Peers, NEW start \in sess[q].starting, StartedBy(q, start)
      PROVE  Owed(p)' + Owed(o)' <= 2 * (sess'[p].asked + sess'[o].asked)
  <2> DEFINE r == Other(q)
  <2>1. r \in Peers /\ r = Other(q)
    BY TwoPeers
  <2> HIDE DEF r
  <2>2. /\ Total(q)' = Total(q) /\ Total(r)' = Total(r) + 1
        /\ sess'[r] = sess[r] /\ sess'[q].asked = sess[q].asked
        /\ sess'[q].starting = sess[q].starting \ {start}
    BY <1>9, <2>1 DEF StartedBy, Sends
  <2> DEFINE n == Cardinality(sess[q].starting)
             m == Cardinality(sess'[q].starting)
  <2>3. m = n - 1 /\ m \in Nat
    <3>1. IsFiniteSet(sess[q].starting \ {start})
      BY <1>4, FS_RemoveElement
    <3>2. /\ m = Cardinality(sess[q].starting \ {start})
          /\ IsFiniteSet(sess[q].starting)
      BY <1>4, <2>2
    <3>3. m = n - 1
      BY <3>2, FS_RemoveElement
    <3>4. m \in Nat
      BY <3>1, <3>2, FS_CardinalityType
    <3> QED BY <3>3, <3>4
  <2>4. /\ Owed(q)' = Total(q) + m /\ Owed(q) = Total(q) + n
        /\ Owed(r)' = Owed(r) + 1 /\ Owed(r) \in Nat /\ n \in Nat
    BY <1>2, <1>4, <2>1, <2>2 DEF Owed
  <2> HIDE DEF n, m
  <2>5. /\ Owed(q)' + Owed(r)' <= Owed(q) + Owed(r)
             + 2 * (sess'[q].asked - sess[q].asked)
        /\ Owed(q)' \in Nat /\ Owed(r)' \in Nat /\ sess'[q].asked \in Nat
    BY <1>4, <2>1, <2>2, <2>3, <2>4
  <2> QED BY <1>3, <2>1, <2>2, <2>5
<1>10. ASSUME NEW q \in Peers, PublishedBy(q)
       PROVE  Owed(p)' + Owed(o)' <= 2 * (sess'[p].asked + sess'[o].asked)
  BY <1>5, <1>10, Untouched DEF PublishedBy
<1>11. ASSUME NEW q \in Peers, NEW f \in Frames, NEW sent \in Seq(Frames),
              Delivered(q, f, sent)
       PROVE  Owed(p)' + Owed(o)' <= 2 * (sess'[p].asked + sess'[o].asked)
  <2> DEFINE r == Other(q)
             k == IF f.kind = "msg" THEN 0 ELSE 1
  <2>1. r \in Peers /\ r = Other(q)
    BY TwoPeers
  <2>2. k \in Nat /\ Count(sent) \in Nat
    BY CountType
  <2>3. /\ Total(q) = Total(q)' + k /\ Total(r)' = Total(r) + Count(sent)
        /\ Count(sent) <= k
    BY <1>11 DEF Delivered, Answers
  <2>4. \A s \in Peers : sess'[s].starting = sess[s].starting
                           /\ sess'[s].asked = sess[s].asked
    BY <1>11 DEF Delivered, Same
  <2> HIDE DEF r, k
  <2> DEFINE n == Cardinality(sess[q].starting)
             l == Cardinality(sess[r].starting)
  <2>5. /\ Owed(q)' = Total(q)' + n /\ Owed(q) = Total(q) + n
        /\ Owed(r)' = Total(r)' + l /\ Owed(r) = Total(r) + l
        /\ n \in Nat /\ l \in Nat
    BY <1>4, <2>1, <2>4 DEF Owed
  <2> HIDE DEF n, l
  <2>6. /\ Owed(q)' + Owed(r)' <= Owed(q) + Owed(r)
        /\ Owed(q)' \in Nat /\ Owed(r)' \in Nat
    <3>1. Total(q) \in Nat /\ Total(q)' \in Nat /\ Total(r) \in Nat /\ Total(r)' \in Nat
      BY <1>4, <2>1
    <3>2. /\ Total(q) = Total(q)' + k /\ Total(r)' = Total(r) + Count(sent)
          /\ Count(sent) <= k /\ k \in Nat /\ Count(sent) \in Nat
      BY <2>2, <2>3
    <3>3. Total(q)' + Total(r)' <= Total(q) + Total(r)
      BY <3>1, <3>2
    <3>4. Owed(q)' + Owed(r)' <= Owed(q) + Owed(r)
      <4>1. \A t, u, v, w, i, j \in Nat :
               t + u <= v + w => (t + i) + (u + j) <= (v + i) + (w + j)
        OBVIOUS
      <4>2. (Total(q)' + n) + (Total(r)' + l) <= (Total(q) + n) + (Total(r) + l)
        BY <2>5, <3>1, <3>3, <4>1
      <4> QED BY <2>5, <4>2
    <3>5. Owed(q)' \in Nat /\ Owed(r)' \in Nat
      BY <2>5, <3>1
    <3> QED BY <3>4, <3>5
  <2>7. /\ Owed(q)' + Owed(r)' <= Owed(q) + Owed(r)
             + 2 * (sess'[q].asked - sess[q].asked)
        /\ sess'[q].asked \in Nat /\ sess'[r].asked = sess[r].asked
    <3>1. /\ sess'[q].asked = sess[q].asked /\ sess[q].asked \in Nat
          /\ sess'[r].asked = sess[r].asked
      BY <1>4, <2>1, <2>4
    <3>2. 2 * (sess'[q].asked - sess[q].asked) = 0
      BY <3>1
    <3>3. Owed(q) \in Nat /\ Owed(r) \in Nat
      BY <1>2, <2>1
    <3> QED BY <2>6, <3>1, <3>2, <3>3
  <2> QED BY <1>3, <2>1, <2>6, <2>7
<1> QED BY <1>1, <1>6, <1>7, <1>8, <1>9, <1>10, <1>11 DEF Effect

-----------------------------------------------------------------------------
(* The theorems.                                                            *)

Inv == TypeInv /\ StoreInv /\ NoGapInFlight /\ PollInv /\ StormInv

LEMMA InitInv == Init => Inv
<1> SUFFICES ASSUME Init PROVE Inv
  OBVIOUS
<1>1. SessionsOK /\ Fresh
  BY FreshSessions DEF Init, Cleared
<1>2. /\ have = [p \in Peers |-> [x \in Peers |-> 0]]
      /\ held = [p \in Peers |-> [x \in Peers |-> {}]]
      /\ up \in BOOLEAN /\ faults \in Nat /\ bilateral \in [Peers -> Nat]
  BY DEF Init
<1>3. /\ have \in [Peers -> [Peers -> Nat]]
      /\ held \in [Peers -> [Peers -> SUBSET Nat]]
  BY <1>2
<1>4. TypeInv
  BY <1>1, <1>2, <1>3 DEF TypeInv, SessionsOK
<1>5. \A p \in Peers : Coming(p) = {} /\ sess[p].starting = {}
  BY <1>1 DEF Fresh
<1>6. StoreInv
  <2>1. \A p, x \in Peers : OnTheWay(p, x) = {} /\ have[p][x] = 0 /\ held[p][x] = {}
    BY <1>2, <1>5 DEF OnTheWay
  <2>2. FeedsBounded
    BY <2>1 DEF FeedsBounded
  <2>3. ClocksBounded
    BY <1>5 DEF ClocksBounded
  <2> QED BY <2>2, <2>3 DEF StoreInv
<1>7. NoGapInFlight
  BY <1>5 DEF NoGapInFlight, OnTheWay
<1>8. PollInv
  BY <1>1 DEF Fresh, PollInv
<1>9. StormInv
  <2>1. \A p \in Peers : /\ Total(p) = 0 /\ sess[p].asked = 0
                         /\ Cardinality(sess[p].starting) = 0
    BY <1>1, FS_EmptySet DEF Fresh
  <2> QED BY <2>1 DEF StormInv, Total, Peers
<1> QED BY <1>4, <1>6, <1>7, <1>8, <1>9 DEF Inv

LEMMA NextInv == Inv /\ [Next]_vars => Inv'
<1> SUFFICES ASSUME TypeInv, StoreInv, NoGapInFlight, PollInv, StormInv, [Next]_vars
             PROVE  Inv'
  BY DEF Inv
<1>1. TypeInv' /\ Effect
  BY StepIs
<1>2. StoreInv'
  BY <1>1, FeedsStep, ClocksStep DEF StoreInv
<1>3. NoGapInFlight'
  BY <1>1, GapsStep
<1>4. PollInv'
  BY <1>1, PollStep
<1>5. StormInv'
  <2>1. Storm
    BY StormIs
  <2>2. Storm'
    BY <1>1, <2>1, StormStep
  <2> QED BY <1>1, <2>2, StormIs, PTL
<1> QED BY <1>1, <1>2, <1>3, <1>4, <1>5 DEF Inv

(* Stores, channels and sessions are of their types, no feed is further     *)
(* anywhere than at its author, no clock claims more than its sender has,   *)
(* and the clocks under way are those PollInv and StormInv say.             *)
THEOREM Invariance == Spec => []Inv
BY InitInv, NextInv, PTL DEF Spec

(* Whatever breaks, overtakes or starts twice, what a message on its way    *)
(* still needs is stored, in quarantine or on its way as well.              *)
THEOREM NoGaps == Spec => []NoGapInFlight
<1>1. Inv => NoGapInFlight
  BY DEF Inv
<1> QED BY <1>1, Invariance, PTL

(* Once both have started, a clock that asks for the feed of each of them   *)
(* is under way.                                                            *)
THEOREM PollingGoesOn == Spec => []PollingContinues
<1>1. Inv => PollingContinues
  <2> SUFFICES ASSUME PollInv, \A p \in Peers : sess[p].recorded # 0, NEW x \in Peers
               PROVE  \E p \in Peers : \E f \in Coming(p) :
                         f.kind = "clock" /\ x \in DOMAIN f.clock
    BY DEF Inv, PollingContinues
  <2>1. Other(x) \in Peers /\ Other(Other(x)) = x
    BY TwoPeers
  <2> QED BY <2>1 DEF PollInv, Asks
<1> QED BY <1>1, Invariance, PTL

(* There are never more clocks and requests under way than two for each     *)
(* start.                                                                   *)
THEOREM NoStorm == Spec => []NoClockStorm
<1>1. Inv => NoClockStorm
  <2> SUFFICES ASSUME TypeInv, StormInv PROVE NoClockStorm
    BY DEF Inv
  <2>1. /\ Total(alice) \in Nat /\ Total(bob) \in Nat
        /\ Cardinality(sess[alice].starting) \in Nat
        /\ Cardinality(sess[bob].starting) \in Nat
        /\ sess[alice].asked \in Nat /\ sess[bob].asked \in Nat
    BY OwedIs DEF Peers
  <2>2. Total(alice) + Total(bob) + Cardinality(sess[alice].starting)
          + Cardinality(sess[bob].starting) <= 2 * (sess[alice].asked + sess[bob].asked)
    BY DEF StormInv, Total
  <2> QED BY <2>1, <2>2 DEF NoClockStorm, Total
<1> QED BY <1>1, Invariance, PTL

=============================================================================
