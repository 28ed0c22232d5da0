----------------------------- MODULE Replication -----------------------------
(***************************************************************************)
(* EBT replication over the tunnel between two peers (SSBRoomClient,       *)
(* startEBTReplicationWithSession: and the handlers of what arrives).      *)
(*                                                                         *)
(* A clock maps authors to the last sequence number a peer has; every      *)
(* clock received is answered by the messages the sender lacks and by a    *)
(* clock for the same authors.  Frames that arrive before the handler is   *)
(* installed are buffered by SSBTunnelConnection and replayed by a task of *)
(* its queue, so frames that arrive in between overtake them; the feed     *)
(* store holds back what does not fit yet.  Each new tunnel starts a new   *)
(* session; peerEBTState outlives it.                                      *)
(***************************************************************************)
EXTENDS Integers, Sequences, FiniteSets, FiniteSetsExt

CONSTANTS
    alice, bob,  \* the two peers
    LastSeq,     \* bound: LastSeq[x] is the last sequence number of peer x
    Threads,     \* bound: Threads[p] of p call replicateFromPeer: in one session
    MaxFaults,   \* bound: how often in all the tunnel breaks, or a second
                 \* thread calls replicateFromPeer: in time for the same session
    MaxLoad      \* bound: messages the peers have published, and second
                 \* threads that started one of the sessions

Peers == {alice, bob}

ASSUME ReplicationAssumption ==
    /\ alice # bob
    /\ LastSeq \in [Peers -> Nat] /\ Threads \in [Peers -> Nat]
    /\ MaxFaults \in Nat /\ MaxLoad \in Nat

Other(p) == IF p = alice THEN bob ELSE alice

VARIABLES
    have,      \* have[p][x]: max_sequence of author x at p
    held,      \* held[p][x]: sequence numbers in quarantine
    up,        \* whether there is a tunnel
    faults,    \* how often it broke, or a session was started again
    chan,      \* chan[p]: frames on their way to p
    sess,      \* the state of the session at each peer, see NewSession
    bilateral  \* peerEBTState[the other].requestID without its sign, 0: none

store == <<have, held>>
vars == <<store, up, faults, chan, sess, bilateral>>

(* recorded is the entry of ebtRequestIDsBySession (0: none), asked the     *)
(* requests made, starting the threads between their request and its        *)
(* recording, seen activeIncomingRequests, replays the replay tasks that    *)
(* have not run and replaying what is left of the one that runs.            *)
NewSession ==
    [recorded |-> 0, asked |-> 0, starting |-> {}, seen |-> {},
     installed |-> FALSE, buffer |-> <<>>, replays |-> 0, replaying |-> <<>>]

Init ==
    /\ have = [p \in Peers |-> [x \in Peers |-> 0]]
    /\ held = [p \in Peers |-> [x \in Peers |-> {}]]
    /\ up = FALSE /\ faults = 0
    /\ chan = [p \in Peers |-> <<>>]
    /\ sess = [p \in Peers |-> NewSession]
    /\ bilateral = [p \in Peers |-> 0]

SendAll(p, fs) == chan' = [chan EXCEPT ![Other(p)] = @ \o fs]

Load ==
    have[alice][alice] + have[bob][bob]
      + Max({0, sess[alice].asked - 1}) + Max({0, sess[bob].asked - 1})

-----------------------------------------------------------------------------
(* The feed store and the tunnel. *)

(* p publishes. *)
Publish(p) ==
    /\ have[p][p] < LastSeq[p] /\ Load < MaxLoad
    /\ have' = [have EXCEPT ![p][p] = @ + 1]
    /\ UNCHANGED <<held, up, faults, chan, sess, bilateral>>

TunnelUp ==
    /\ ~up
    /\ up' = TRUE
    /\ UNCHANGED <<store, faults, chan, sess, bilateral>>

TunnelDown ==
    /\ up /\ faults < MaxFaults
    /\ up' = FALSE /\ faults' = faults + 1
    /\ chan' = [p \in Peers |-> <<>>]
    /\ sess' = [p \in Peers |-> NewSession]
    /\ UNCHANGED <<store, bilateral>>

-----------------------------------------------------------------------------
(* startEBTReplicationWithSession: *)

LocalClock(p) ==
    LET X == {x \in Peers : have[p][x] > 0} \cup {Other(p)}
    IN  [x \in X |-> have[p][x]]

Request(i) == [kind |-> "request", half |-> "own", id |-> i]
Clock(half, i, c) == [kind |-> "clock", half |-> half, id |-> i, clock |-> c]

(* Up to the request: the clock is read here and sent below. *)
StartRequests(p) ==
    /\ up /\ sess[p].recorded = 0 /\ sess[p].asked < Threads[p]
    /\ IF sess[p].asked = 0 THEN UNCHANGED faults
       ELSE Load < MaxLoad /\ faults < MaxFaults /\ faults' = faults + 1
    /\ LET i == sess[p].asked + 1
       IN  /\ sess' = [sess EXCEPT ![p].asked = i,
                  ![p].starting = @ \cup {[id |-> i, clock |-> LocalClock(p)]}]
           /\ SendAll(p, <<Request(i)>>)
    /\ UNCHANGED <<store, up, bilateral>>

(* From the recording of the request's number on. *)
StartInstalls(p) ==
    /\ \E start \in sess[p].starting :
          /\ sess' = [sess EXCEPT ![p].recorded = start.id,
                 ![p].installed = TRUE, ![p].replays = @ + 1,
                 ![p].starting = @ \ {start}]
          /\ SendAll(p, <<Clock("own", start.id, start.clock)>>)
    /\ UNCHANGED <<store, up, faults, bilateral>>

-----------------------------------------------------------------------------
(* handleEBTMessage: of one frame at p; rest is the session without it and  *)
(* queues the channels without it.                                          *)

(* outboundEBTRequestIDForPeer: prefers the request of the other. *)
SendsOn(p, s) ==
    IF bilateral[p] # 0 THEN <<"answer", bilateral[p]>>
    ELSE <<"own", s.recorded>>

(* The reply clock prefers the own request. *)
RepliesOn(p, s) ==
    IF s.recorded # 0 THEN <<"own", s.recorded>>
    ELSE <<"answer", bilateral[p]>>

(* Mutant: the first message the peer lacks is left out. *)
MessagesPast(x, from, to, on) ==
    [i \in 1 .. to - from - 1 |->
        [kind |-> "msg", half |-> on[1], id |-> on[2], author |-> x,
         seq |-> from + 1 + i]]

MessagesOf(x, from, to, on) ==
    [i \in 1 .. to - from |->
        [kind |-> "msg", half |-> on[1], id |-> on[2], author |-> x,
         seq |-> from + i]]

Lacking(p, x, c, on) ==
    IF x \in DOMAIN c THEN MessagesOf(x, c[x], have[p][x], on) ELSE <<>>

(* sendPendingMessagesForClock: everything the clock does not cover, author *)
(* by author in the order of a dictionary.                                  *)
Pending(p, first, c, on) ==
    Lacking(p, first, c, on) \o Lacking(p, Other(first), c, on)

(* Mutant: only a peer that lacks something answers a clock. *)
AnswersIfBehind(p, c) == \E x \in DOMAIN c : have[p][x] < c[x]

AnswersClock(p, c) == DOMAIN c # {}

HandleRequest(p, f, rest, queues) ==
    /\ bilateral' = [bilateral EXCEPT ![p] = f.id]
    /\ sess' = [sess EXCEPT ![p] = rest]
    /\ chan' = [queues EXCEPT ![Other(p)] =
                   Append(@, Clock("answer", f.id, LocalClock(p)))]
    /\ UNCHANGED <<store, up, faults>>

HandleClock(p, f, rest, queues) ==
    LET c == f.clock
        sends == SendsOn(p, rest)
        replies == RepliesOn(p, rest)
        msgs(x) == IF sends[2] = 0 THEN <<>> ELSE Pending(p, x, c, sends)
        reply == IF replies[2] = 0 \/ ~AnswersClock(p, c) THEN <<>>
                 ELSE <<Clock(replies[1], replies[2],
                              [x \in DOMAIN c |-> have[p][x]])>>
    IN  /\ \E first \in Peers :
              chan' = [queues EXCEPT ![Other(p)] = @ \o (msgs(first) \o reply)]
        /\ sess' = [sess EXCEPT ![p] = rest]
        /\ UNCHANGED <<store, up, faults, bilateral>>

(* appendMessage: stores what fits, with what quarantine held back for it,  *)
(* and puts the rest in quarantine; what is stored already is an error.     *)
Reaches(known, n) ==
    Max({n} \cup {m \in known : \A k \in n .. m : k = n \/ k \in known})

Quarantines(p, x, n) == n > have[p][x] + 1

HandleMessage(p, f, rest, queues) ==
    LET x == f.author
        n == f.seq
        known == held[p][x]
    IN  /\ IF n = have[p][x] + 1
           THEN /\ have' = [have EXCEPT ![p][x] = Reaches(known, n)]
                /\ held' = [held EXCEPT ![p][x] = @ \ (1 .. Reaches(known, n))]
           ELSE /\ held' = IF Quarantines(p, x, n)
                           THEN [held EXCEPT ![p][x] = @ \cup {n}] ELSE held
                /\ UNCHANGED have
        /\ chan' = queues
        /\ sess' = [sess EXCEPT ![p] = rest]
        /\ UNCHANGED <<up, faults, bilateral>>

Handle(p, f, rest, queues) ==
    \/ f.kind = "request" /\ HandleRequest(p, f, rest, queues)
    \/ f.kind = "clock" /\ HandleClock(p, f, rest, queues)
    \/ f.kind = "msg" /\ HandleMessage(p, f, rest, queues)

-----------------------------------------------------------------------------
(* The queue of the tunnel: the session routes a frame to the callback of   *)
(* our own request, or to the handler of requests when there is one.        *)

Direct(p, f) ==
    f.half = "answer" /\ f.id <= sess[p].asked /\ f.id \notin sess[p].seen

Receive(p) ==
    /\ chan[p] # <<>> /\ sess[p].replaying = <<>>
    /\ LET f == Head(chan[p])
           queues == [chan EXCEPT ![p] = Tail(@)]
           s == IF f.kind = "request"
                THEN [sess[p] EXCEPT !.seen = @ \cup {f.id}] ELSE sess[p]
       IN  IF Direct(p, f) \/ s.installed
           THEN Handle(p, f, s, queues)
           ELSE /\ sess' = [sess EXCEPT ![p] =
                               [s EXCEPT !.buffer = Append(@, f)]]
                /\ chan' = queues
                /\ UNCHANGED <<store, up, faults, bilateral>>

(* Mutant: the buffer is not replayed. *)
ReplayDrops(p) ==
    /\ sess[p].replays > 0 /\ sess[p].replaying = <<>>
    /\ sess' = [sess EXCEPT ![p].replays = @ - 1, ![p].buffer = <<>>]
    /\ UNCHANGED <<store, up, faults, chan, bilateral>>

(* Mutant: the buffer is kept when it is replayed. *)
ReplayTwice(p) ==
    /\ sess[p].replays > 0 /\ sess[p].replaying = <<>>
    /\ sess' = [sess EXCEPT ![p].replays = @ - 1,
                            ![p].replaying = sess[p].buffer]
    /\ UNCHANGED <<store, up, faults, chan, bilateral>>

(* replayPendingIncomingRequests takes the buffer and handles it in order.  *)
ReplayStarts(p) ==
    /\ sess[p].replays > 0 /\ sess[p].replaying = <<>>
    /\ sess' = [sess EXCEPT ![p].replays = @ - 1,
                            ![p].replaying = sess[p].buffer,
                            ![p].buffer = <<>>]
    /\ UNCHANGED <<store, up, faults, chan, bilateral>>

ReplayNext(p) ==
    /\ sess[p].replaying # <<>>
    /\ Handle(p, Head(sess[p].replaying),
              [sess[p] EXCEPT !.replaying = Tail(@)], chan)

-----------------------------------------------------------------------------
Start(p) == StartRequests(p) \/ StartInstalls(p)

TunnelQueue(p) == Receive(p) \/ ReplayStarts(p) \/ ReplayNext(p)

Next ==
    \/ TunnelUp \/ TunnelDown
    \/ \E p \in Peers : Publish(p) \/ Start(p) \/ TunnelQueue(p)

Spec == Init /\ [][Next]_vars

(* The tunnel comes back (what TunnelConnect is about), a session is        *)
(* started when it does, and the queue of the tunnel runs and delivers.     *)
FairSpec ==
    /\ Spec
    /\ WF_vars(TunnelUp)
    /\ \A p \in Peers :
          WF_vars(Start(p)) /\ WF_vars(Receive(p))
            /\ WF_vars(ReplayStarts(p) \/ ReplayNext(p))

-----------------------------------------------------------------------------
(* Properties. *)

InFlight(p) == chan[p] \o sess[p].buffer \o sess[p].replaying

Coming(p) == {InFlight(p)[i] : i \in DOMAIN InFlight(p)}

(* Nothing else tells a peer of new messages: once both ends have started,  *)
(* there is always a clock on its way, to one or the other, that asks for   *)
(* the feed of each of them.                                                *)
PollingContinues ==
    (\A p \in Peers : sess[p].recorded # 0) =>
        \A x \in Peers : \E p \in Peers : \E f \in Coming(p) :
            f.kind = "clock" /\ x \in DOMAIN f.clock

(* Each start brings two clocks into play, its own and the answer to its    *)
(* request, and no answer multiplies them.                                  *)
Exchanges(p) == {i \in DOMAIN InFlight(p) : InFlight(p)[i].kind # "msg"}

NoClockStorm ==
    Cardinality(Exchanges(alice)) + Cardinality(Exchanges(bob))
      <= 2 * (sess[alice].asked + sess[bob].asked)

(* Frames that overtake others make messages arrive before their            *)
(* predecessors and wait in quarantine, but no message is ever on its way   *)
(* alone: of what comes before it nothing is missing that is not stored, in *)
(* quarantine, or on its way as well, whatever is buffered, replayed or     *)
(* sent again after a double start.                                         *)
OnTheWay(p, x) ==
    {f.seq : f \in {g \in Coming(p) : g.kind = "msg" /\ g.author = x}}

NoGapInFlight ==
    \A p, x \in Peers : \A n \in OnTheWay(p, x) :
        have[p][x] + 1 .. n \subseteq held[p][x] \cup OnTheWay(p, x)

(* What a peer publishes reaches the other, over broken tunnels, a late     *)
(* handler, overtaken frames and double starts: when the last message is    *)
(* out, both have the same feed of each for good.                           *)
OwnFeedsArrive ==
    \A p \in Peers : <>[](have[Other(p)][p] = have[p][p])

=============================================================================
