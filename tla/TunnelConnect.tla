---------------------------- MODULE TunnelConnect ----------------------------
(***************************************************************************)
(* How two clients in one room agree on the tunnel between them            *)
(* (SSBRoomClient, connectToPeer: and handleTunnelConnect:requestID:).     *)
(*                                                                         *)
(* connectToPeer: waits two seconds and then runs on the main thread;      *)
(* everything the room sends is handled on clientQueue.  Each holds        *)
(* activeTunnels only for the moment it reads or writes it, so the steps   *)
(* of the two interleave.  A tie is broken by comparing the ids: lo keeps  *)
(* its outgoing tunnel, hi takes the incoming one.                         *)
(*                                                                         *)
(* A tunnel is named by the attempt that made it.  Inside it the ends run  *)
(* the four messages of the secret handshake; a tunnel is connected at an  *)
(* end that has sent or received the fourth.  The room is external: it     *)
(* relays each duplex stream in order and ends it when a client leaves.    *)
(***************************************************************************)
EXTENDS Integers, Sequences, SequencesExt

CONSTANTS
    lo, hi,        \* the peer with the lower id and the other one
    None,          \* no tunnel
    MaxAttempts,   \* bound: tunnel.connect requests of a peer
    MaxTimers,     \* bound: delayed connects of a peer at one time
    MaxDrops,      \* bound: lost connections to the room
    MaxAsks        \* bound: times the user opens the profile of the other

ASSUME TunnelAssumption ==
    /\ lo # hi /\ None \notin {lo, hi} \X Nat
    /\ MaxAttempts \in Nat \ {0} /\ MaxTimers \in Nat \ {0}
    /\ MaxDrops \in Nat /\ MaxAsks \in Nat

Peers == {lo, hi}
Other(p) == IF p = lo THEN hi ELSE lo
Attempts == Peers \X (1 .. MaxAttempts)
Initiator(t) == t[1]

VARIABLES
    online,    \* isConnected
    active,    \* activeTunnels[the other peer]
    hs,        \* the last handshake message seen or sent on the active tunnel
    main,      \* where the main thread is in the delayed block of connectToPeer:
    timers,    \* delayed blocks that have not run
    waiting,   \* peerNextTunnelRetryAt lies ahead
    made,      \* tunnel.connect requests sent
    relayed,   \* the duplex streams the room relays (external)
    net,       \* net[p]: from the room to p, oldest first
    drops, asks,   \* how often the bounded events have happened
    raced,     \* history: the peers where clientQueue changed or ended a tunnel
               \* while the main thread was in the middle of its own connect
    lapsed,    \* history: an active tunnel whose stream ended without an error
    skipped    \* history: a request to replicate fell into the retry delay

client == <<online, active, hs, main, timers, waiting, made>>
room == <<relayed, net>>
history == <<raced, lapsed, skipped>>
vars == <<client, room, drops, asks, history>>

Messages ==
    [type : {"connect", "end", "error"}, att : Attempts]
      \cup [type : {"data"}, att : Attempts, n : 1 .. 4]
      \cup [type : {"joined"}]

Connected(p) == active[p] # None /\ hs[p] = 4

TypeOK ==
    /\ online \in [Peers -> BOOLEAN]
    /\ active \in [Peers -> Attempts \cup {None}]
    /\ hs \in [Peers -> 0 .. 4]
    /\ \A p \in Peers : active[p] = None => hs[p] = 0
    /\ main \in [Peers -> {"idle", "checked", "sent"}]
    /\ timers \in [Peers -> 0 .. MaxTimers]
    /\ waiting \in [Peers -> BOOLEAN]
    /\ made \in [Peers -> 0 .. MaxAttempts]
    /\ \A p \in Peers : main[p] = "sent" => made[p] # 0
    /\ relayed \subseteq Attempts
    /\ net \in [Peers -> Seq(Messages)]
    /\ drops \in 0 .. MaxDrops /\ asks \in 0 .. MaxAsks
    /\ raced \subseteq Peers /\ lapsed \subseteq Attempts /\ skipped \in BOOLEAN

Joined == [type |-> "joined"]

Init ==
    /\ online = [p \in Peers |-> TRUE]
    /\ active = [p \in Peers |-> None]
    /\ hs = [p \in Peers |-> 0]
    /\ main = [p \in Peers |-> "idle"]
    /\ timers = [p \in Peers |-> 0]
    /\ waiting = [p \in Peers |-> FALSE]
    /\ made = [p \in Peers |-> 0]
    /\ relayed = {}
    /\ net = [p \in Peers |-> <<Joined>>]
    /\ drops = 0 /\ asks = 0
    /\ raced = {} /\ lapsed = {} /\ skipped = FALSE

SetTunnel(p, t, n) ==
    /\ active' = [active EXCEPT ![p] = t]
    /\ hs' = [hs EXCEPT ![p] = n]

-----------------------------------------------------------------------------
(* The room. *)

Data(t, n) == [type |-> "data", att |-> t, n |-> n]

(* What is left of the queues when p has consumed its first message and     *)
(* sends m back on a stream the room still relays.                          *)
Reply(p, m) ==
    net' = [net EXCEPT ![p] = Tail(@),
                       ![Other(p)] = IF m.att \in relayed THEN Append(@, m) ELSE @]

Consume(p) == net' = [net EXCEPT ![p] = Tail(@)]

-----------------------------------------------------------------------------
(* replicateFromPeer:viaRoom: *)

(* Mutant: what becomes of a tunnel is kept as well. *)
KeptStatusesAll == {"none", "Receiving", "Sending", "Ready", "Unavailable"}

(* What internalPeerSyncStates can hold for the other peer.  Only a status  *)
(* reported with an author is kept, and that is the progress of a feed      *)
(* (line 2199); whatever becomes of a tunnel is reported with author:nil.   *)
KeptStatuses == {"none", "Receiving", "Sending", "Ready"}

Terminal == {"Stranger", "Unavailable", "This Device"}

(* A tunnel that is not connected is removed if the status kept for the     *)
(* peer is terminal, which it never is.                                     *)
Replicate(p) ==
    /\ skipped' = (skipped \/ waiting[p])
    /\ timers' = IF ~waiting[p] /\ active[p] = None /\ timers[p] < MaxTimers
                 THEN [timers EXCEPT ![p] = @ + 1] ELSE timers
    /\ \E status \in KeptStatuses :
          IF ~waiting[p] /\ active[p] # None /\ ~Connected(p) /\ status \in Terminal
          THEN SetTunnel(p, None, 0)
          ELSE UNCHANGED <<active, hs>>

(* The user opens the profile of the other. *)
Ask(p) ==
    /\ asks < MaxAsks
    /\ asks' = asks + 1
    /\ Replicate(p)
    /\ UNCHANGED <<online, main, waiting, made, room, drops, raced, lapsed>>

RetryDatePasses(p) ==
    /\ waiting[p]
    /\ waiting' = [waiting EXCEPT ![p] = FALSE]
    /\ UNCHANGED <<online, active, hs, main, timers, made, room, drops, asks,
                   history>>

-----------------------------------------------------------------------------
(* The delayed block of connectToPeer:, on the main thread. *)

(* Mutant: the tunnel is not looked up again after the delay. *)
ConnectUnchecked(p) ==
    /\ main[p] = "idle" /\ timers[p] > 0
    /\ timers' = [timers EXCEPT ![p] = @ - 1]
    /\ main' = [main EXCEPT ![p] = "checked"]
    /\ UNCHANGED <<online, active, hs, waiting, made, room, drops, asks, history>>

ConnectFires(p) ==
    /\ main[p] = "idle" /\ timers[p] > 0
    /\ timers' = [timers EXCEPT ![p] = @ - 1]
    /\ main' = IF active[p] = None THEN [main EXCEPT ![p] = "checked"] ELSE main
    /\ UNCHANGED <<online, active, hs, waiting, made, room, drops, asks, history>>

SendConnect(p) ==
    /\ main[p] = "checked" /\ online[p] /\ made[p] < MaxAttempts
    /\ main' = [main EXCEPT ![p] = "sent"]
    /\ made' = [made EXCEPT ![p] = @ + 1]
    /\ LET t == <<p, made[p] + 1>>
       IN  IF online[Other(p)]
           THEN /\ relayed' = relayed \cup {t}
                /\ net' = [net EXCEPT ![Other(p)] =
                              Append(@, [type |-> "connect", att |-> t])]
           ELSE /\ net' = [net EXCEPT ![p] =
                              Append(@, [type |-> "error", att |-> t])]
                /\ UNCHANGED relayed
    /\ UNCHANGED <<online, active, hs, timers, waiting, drops, asks, history>>

(* What the completion of tunnel.connect does with an error; mine is the    *)
(* captured outgoing tunnel, None when it is gone or not there yet.         *)
ConnectFails(p, mine) ==
    IF active[p] \in {None, mine}
    THEN /\ SetTunnel(p, None, 0)
         /\ waiting' = [waiting EXCEPT ![p] = TRUE]
    ELSE UNCHANGED <<active, hs, waiting>>

(* sendRPCRequest: calls the completion before it returns -1. *)
SendConnectOffline(p) ==
    /\ main[p] = "checked" /\ ~online[p]
    /\ main' = [main EXCEPT ![p] = "idle"]
    /\ ConnectFails(p, None)
    /\ UNCHANGED <<online, timers, made, room, drops, asks, history>>

(* The new tunnel starts - its listener sends the first message of the      *)
(* handshake - and takes the place of whatever activeTunnels holds by now.  *)
SetActiveTunnel(p) ==
    /\ main[p] = "sent"
    /\ main' = [main EXCEPT ![p] = "idle"]
    /\ LET t == <<p, made[p]>>
       IN  /\ SetTunnel(p, t, 1)
           /\ net' = IF t \in relayed
                     THEN [net EXCEPT ![Other(p)] = Append(@, Data(t, 1))]
                     ELSE net
    /\ UNCHANGED <<online, timers, waiting, made, relayed, drops, asks, history>>

-----------------------------------------------------------------------------
(* handleServerInitiatedRequest: and the completion of tunnel.connect, on   *)
(* clientQueue.                                                             *)

First(p, type) == net[p] # <<>> /\ Head(net[p]).type = type

ReceiveJoined(p) ==
    /\ First(p, "joined")
    /\ Consume(p)
    /\ Replicate(p)
    /\ UNCHANGED <<online, main, waiting, made, relayed, drops, asks, raced, lapsed>>

(* Mutant: there is no tiebreak. *)
KeepsOwnNever(p) == active[p] # None /\ FALSE

KeepsOwn(p) == active[p] # None /\ p = lo

(* A clean end instead of an error, so that the room keeps the session. *)
RejectConnect(p) ==
    /\ First(p, "connect") /\ KeepsOwn(p)
    /\ LET t == Head(net[p]).att
       IN  Reply(p, [type |-> "end", att |-> t]) /\ relayed' = relayed \ {t}
    /\ UNCHANGED <<client, drops, asks, history>>

AcceptConnect(p) ==
    /\ First(p, "connect") /\ ~KeepsOwn(p)
    /\ Consume(p)
    /\ SetTunnel(p, Head(net[p]).att, 0)
    /\ raced' = IF main[p] = "idle" THEN raced ELSE raced \cup {p}
    /\ UNCHANGED <<online, main, timers, waiting, made, relayed, drops, asks,
                   lapsed, skipped>>

(* Bytes of a tunnel that is not active are lost.  The end that has the     *)
(* last message reports ready, which clears the retry date.                 *)
ReceiveData(p) ==
    /\ First(p, "data")
    /\ LET m == Head(net[p])
           n == m.n
       IN  IF m.att = active[p]
           THEN /\ hs' = [hs EXCEPT ![p] = IF n = 4 THEN 4 ELSE n + 1]
                /\ IF n = 4 THEN Consume(p) ELSE Reply(p, Data(m.att, n + 1))
                /\ waiting' = IF n >= 3 THEN [waiting EXCEPT ![p] = FALSE]
                              ELSE waiting
           ELSE Consume(p) /\ UNCHANGED <<hs, waiting>>
    /\ UNCHANGED <<online, active, main, timers, made, relayed, drops, asks,
                   history>>

(* History: the stream ends before its tunnel is in activeTunnels. *)
AnswerOvertakes(p) ==
    raced' = IF main[p] = "sent" /\ Head(net[p]).att = <<p, made[p]>>
             THEN raced \cup {p} ELSE raced

(* The completion is called with neither response nor error and leaves the  *)
(* tunnel where it is; at the accepting end no code looks at the frame.     *)
ReceiveEnd(p) ==
    /\ First(p, "end")
    /\ Consume(p)
    /\ lapsed' = IF Head(net[p]).att = active[p]
                 THEN lapsed \cup {active[p]} ELSE lapsed
    /\ AnswerOvertakes(p)
    /\ UNCHANGED <<client, relayed, drops, asks, skipped>>

ReceiveError(p) ==
    /\ First(p, "error")
    /\ Consume(p)
    /\ LET t == Head(net[p]).att
       IN  IF Initiator(t) = p
           THEN ConnectFails(p, IF active[p] = t THEN t ELSE None)
                /\ UNCHANGED lapsed
           ELSE lapsed' = (IF active[p] = t THEN lapsed \cup {t} ELSE lapsed)
                /\ UNCHANGED <<active, hs, waiting>>
    /\ AnswerOvertakes(p)
    /\ UNCHANGED <<online, main, timers, made, relayed, drops, asks, skipped>>

-----------------------------------------------------------------------------
(* The connection to the room. *)

(* What the room tells a peer of the streams it stops relaying. *)
Ends(type) ==
    LET s == SetToSeq(relayed)
    IN  [i \in 1 .. Len(s) |-> [type |-> type, att |-> s[i]]]

Disconnect(p) ==
    /\ online[p] /\ drops < MaxDrops
    /\ drops' = drops + 1
    /\ online' = [online EXCEPT ![p] = FALSE]
    /\ SetTunnel(p, None, 0)
    /\ relayed' = {}
    /\ \E type \in {"end", "error"} :
          net' = [net EXCEPT ![p] = <<>>, ![Other(p)] = @ \o Ends(type)]
    /\ raced' = IF main[p] = "sent" THEN raced \cup {p} ELSE raced
    /\ UNCHANGED <<main, timers, waiting, made, asks, lapsed, skipped>>

Reconnect(p) ==
    /\ ~online[p]
    /\ online' = [online EXCEPT ![p] = TRUE]
    /\ net' = IF online[Other(p)]
              THEN [q \in Peers |-> Append(net[q], Joined)] ELSE net
    /\ UNCHANGED <<active, hs, main, timers, waiting, made, relayed, drops,
                   asks, history>>

-----------------------------------------------------------------------------
Connect(p) ==
    ConnectFires(p) \/ SendConnect(p) \/ SendConnectOffline(p) \/ SetActiveTunnel(p)

Handle(p) ==
    \/ ReceiveJoined(p) \/ RejectConnect(p) \/ AcceptConnect(p)
    \/ ReceiveData(p) \/ ReceiveEnd(p) \/ ReceiveError(p)

Next ==
    \E p \in Peers :
        Connect(p) \/ Handle(p) \/ Ask(p) \/ RetryDatePasses(p)
          \/ Disconnect(p) \/ Reconnect(p)

Spec == Init /\ [][Next]_vars

(* The main thread and clientQueue run what they are given, the retry date  *)
(* passes, and a lost connection is made again (autoReconnect).             *)
FairSpec ==
    /\ Spec
    /\ \A p \in Peers :
          /\ WF_vars(Connect(p))
          /\ WF_vars(Handle(p))
          /\ WF_vars(RetryDatePasses(p))
          /\ WF_vars(Reconnect(p))

-----------------------------------------------------------------------------
(* Properties. *)

Quiet == \A p \in Peers :
    online[p] /\ net[p] = <<>> /\ main[p] = "idle" /\ timers[p] = 0

BothHold(t) == \A p \in Peers : active[p] = t /\ hs[p] = 4

(* When nothing is under way, a tunnel one peer holds is connected and held *)
(* by both.                                                                 *)
OneTunnel ==
    Quiet => \A p \in Peers : active[p] # None => BothHold(active[p])

(* The only ways to break it without losing a connection: hi accepts an     *)
(* incoming tunnel while the main thread is in the middle of its own        *)
(* connect.                                                                 *)
OneTunnelUnlessRaced == drops = 0 /\ hi \notin raced => OneTunnel

(* Once both ends of a tunnel have finished the handshake, neither replaces *)
(* it, whatever crosses on the way, unless a connection is lost or the main *)
(* thread of one of them was already past its check.                        *)
EstablishedStays ==
    [][\A t \in Attempts :
          BothHold(t) /\ drops' = 0 /\ raced = {} => BothHold(t)']_vars

(* Two peers that both stay, or come back, end with a connected tunnel,     *)
(* except in three ways: a race of the two threads, a stream that ended     *)
(* without an error and left its tunnel in activeTunnels, and a request to  *)
(* replicate that fell into the retry delay, since nothing asks again when  *)
(* it is over.                                                              *)
Converges ==
    <>[]((\E t \in Attempts : BothHold(t)) \/ raced # {} \/ lapsed # {} \/ skipped)

(* SSBRoomClient.m:2675-2678, "exactly one tunnel per pair regardless of    *)
(* network race".                                                           *)
OneTunnelRegardless == drops = 0 => OneTunnel

=============================================================================
