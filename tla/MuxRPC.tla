------------------------------- MODULE MuxRPC -------------------------------
(***************************************************************************)
(* SSBMuxRPCSession at both ends of one connection (a tunnel between two   *)
(* clients, each running this code).                                       *)
(*                                                                         *)
(* Each end numbers its own requests from 1.  A frame carries the request  *)
(* number, positive in the half of the requester and negated in the half   *)
(* of the one that answers.  handleIncomingMessage: routes a frame by the  *)
(* absolute number alone: to the request handler while that number is in   *)
(* activeIncomingRequests, otherwise to the callback in pendingRequests.   *)
(*                                                                         *)
(* A frame body is abstracted to what the session distinguishes: a request *)
(* envelope, a value (the n-th of its half), a clean end, or an error.     *)
(***************************************************************************)
EXTENDS Integers, Sequences, FiniteSets

CONSTANTS
    Peers,   \* the two ends
    Quota,   \* bound: how many requests each end makes
    Values   \* bound: how many values each end sends in its half of a stream

ASSUME PeersAssumption ==
    /\ \A p \in Peers : \E q \in Peers : q # p
    /\ \A p, q, r \in Peers : p = q \/ q = r \/ p = r
    /\ Quota \in [Peers -> Nat]
    /\ Values \in [Peers -> Nat]

Other(p) == CHOOSE q \in Peers : q # p

IDs == UNION {1 .. Quota[p] : p \in Peers}

VARIABLES
    nextID,     \* nextRequestID of each end
    pending,    \* pendingRequests: ids with a callback
    incoming,   \* activeIncomingRequests: absolute ids
    unsent,     \* registered requests whose envelope is not on the wire yet
    wire,       \* wire[p]: frames on their way to p, oldest first
    isStream,   \* the type of each request: source or duplex, or async
    open,       \* requests the application of p has been handed, unanswered
    asked,      \* history: what p sent in its half of its own request
    answered,   \* history: what p sent in answer to the other's request
    called,     \* history: what the callback of p's own request was given
    handed      \* history: what receiveRequestBlock of p was given, per id

session == <<nextID, pending, incoming, unsent>>
history == <<isStream, asked, answered, called, handed>>
vars == <<session, wire, open, history>>

Frames == [id : IDs \cup {-i : i \in IDs},
           body : {"request", "value", "done", "error"},
           n : Nat, stream : BOOLEAN, end : BOOLEAN]

Histories == [Peers -> [IDs -> Seq(Frames)]]

Abs(i) == IF i < 0 THEN -i ELSE i

Empty == [p \in Peers |-> [i \in IDs |-> <<>>]]

(* A callback waits only under a number that has been given out: the next   *)
(* request never takes the place of a pending one.                          *)
TypeOK ==
    /\ nextID \in [Peers -> Nat \ {0}]
    /\ pending \in [Peers -> SUBSET IDs]
    /\ \A p \in Peers : \A i \in pending[p] : i < nextID[p]
    /\ incoming \in [Peers -> SUBSET IDs]
    /\ unsent \in [Peers -> SUBSET IDs]
    /\ wire \in [Peers -> Seq(Frames)]
    /\ isStream \in [Peers -> [IDs -> BOOLEAN]]
    /\ open \in [Peers -> SUBSET IDs]
    /\ asked \in Histories /\ answered \in Histories
    /\ called \in Histories /\ handed \in Histories

Init ==
    /\ nextID = [p \in Peers |-> 1]
    /\ pending = [p \in Peers |-> {}]
    /\ incoming = [p \in Peers |-> {}]
    /\ unsent = [p \in Peers |-> {}]
    /\ wire = [p \in Peers |-> <<>>]
    /\ isStream = [p \in Peers |-> [i \in IDs |-> FALSE]]
    /\ open = [p \in Peers |-> {}]
    /\ asked = Empty /\ answered = Empty /\ called = Empty /\ handed = Empty

Send(p, f) == wire' = [wire EXCEPT ![Other(p)] = Append(@, f)]
Log(h, p, i, f) == [h EXCEPT ![p][i] = Append(@, f)]

-----------------------------------------------------------------------------
(* sendRequest:args:type:completion: - the id is taken atomically and the   *)
(* callback registered before the envelope goes out; two threads may do so  *)
(* at once, so envelopes can leave in another order than their ids.         *)

Register(p) ==
    /\ nextID[p] <= Quota[p]
    /\ \E s \in BOOLEAN :
          isStream' = [isStream EXCEPT ![p][nextID[p]] = s]
    /\ nextID' = [nextID EXCEPT ![p] = @ + 1]
    /\ pending' = [pending EXCEPT ![p] = @ \cup {nextID[p]}]
    /\ unsent' = [unsent EXCEPT ![p] = @ \cup {nextID[p]}]
    /\ UNCHANGED <<incoming, wire, open, asked, answered, called, handed>>

Transmit(p, i) ==
    /\ i \in unsent[p]
    /\ unsent' = [unsent EXCEPT ![p] = @ \ {i}]
    /\ LET f == [id |-> i, body |-> "request", n |-> 0,
                 stream |-> isStream[p][i], end |-> FALSE]
       IN  Send(p, f) /\ asked' = Log(asked, p, i, f)
    /\ UNCHANGED <<nextID, pending, incoming, open,
                   isStream, answered, called, handed>>

(* The arguments cannot be encoded as JSON: the callback is taken back and  *)
(* told, and the number is spent.                                           *)
RequestFails(p, i) ==
    /\ i \in unsent[p]
    /\ unsent' = [unsent EXCEPT ![p] = @ \ {i}]
    /\ pending' = [pending EXCEPT ![p] = @ \ {i}]
    /\ UNCHANGED <<nextID, incoming, wire, open, history>>

-----------------------------------------------------------------------------
(* sendData:forRequest:isEnd: - of the requester in its own half of a       *)
(* duplex stream, and of the application that answers.                      *)

SentValues(h, p, i) ==
    Cardinality({k \in DOMAIN h[p][i] : h[p][i][k].body = "value"})

SendOwnValue(p, i) ==
    /\ asked[p][i] # <<>> /\ isStream[p][i] /\ i \in pending[p]
    /\ SentValues(asked, p, i) < Values[p]
    /\ LET f == [id |-> i, body |-> "value", n |-> SentValues(asked, p, i) + 1,
                 stream |-> TRUE, end |-> FALSE]
       IN  Send(p, f) /\ asked' = Log(asked, p, i, f)
    /\ UNCHANGED <<session, open, isStream, answered, called, handed>>

Answer(p, i, body, stream, end) ==
    LET f == [id |-> -i, body |-> body,
              n |-> IF body = "value" THEN SentValues(answered, p, i) + 1 ELSE 0,
              stream |-> stream, end |-> end]
    IN  Send(p, f) /\ answered' = Log(answered, p, i, f)

AnswerValue(p, i) ==
    /\ i \in open[p] /\ isStream[Other(p)][i]
    /\ SentValues(answered, p, i) < Values[p]
    /\ Answer(p, i, "value", TRUE, FALSE)
    /\ UNCHANGED <<session, open, isStream, asked, called, handed>>

AnswerEnd(p, i) ==
    /\ i \in open[p] /\ isStream[Other(p)][i]
    /\ \E body \in {"done", "error"} : Answer(p, i, body, TRUE, TRUE)
    /\ open' = [open EXCEPT ![p] = @ \ {i}]
    /\ UNCHANGED <<session, isStream, asked, called, handed>>

AnswerAsync(p, i) ==
    /\ i \in open[p] /\ ~isStream[Other(p)][i]
    /\ \E body \in {"value", "error"} : Answer(p, i, body, FALSE, TRUE)
    /\ open' = [open EXCEPT ![p] = @ \ {i}]
    /\ UNCHANGED <<session, isStream, asked, called, handed>>

-----------------------------------------------------------------------------
(* handleIncomingMessage: *)

(* Mutant: a request envelope is recognised by its number only. *)
IsIncomingByNumber(p, f) == Abs(f.id) \in incoming[p]

IsIncomingRequest(p, f) == f.body = "request" \/ Abs(f.id) \in incoming[p]

(* Mutant: the number of an answer is not negated. *)
CallbackWithSign(p, f) ==
    IF ~IsIncomingRequest(p, f) /\ f.id \in pending[p] THEN {f.id} ELSE {}

(* The pending request whose callback gets the frame, if any. *)
CallbackFor(p, f) ==
    IF ~IsIncomingRequest(p, f) /\ Abs(f.id) \in pending[p]
    THEN {Abs(f.id)} ELSE {}

(* Mutant: the end of a stream leaves its callback registered, any other    *)
(* frame removes it.                                                        *)
FinishedEarly(f) == ~f.end

(* The exchange a frame belongs to is over on this side. *)
Finished(f) == f.end \/ ~f.stream

Receive(p) ==
    /\ wire[p] # <<>>
    /\ wire' = [wire EXCEPT ![p] = Tail(@)]
    /\ LET f == Head(wire[p])
           i == Abs(f.id)
       IN  \/ /\ i \in CallbackFor(p, f)
              /\ called' = Log(called, p, i, f)
              /\ pending' = IF Finished(f) THEN [pending EXCEPT ![p] = @ \ {i}]
                            ELSE pending
              /\ UNCHANGED <<incoming, open, handed>>
           \/ /\ CallbackFor(p, f) = {}
              /\ handed' = Log(handed, p, i, f)
              /\ incoming' = [incoming EXCEPT ![p] =
                     IF Finished(f) THEN @ \ {i}
                     ELSE IF f.body = "request" THEN @ \cup {i} ELSE @]
              /\ open' = IF f.body = "request"
                         THEN [open EXCEPT ![p] = @ \cup {i}] ELSE open
              /\ UNCHANGED <<pending, called>>
    /\ UNCHANGED <<nextID, unsent, isStream, asked, answered>>

-----------------------------------------------------------------------------
Request(p) ==
    \/ Register(p)
    \/ \E i \in IDs :
          Transmit(p, i) \/ RequestFails(p, i) \/ SendOwnValue(p, i)

Serve(p) ==
    \E i \in IDs : AnswerValue(p, i) \/ AnswerEnd(p, i) \/ AnswerAsync(p, i)

Next == \E p \in Peers : Request(p) \/ Serve(p) \/ Receive(p)

Spec == Init /\ [][Next]_vars

(* The connection delivers, a registered envelope is sent or refused, and   *)
(* every application ends what it answers.                                  *)
FairSpec ==
    /\ Spec
    /\ \A p \in Peers :
          /\ WF_vars(Receive(p))
          /\ \A i \in IDs :
                /\ WF_vars(Transmit(p, i) \/ RequestFails(p, i))
                /\ WF_vars(AnswerEnd(p, i) \/ AnswerAsync(p, i))

-----------------------------------------------------------------------------
(* Properties. *)

OnWire(p, id) == {k \in DOMAIN wire[p] : wire[p][k].id = id}

(* What was sent is what was given and after it the frames of w at the      *)
(* places ks, in their order: none is lost, doubled or overtaken.           *)
Delivered(given, w, ks, sent) ==
    /\ Len(given) <= Len(sent)
    /\ \A k \in DOMAIN given : given[k] = sent[k]
    /\ \E at \in [Len(given) + 1 .. Len(sent) -> ks] :
          /\ \A l \in ks : \E k \in DOMAIN at : at[k] = l
          /\ \A k, l \in DOMAIN at : k < l => at[k] < at[l]
          /\ \A k \in DOMAIN at : w[at[k]] = sent[k]

(* The other end has made no request with the number of p's request i. *)
Alone(p, i) == i < nextID[p] /\ i >= nextID[Other(p)]

(* While a number belongs to one end only, both halves of its exchange are  *)
(* delivered exactly once and in order: the answers to the callback that    *)
(* waits for them, the requester's half to the request handler.             *)
StreamsFaithful ==
    \A p \in Peers : \A i \in IDs :
        Alone(p, i) =>
            /\ Delivered(called[p][i], wire[p], OnWire(p, -i), answered[Other(p)][i])
            /\ Delivered(handed[Other(p)][i],
                         wire[Other(p)], OnWire(Other(p), i), asked[p][i])

(* Even when both ends use a number, every request envelope that was sent   *)
(* reaches the request handler exactly once: it is on its way or handed     *)
(* over, never both and never twice, and no answer of the same number on    *)
(* its way swallows it.                                                     *)
Envelopes(s, i) == {k \in DOMAIN s : s[k].body = "request" /\ s[k].id = i}
InOnePlace(ks, ls) ==
    /\ ks = {} \/ ls = {}
    /\ \A k, l \in ks \cup ls : k = l
EveryRequestHandled ==
    \A p \in Peers : \A i \in IDs :
        LET coming == Envelopes(wire[Other(p)], i)
            given == Envelopes(handed[Other(p)][i], i)
        IN  /\ InOnePlace(coming, given)
            /\ asked[p][i] # <<>> <=> coming \cup given # {}

(* A request whose number the other end never uses is answered to its end:  *)
(* its callback does not stay in pendingRequests.                           *)
LoneRequestAnswered ==
    \A p \in Peers : \A i \in {j \in IDs : j > Quota[Other(p)]} :
        i \in pending[p] ~> i \notin pending[p]

=============================================================================
